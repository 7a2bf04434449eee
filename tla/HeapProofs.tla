----------------------------- MODULE HeapProofs -----------------------------
(***************************************************************************)
(* Proofs about the heap of a process, for a heap of any size and any      *)
(* sizes asked for.                                                        *)
(***************************************************************************)
EXTENDS Heap, ListLemmas

USE UnitsAssumption, SizesAssumption

-----------------------------------------------------------------------------
(* Linked lists                                                            *)

Places == {NULL} \cup Addr
Headers == [Addr -> [size : 0..UNITS, next : Places]]

(* Every link leads upwards, or is NULL.                                   *)
Ascends(h) ==
  \A a \in Addr : h[a].next \in Places /\ (h[a].next = NULL \/ a < h[a].next)

(* s is the sequence of nodes from first on.                               *)
IsChain(s, h, first) ==
  /\ s \in Seq(Addr) /\ Len(s) >= 1
  /\ s[1] = first
  /\ \A i \in 1..(Len(s) - 1) : s[i + 1] = h[s[i]].next
  /\ h[s[Len(s)]].next = NULL

(* M is the set of these nodes: each leads to the next higher one.         *)
IsList(M, h, first) ==
  /\ M \subseteq Addr /\ first \in M
  /\ \A a \in M :
       /\ first <= a
       /\ h[a].next = NULL => \A c \in M : c <= a
       /\ h[a].next # NULL =>
            /\ h[a].next \in M /\ a < h[a].next
            /\ \A c \in M : c <= a \/ h[a].next <= c

(* Blocks of m units at a and of n units at b do not overlap.              *)
Apart(a, m, b, n) == a + m <= b \/ b + n <= a

(* A heap in which no unit has two owners: N are the free blocks.          *)
InHeap(h, N) ==
  \A a \in N : h[a].size >= 1 /\ a + h[a].size <= UNITS + 1

Sound(h, N, blocks) ==
  /\ \A a, c \in N : a < c => a + h[a].size <= c
  /\ \A b \in blocks : h[b.addr].size = b.size /\ b.addr + b.size <= UNITS + 1
  /\ \A a \in N, b \in blocks : Apart(a, h[a].size, b.addr, b.size)
  /\ \A b, c \in blocks : b # c => Apart(b.addr, b.size, c.addr, c.size)

(* Headers, the free blocks they link up and the blocks handed out.        *)
Good(h, N, first, blocks) ==
  /\ h \in Headers /\ Ascends(h) /\ first \in Addr /\ blocks \subseteq Block
  /\ IsList(N, h, first) /\ InHeap(h, N)

(* The units that are free or handed out.                                  *)
Covers(h, N, blocks) ==
  {u \in Addr : \/ \E a \in N : a <= u /\ u < a + h[a].size
                \/ \E b \in blocks : b.addr <= u /\ u < b.addr + b.size}

(* The free blocks.                                                        *)
Nodes == Range(FreeChain)

(* What the two steps that end a sound heap leave.                         *)
Overlaps ==
  /\ state = "exact fit of the first block" =>
       \E b \in live : b.addr = freelist
  /\ state = "merged on both sides" =>
       \E a, c \in Nodes : a < c /\ c < a + hdr[a].size

IInv ==
  /\ TypeOK
  /\ Ascends(hdr)
  /\ InHeap(hdr, Nodes)
  /\ state \in {"sound", "end of list"} => Sound(hdr, Nodes, live)
  /\ Overlaps

-----------------------------------------------------------------------------
(* Walking a list                                                          *)

Walk(h, g) == [a \in Places |-> IF a = NULL THEN <<>> ELSE <<a>> \o g[h[a].next]]

(* Where links ascend, a walk from every node comes to an end.             *)
LEMMA WalkExists ==
  ASSUME NEW h, Ascends(h)
  PROVE  \E g : g = Walk(h, g)
<1>0. /\ UNITS \in Nat
      /\ \A a \in 1..UNITS : /\ h[a].next \in 0..UNITS
                             /\ h[a].next = 0 \/ a < h[a].next
  BY DEF Ascends, Places, Addr, NULL
<1>a. Places = 0..UNITS
  BY <1>0 DEF Places, Addr, NULL
<1> DEFINE nx(a) == h[a].next
           Part(g, m) == /\ g \in [0..UNITS -> Seq(0..UNITS)] /\ g[0] = <<>>
                         /\ \A a \in 1..UNITS : a > m => g[a] = <<a>> \o g[nx(a)]
           S == {n \in 0..UNITS : \E g : Part(g, UNITS - n)}
<1> HIDE DEF nx
<1>b. \A a \in 1..UNITS : nx(a) \in 0..UNITS /\ (nx(a) = 0 \/ a < nx(a))
  BY <1>0 DEF nx
<1>1. 0 \in S
  <2>1. Part([a \in 0..UNITS |-> <<>>], UNITS - 0)
    BY <1>0
  <2> HIDE DEF Part
  <2> QED BY <2>1, <1>0
<1>2. ASSUME NEW n \in 0..(UNITS - 1), n \in S
      PROVE  n + 1 \in S
  <2>1. PICK g : Part(g, UNITS - n)
    BY <1>2
  <2> DEFINE m == UNITS - n
             v == <<m>> \o g[nx(m)]
             q == [g EXCEPT ![m] = v]
  <2>2. m \in 1..UNITS /\ nx(m) \in 0..UNITS
    BY <1>0, <1>b
  <2>3. v \in Seq(0..UNITS)
    <3> DEFINE t == g[nx(m)]
    <3>1. t \in Seq(0..UNITS) /\ <<m>> \in Seq(0..UNITS)
      BY <2>1, <2>2
    <3> HIDE DEF t, m
    <3>2. <<m>> \o t \in Seq(0..UNITS)
      BY <3>1, ConcatProperties
    <3> QED BY <3>2 DEF t, m
  <2>4. q \in [0..UNITS -> Seq(0..UNITS)] /\ q[0] = <<>> /\ q[m] = v
    <3> HIDE DEF v, m
    <3> QED BY <2>1, <2>2, <2>3
  <2>5. ASSUME NEW a \in 0..UNITS, a # m
        PROVE  q[a] = g[a]
    <3> HIDE DEF v, m
    <3> QED BY <2>1, <2>2, <2>5
  <2>6. ASSUME NEW a \in 1..UNITS, a > UNITS - (n + 1)
        PROVE  q[a] = <<a>> \o q[nx(a)]
    <3>1. nx(a) # m /\ nx(a) \in 0..UNITS
      BY <1>b, <2>2, <2>6
    <3>2. q[nx(a)] = g[nx(a)]
      BY <2>5, <3>1
    <3>3. CASE a = m
      BY <2>4, <3>2, <3>3
    <3>4. CASE a # m
      <4>1. a > UNITS - n /\ q[a] = g[a]
        BY <2>5, <2>6, <3>4, <1>0
      <4> QED BY <2>1, <3>2, <4>1
    <3> QED BY <3>3, <3>4
  <2>7. Part(q, UNITS - (n + 1))
    <3> HIDE DEF q, v, m
    <3> QED BY <2>4, <2>6
  <2> HIDE DEF Part, q
  <2> QED BY <2>7, <1>0
<1>3. UNITS \in S
  <2> HIDE DEF S
  <2>1. \A i \in 0..UNITS : i \in S
    BY <1>0, <1>1, <1>2, UpTo
  <2> QED BY <1>0, <2>1
<1>4. PICK g : Part(g, UNITS - UNITS)
  BY <1>3
<1>5. ASSUME NEW a \in 0..UNITS
      PROVE  g[a] = IF a = 0 THEN <<>> ELSE <<a>> \o g[nx(a)]
  <2>1. g[0] = <<>>
    BY <1>4
  <2>2. a # 0 => a \in 1..UNITS /\ a > UNITS - UNITS
    BY <1>0
  <2>3. a # 0 => g[a] = <<a>> \o g[nx(a)]
    BY <1>4, <2>2
  <2> QED BY <2>1, <2>3, Zenon
<1>6. g = [a \in 0..UNITS |-> IF a = 0 THEN <<>> ELSE <<a>> \o g[nx(a)]]
  BY <1>4, <1>5
<1> QED
  BY <1>6, <1>a DEF Walk, NULL, nx

(* The walk is the sequence of nodes from first on.                        *)
LEMMA ChainIs ==
  ASSUME NEW h, Ascends(h), NEW first \in Addr
  PROVE  IsChain(Chain(h, first), h, first)
<1>0. /\ UNITS \in Nat
      /\ \A a \in 1..UNITS : /\ h[a].next \in 0..UNITS
                             /\ h[a].next = 0 \/ a < h[a].next
  BY DEF Ascends, Places, Addr, NULL
<1>a. Places = 0..UNITS
  BY <1>0 DEF Places, Addr, NULL
<1> DEFINE c == CHOOSE g : g = Walk(h, g)
<1>1. Chain(h, first) = c[first]
  BY DEF Chain, Walk, Places
<1>2. c = Walk(h, c)
  <2> HIDE DEF Walk
  <2> QED BY WalkExists
<1> HIDE DEF c
<1> DEFINE nx(a) == h[a].next
<1> HIDE DEF nx
<1>3. c[0] = <<>> /\ \A a \in 1..UNITS : c[a] = <<a>> \o c[nx(a)]
  <2>1. \A a \in 0..UNITS : c[a] = IF a = 0 THEN <<>> ELSE <<a>> \o c[nx(a)]
    BY <1>2, <1>a DEF Walk, NULL, nx
  <2>2. \A a \in 1..UNITS : a \in 0..UNITS /\ a # 0
    BY <1>0
  <2>3. 0 \in 0..UNITS
    BY <1>0
  <2> QED BY <2>1, <2>2, <2>3, Zenon
<1>b. \A a \in 1..UNITS : nx(a) \in 0..UNITS /\ (nx(a) = 0 \/ a < nx(a))
  BY <1>0 DEF nx
<1> DEFINE Ok(s, f) == /\ s \in Seq(Addr) /\ Len(s) >= 1
                       /\ s[1] = f
                       /\ \A i \in 1..(Len(s) - 1) : s[i + 1] = nx(s[i])
                       /\ nx(s[Len(s)]) = 0
           S == {n \in 0..UNITS : \A a \in 1..UNITS : a > UNITS - n => Ok(c[a], a)}
<1>4. 0 \in S
  <2> HIDE DEF Ok
  <2> QED BY <1>0
<1>5. ASSUME NEW n \in 0..(UNITS - 1), n \in S
      PROVE  n + 1 \in S
  <2> DEFINE m == UNITS - n
             t == c[nx(m)]
             v == <<m>> \o t
  <2>1. m \in 1..UNITS /\ m \in Addr
    BY <1>0 DEF Addr
  <2>2. nx(m) \in 0..UNITS /\ (nx(m) = 0 \/ m < nx(m)) /\ c[m] = v
    BY <1>b, <1>3, <2>1
  <2>3. Ok(v, m)
    <3>1. CASE nx(m) = 0
      <4>1. t = <<>>
        BY <3>1, <1>3
      <4>2. v = <<m>>
        <5> HIDE DEF m, t
        <5> QED BY <4>1, <2>1
      <4> HIDE DEF m, t, v
      <4> QED BY <2>1, <3>1, <4>2
    <3>2. CASE nx(m) # 0
      <4>1. Ok(t, nx(m))
        <5> HIDE DEF Ok
        <5> QED BY <1>5, <2>1, <2>2, <3>2
      <4>2. <<m>> \in Seq(Addr)
        <5> HIDE DEF m
        <5> QED BY <2>1
      <4> HIDE DEF m, t
      <4>3. /\ v \in Seq(Addr) /\ Len(v) = Len(t) + 1
            /\ v[1] = m
            /\ \A i \in 1..Len(t) : v[i + 1] = t[i]
        <5>1. Len(<<m>>) = 1 /\ <<m>>[1] = m
          OBVIOUS
        <5> DEFINE u == <<m>>
        <5> HIDE DEF u
        <5>2. u \in Seq(Addr) /\ t \in Seq(Addr) /\ Len(u) = 1 /\ u[1] = m
          BY <4>1, <4>2, <5>1 DEF u
        <5>3. /\ u \o t \in Seq(Addr) /\ Len(u \o t) = Len(u) + Len(t)
              /\ \A i \in 1..(Len(u) + Len(t)) :
                   (u \o t)[i] = IF i <= Len(u) THEN u[i] ELSE t[i - Len(u)]
          BY <5>2, ConcatProperties, Zenon
        <5>4. v = u \o t
          BY DEF u
        <5> HIDE DEF v
        <5> QED BY <5>2, <5>3, <5>4
      <4> HIDE DEF v
      <4>4. ASSUME NEW i \in 1..(Len(v) - 1)
            PROVE  v[i + 1] = nx(v[i])
        <5>1. CASE i = 1
          BY <4>1, <4>3, <5>1
        <5>2. CASE i # 1
          <6>1. i - 1 \in 1..(Len(t) - 1) /\ (i - 1) + 1 = i /\ i \in 1..Len(t)
            BY <4>1, <4>3, <5>2
          <6>2. v[i + 1] = t[i] /\ v[i] = t[i - 1]
            BY <4>3, <6>1
          <6> QED BY <4>1, <6>1, <6>2
        <5> QED BY <5>1, <5>2
      <4>5. nx(v[Len(v)]) = 0
        BY <4>1, <4>3
      <4> QED BY <4>1, <4>3, <4>4, <4>5
    <3> QED BY <3>1, <3>2
  <2>4. ASSUME NEW a \in 1..UNITS, a > UNITS - (n + 1)
        PROVE  Ok(c[a], a)
    <3> HIDE DEF Ok, v
    <3>1. CASE a = m
      BY <2>2, <2>3, <3>1
    <3>2. CASE a # m
      <4>1. a > UNITS - n
        BY <2>4, <3>2, <1>0
      <4> QED BY <1>5, <4>1
    <3> QED BY <3>1, <3>2
  <2> HIDE DEF Ok, v
  <2> QED BY <2>4, <1>0
<1>6. UNITS \in S
  <2> HIDE DEF S
  <2>1. \A i \in 0..UNITS : i \in S
    BY <1>0, <1>4, <1>5, UpTo
  <2> QED BY <1>0, <2>1
<1>7. Ok(c[first], first)
  <2> HIDE DEF Ok
  <2> QED BY <1>0, <1>6 DEF Addr
<1> QED
  BY <1>1, <1>7 DEF IsChain, nx, NULL

(* Nodes ascend, and what follows a node is the node its link leads to.    *)
LEMMA ChainOrder ==
  ASSUME NEW h, Ascends(h), NEW first, NEW s, IsChain(s, h, first)
  PROVE  /\ \A i \in 1..(Len(s) - 1) : s[i] < s[i + 1]
         /\ \A i, j \in 1..Len(s) : i < j => s[i] < s[j]
         /\ \A i \in 1..Len(s) : h[s[i]].next # NULL <=> i < Len(s)
<1>0. /\ UNITS \in Nat /\ s \in Seq(1..UNITS) /\ Len(s) \in Nat
      /\ \A i \in 1..Len(s) : s[i] \in 1..UNITS
      /\ \A i \in 1..(Len(s) - 1) : s[i + 1] = h[s[i]].next
      /\ h[s[Len(s)]].next = 0
  BY DEF IsChain, Addr, NULL
<1>1. \A i \in 1..(Len(s) - 1) : s[i] < s[i + 1] /\ s[i + 1] # 0
  <2>1. \A a \in 1..UNITS : h[a].next = 0 \/ a < h[a].next
    BY DEF Ascends, Addr, NULL
  <2>2. ASSUME NEW i \in 1..(Len(s) - 1)
        PROVE  s[i] < s[i + 1] /\ s[i + 1] # 0
    <3>1. s[i] \in 1..UNITS /\ s[i + 1] \in 1..UNITS
      BY <1>0
    <3> QED BY <1>0, <2>1, <3>1
  <2> QED BY <2>2
<1>c. \A i \in 1..Len(s) : s[i] \in Int
  BY <1>0
<1>n. Len(s) \in Nat
  BY <1>0
<1>2. ASSUME NEW i \in 1..Len(s)
      PROVE  \A j \in 1..Len(s) : i < j => s[i] < s[j]
  <2> DEFINE S == {k \in 0..Len(s) : i + k + 1 <= Len(s) => s[i] < s[i + k + 1]}
  <2>1. 0 \in S
    BY <1>0, <1>1
  <2>2. ASSUME NEW k \in 0..(Len(s) - 1), k \in S
        PROVE  k + 1 \in S
    <3>1. CASE i + (k + 1) + 1 <= Len(s)
      <4> DEFINE p == i + k + 1
                 q == i + (k + 1) + 1
      <4>1. p \in 1..(Len(s) - 1) /\ p \in 1..Len(s) /\ p + 1 = q /\ q \in 1..Len(s)
        BY <3>1, <1>n
      <4>2. s[i] < s[p]
        BY <2>2, <4>1, <1>0
      <4> HIDE DEF p, q
      <4>3. s[p] < s[q]
        BY <1>1, <4>1
      <4>4. s[i] \in Int /\ s[p] \in Int /\ s[q] \in Int
        BY <1>c, <4>1
      <4>5. s[i] < s[q]
        BY <4>2, <4>3, <4>4
      <4> QED BY <4>5, <1>n DEF q
    <3>2. CASE ~(i + (k + 1) + 1 <= Len(s))
      BY <3>2, <1>n
    <3> QED BY <3>1, <3>2
  <2> HIDE DEF S
  <2>3. \A k \in 0..Len(s) : k \in S
    BY <1>0, <2>1, <2>2, UpTo
  <2>4. ASSUME NEW j \in 1..Len(s), i < j
        PROVE  s[i] < s[j]
    <3>1. j - i - 1 \in 0..Len(s) /\ i + (j - i - 1) + 1 = j
      BY <2>4, <1>n
    <3>2. j - i - 1 \in S
      BY <2>3, <3>1
    <3> QED BY <3>1, <3>2 DEF S
  <2> QED BY <2>4
<1>3. ASSUME NEW i \in 1..Len(s)
      PROVE  h[s[i]].next # NULL <=> i < Len(s)
  <2>1. CASE i < Len(s)
    BY <1>0, <1>1, <2>1 DEF NULL
  <2>2. CASE i = Len(s)
    BY <1>0, <2>2 DEF NULL
  <2> QED BY <2>1, <2>2
<1> QED
  BY <1>1, <1>2, <1>3

(* The nodes of a walk, as a set.                                          *)
LEMMA ListIs ==
  ASSUME NEW h, Ascends(h), NEW first \in Addr
  PROVE  IsList(Range(Chain(h, first)), h, first)
<1> DEFINE s == Chain(h, first)
<1>1. IsChain(s, h, first)
  BY ChainIs
<1> HIDE DEF s
<1>2. /\ \A i \in 1..(Len(s) - 1) : s[i] < s[i + 1]
      /\ \A i, j \in 1..Len(s) : i < j => s[i] < s[j]
      /\ \A i \in 1..Len(s) : h[s[i]].next # NULL <=> i < Len(s)
  BY <1>1, ChainOrder
<1>3. /\ s \in Seq(Addr) /\ Len(s) \in Nat /\ Len(s) >= 1 /\ s[1] = first
      /\ \A i \in 1..(Len(s) - 1) : s[i + 1] = h[s[i]].next
  BY <1>1 DEF IsChain
<1>4. /\ Range(s) = {s[i] : i \in 1..Len(s)}
      /\ \A i \in 1..Len(s) : s[i] \in Addr
  BY <1>3, RangeEquality
<1>5. \A i \in 1..Len(s) : s[i] \in Int
  BY <1>4 DEF Addr
<1>6. \A i, j \in 1..Len(s) : i <= j => s[i] <= s[j]
  BY <1>2, <1>5
<1>7. Range(s) \subseteq Addr /\ first \in Range(s)
  BY <1>3, <1>4
<1>8. ASSUME NEW i \in 1..Len(s)
      PROVE  /\ first <= s[i]
             /\ h[s[i]].next = NULL => \A c \in Range(s) : c <= s[i]
             /\ h[s[i]].next # NULL =>
                  /\ h[s[i]].next \in Range(s) /\ s[i] < h[s[i]].next
                  /\ \A c \in Range(s) : c <= s[i] \/ h[s[i]].next <= c
  <2>1. first <= s[i]
    BY <1>3, <1>6
  <2>2. CASE h[s[i]].next = NULL
    <3>1. i = Len(s)
      BY <1>2, <2>2
    <3>2. \A j \in 1..Len(s) : s[j] <= s[i]
      BY <1>6, <3>1
    <3> QED BY <1>4, <2>1, <2>2, <3>2
  <2>3. CASE h[s[i]].next # NULL
    <3>1. i \in 1..(Len(s) - 1)
      BY <1>2, <1>3, <2>3
    <3>2. h[s[i]].next = s[i + 1] /\ i + 1 \in 1..Len(s)
      BY <1>3, <3>1
    <3>3. \A j \in 1..Len(s) : s[j] <= s[i] \/ s[i + 1] <= s[j]
      <4>1. ASSUME NEW j \in 1..Len(s)
            PROVE  s[j] <= s[i] \/ s[i + 1] <= s[j]
        <5>1. j <= i \/ i + 1 <= j
          OBVIOUS
        <5> QED BY <1>6, <3>2, <5>1
      <4> QED BY <4>1
    <3>4. \A c \in Range(s) : c <= s[i] \/ s[i + 1] <= c
      BY <1>4, <3>3
    <3>5. s[i + 1] \in Range(s) /\ s[i] < s[i + 1]
      BY <1>2, <1>4, <3>1, <3>2
    <3> QED BY <2>1, <2>3, <3>2, <3>4, <3>5
  <2> QED BY <2>2, <2>3
<1>9. IsList(Range(s), h, first)
  <2>1. \A a \in Range(s) :
          /\ first <= a
          /\ h[a].next = NULL => \A c \in Range(s) : c <= a
          /\ h[a].next # NULL =>
               /\ h[a].next \in Range(s) /\ a < h[a].next
               /\ \A c \in Range(s) : c <= a \/ h[a].next <= c
    BY <1>4, <1>8
  <2> QED BY <1>7, <2>1 DEF IsList
<1> QED
  BY <1>9 DEF s

(* A set of nodes that links up as a list is the set of nodes of the walk. *)
LEMMA ListUnique ==
  ASSUME NEW h, NEW first \in Addr, Ascends(h), NEW M, IsList(M, h, first)
  PROVE  Range(Chain(h, first)) = M
<1> DEFINE N == Range(Chain(h, first))
<1>1. IsList(N, h, first)
  BY ListIs
<1> HIDE DEF N
<1>0. UNITS \in Nat /\ M \subseteq 1..UNITS /\ N \subseteq 1..UNITS
  BY <1>1 DEF IsList, Addr
<1> DEFINE S == {n \in 0..UNITS : \A a \in 1..UNITS : a <= n => (a \in M <=> a \in N)}
<1>2. 0 \in S
  BY <1>0
<1>3. ASSUME NEW n \in 0..(UNITS - 1), n \in S
      PROVE  n + 1 \in S
  <2>1. ASSUME NEW P \in SUBSET (1..UNITS), NEW Q \in SUBSET (1..UNITS),
               IsList(P, h, first), IsList(Q, h, first),
               \A a \in 1..UNITS : a <= n => (a \in P <=> a \in Q),
               n + 1 \in P
        PROVE  n + 1 \in Q
    <3>1. CASE n + 1 = first
      BY <2>1, <3>1 DEF IsList
    <3>2. CASE n + 1 # first
      <4> DEFINE L == {k \in 0..UNITS : \E a \in P : a <= n /\ a = UNITS - k}
      <4>1. first \in P /\ first \in 1..UNITS /\ first < n + 1
        BY <2>1, <3>2 DEF IsList
      <4>2. UNITS - first \in L
        BY <4>1, <1>0
      <4>3. L \in SUBSET Nat /\ L # {}
        BY <4>2
      <4>4. Min(L) \in L /\ \A y \in L : Min(L) <= y
        BY <4>3, MinOfNat
      <4> DEFINE k == Min(L)
      <4> HIDE DEF k
      <4>5. k \in L /\ \A y \in L : k <= y
        BY <4>4 DEF k
      <4>6. PICK a \in P : a <= n /\ a = UNITS - k
        BY <4>5
      <4>7. a \in 1..UNITS /\ \A e \in P : e <= n => e <= a
        <5>1. ASSUME NEW e \in P, e <= n
              PROVE  e <= a
          <6>1. e \in 1..UNITS
            BY <2>1
          <6>2. UNITS - e \in L
            BY <6>1, <5>1, <1>0
          <6>3. k <= UNITS - e
            BY <4>5, <6>2
          <6> QED BY <4>6, <4>5, <6>1, <6>3, <1>0
        <5> QED BY <2>1, <5>1
      <4>8. h[a].next = n + 1
        <5> DEFINE x == h[a].next
        <5>1. x # NULL
          <6>1. x = NULL => n + 1 <= a
            BY <2>1, <4>6 DEF IsList
          <6> QED BY <6>1, <4>6, <4>7
        <5>2. x \in P /\ a < x /\ (n + 1 <= a \/ x <= n + 1)
          BY <2>1, <4>6, <5>1 DEF IsList
        <5>3. x \in 1..UNITS /\ (x <= n => x <= a)
          BY <2>1, <4>7, <5>2
        <5> HIDE DEF x
        <5>4. x = n + 1
          BY <4>6, <4>7, <5>2, <5>3
        <5> QED BY <5>4 DEF x
      <4>9. a \in Q
        BY <2>1, <4>6, <4>7
      <4>10. n + 1 # NULL
        BY DEF NULL
      <4> QED BY <2>1, <4>8, <4>9, <4>10 DEF IsList
    <3> QED BY <3>1, <3>2
  <2>2. \A a \in 1..UNITS : a <= n => (a \in M <=> a \in N)
    BY <1>3
  <2>3. n + 1 \in M <=> n + 1 \in N
    BY <1>0, <1>1, <2>1, <2>2
  <2>4. ASSUME NEW a \in 1..UNITS, a <= n + 1
        PROVE  a \in M <=> a \in N
    <3>1. a <= n \/ a = n + 1
      BY <2>4
    <3> QED BY <2>2, <2>3, <3>1
  <2> QED BY <2>4, <1>0
<1>4. UNITS \in S
  <2> HIDE DEF S
  <2>1. \A i \in 0..UNITS : i \in S
    BY <1>0, <1>2, <1>3, UpTo
  <2> QED BY <1>0, <2>1
<1>5. \A a \in 1..UNITS : a \in M <=> a \in N
  <2>1. \A a \in 1..UNITS : a <= UNITS => (a \in M <=> a \in N)
    BY <1>4
  <2> QED BY <1>0, <2>1
<1>6. N = M
  BY <1>0, <1>5
<1> QED
  BY <1>6 DEF N

-----------------------------------------------------------------------------
(* Headers                                                                 *)

(* The headers that are kept are those of the list and the sizes of the    *)
(* blocks handed out.                                                      *)
LEMMA RelevantIs ==
  ASSUME NEW h \in Headers, Ascends(h), NEW first \in Addr,
         NEW M, IsList(M, h, first), NEW blocks, blocks \subseteq Block,
         NEW r, r = Relevant(h, first, blocks)
  PROVE  /\ r \in Headers /\ Ascends(r)
         /\ \A a \in M : r[a] = h[a]
         /\ \A b \in blocks : r[b.addr].size = h[b.addr].size
         /\ Range(Chain(r, first)) = M
<1>1. Range(Chain(h, first)) = M
  BY ListUnique
<1> DEFINE A == {b.addr : b \in blocks}
<1>2. r = [a \in Addr |-> IF a \in M THEN h[a]
                          ELSE IF a \in A THEN [h[a] EXCEPT !.next = NULL]
                          ELSE Unused]
  BY <1>1 DEF Relevant
<1>3. M \subseteq Addr
  BY DEF IsList
<1>4. \A b \in blocks : b.addr \in Addr /\ b.addr \in A
  BY DEF Block
<1> HIDE DEF A
<1>5. \A a \in Addr : h[a] \in [size : 0..UNITS, next : Places]
  BY DEF Headers
<1>6. NULL \in Places /\ 0 \in 0..UNITS
  BY DEF Places
<1> DEFINE T == [size : 0..UNITS, next : Places]
<1>7. ASSUME NEW a \in Addr
      PROVE  /\ r[a] \in T
             /\ a \in M => r[a] = h[a]
             /\ a \notin M => r[a].next = NULL
             /\ a \in A => r[a].size = h[a].size
  <2> DEFINE c == [h[a] EXCEPT !.next = NULL]
  <2>1. c \in T /\ c.next = NULL /\ c.size = h[a].size
    BY <1>5, <1>6
  <2>2. Unused \in T /\ Unused.next = NULL
    BY <1>6 DEF Unused
  <2>3. h[a] \in T
    BY <1>5
  <2>4. r[a] = IF a \in M THEN h[a] ELSE IF a \in A THEN c ELSE Unused
    BY <1>2
  <2> HIDE DEF c, T
  <2> QED BY <2>1, <2>2, <2>3, <2>4
<1>8. r \in Headers
  <2>1. \A a \in Addr : r[a] \in T
    BY <1>7
  <2> HIDE DEF T
  <2>2. r \in [Addr -> T]
    BY <1>2, <2>1
  <2> QED BY <2>2 DEF T, Headers
<1>9. Ascends(r)
  <2>1. ASSUME NEW a \in Addr
        PROVE  r[a].next \in Places /\ (r[a].next = NULL \/ a < r[a].next)
    BY <1>6, <1>7 DEF Ascends
  <2> QED BY <2>1 DEF Ascends
<1>10. \A a \in M : r[a] = h[a]
  BY <1>3, <1>7
<1>11. \A b \in blocks : r[b.addr].size = h[b.addr].size
  BY <1>4, <1>7
<1>12. IsList(M, r, first)
  BY <1>10 DEF IsList
<1>13. Range(Chain(r, first)) = M
  BY <1>9, <1>12, ListUnique
<1> QED
  BY <1>8, <1>9, <1>10, <1>11, <1>13

(* So the next state has the list that the new headers link up, with its   *)
(* sizes, and what is sound or covered stays so.                           *)
LEMMA NextHeap ==
  ASSUME NEW h, NEW M, NEW first, NEW blocks, Good(h, M, first, blocks),
         hdr' = Relevant(h, first, blocks), freelist' = first, live' = blocks
  PROVE  /\ Nodes' = M
         /\ Good(hdr, Nodes, freelist, live)'
         /\ \A a \in M : hdr'[a] = h[a]
         /\ Sound(h, M, blocks) => Sound(hdr, Nodes, live)'
         /\ Covers(hdr, Nodes, live)' = Covers(h, M, blocks)
<1> DEFINE r == hdr'
<1>1. /\ r \in Headers /\ Ascends(r)
      /\ \A a \in M : r[a] = h[a]
      /\ \A b \in blocks : r[b.addr].size = h[b.addr].size
      /\ Range(Chain(r, first)) = M
  BY RelevantIs DEF Good
<1>2. Nodes' = M
  BY <1>1 DEF Nodes, FreeChain
<1>3. IsList(M, r, first)
  BY <1>1 DEF Good, IsList
<1>4. InHeap(r, M)
  BY <1>1 DEF Good, InHeap
<1>5. Good(r, M, first, blocks)
  BY <1>1, <1>3, <1>4 DEF Good
<1>6. Sound(h, M, blocks) => Sound(r, M, blocks)
  BY <1>1 DEF Sound
<1>7. Covers(r, M, blocks) = Covers(h, M, blocks)
  BY <1>1 DEF Covers
<1> QED
  BY <1>1, <1>2, <1>5, <1>6, <1>7

(* Writing one field of one header, or all of it.                          *)
SetSize(q, h, a, v) == q = [h EXCEPT ![a].size = v]
SetNext(q, h, a, v) == q = [h EXCEPT ![a].next = v]
SetHeader(q, h, a, v, w) == q = [h EXCEPT ![a] = [size |-> v, next |-> w]]

LEMMA WriteSize ==
  ASSUME NEW h \in Headers, NEW a \in Addr, NEW v \in 0..UNITS,
         NEW q, SetSize(q, h, a, v)
  PROVE  /\ q \in Headers /\ q[a].size = v /\ q[a].next = h[a].next
         /\ \A c \in Addr : c # a => q[c] = h[c]
BY DEF Headers, SetSize

LEMMA WriteNext ==
  ASSUME NEW h \in Headers, NEW a \in Addr, NEW v \in Places,
         NEW q, SetNext(q, h, a, v)
  PROVE  /\ q \in Headers /\ q[a].next = v /\ q[a].size = h[a].size
         /\ \A c \in Addr : c # a => q[c] = h[c]
BY DEF Headers, SetNext

LEMMA WriteHeader ==
  ASSUME NEW h \in Headers, NEW a \in Addr, NEW v \in 0..UNITS, NEW w \in Places,
         NEW q, SetHeader(q, h, a, v, w)
  PROVE  /\ q \in Headers /\ q[a].size = v /\ q[a].next = w
         /\ \A c \in Addr : c # a => q[c] = h[c]
BY DEF Headers, SetHeader

(* What Good and Sound say, unit by unit.                                  *)
LEMMA Numbers ==
  ASSUME NEW h, NEW N, NEW first, NEW blocks, Good(h, N, first, blocks)
  PROVE  /\ UNITS \in Nat /\ first \in N
         /\ \A a \in Addr : a \in 1..UNITS /\ h[a].size \in 0..UNITS
                            /\ h[a].next \in 0..UNITS
                            /\ (h[a].next = 0 \/ a < h[a].next)
         /\ \A a \in N : /\ a \in Addr /\ a \in 1..UNITS
                         /\ h[a].size \in 1..UNITS
                         /\ h[a].next \in 0..UNITS
                         /\ a + h[a].size <= UNITS + 1
                         /\ first <= a
                         /\ h[a].next # 0 => h[a].next \in N /\ a < h[a].next
         /\ \A b \in blocks : /\ b.addr \in Addr /\ b.addr \in 1..UNITS
                              /\ b.size \in 1..UNITS
<1>1. UNITS \in Nat /\ Addr = 1..UNITS /\ Places = 0..UNITS
  BY DEF Addr, Places, NULL
<1>2. \A a \in Addr : h[a].size \in 0..UNITS /\ h[a].next \in Places
                      /\ (h[a].next = 0 \/ a < h[a].next)
  BY DEF Good, Headers, Ascends, NULL
<1>3. first \in N /\ N \subseteq Addr
  BY DEF Good, IsList
<1>4. \A a \in N : first <= a /\ (h[a].next # 0 => h[a].next \in N /\ a < h[a].next)
  BY DEF Good, IsList, NULL
<1>5. \A a \in N : h[a].size >= 1 /\ a + h[a].size <= UNITS + 1
  BY DEF Good, InHeap
<1>6. \A b \in blocks : b.addr \in Addr /\ b.size \in Addr
  BY DEF Good, Block
<1>7. \A a \in N : h[a].size \in 1..UNITS
  BY <1>1, <1>2, <1>3, <1>5
<1> QED
  BY <1>1, <1>2, <1>3, <1>4, <1>5, <1>6, <1>7

-----------------------------------------------------------------------------
(* do_malloc                                                               *)

(* The nodes from prev on are a list of their own.                         *)
From(N, prev) == {a \in N : prev <= a}

LEMMA ListFrom ==
  ASSUME NEW h, NEW N, NEW first, IsList(N, h, first), NEW prev \in N
  PROVE  IsList(From(N, prev), h, prev)
<1> DEFINE M == From(N, prev)
<1>1. N \subseteq 1..UNITS /\ UNITS \in Nat
  BY DEF IsList, Addr
<1>a. \A a : a \in M <=> a \in N /\ prev <= a
  BY DEF From
<1> HIDE DEF M
<1>2. prev \in M /\ M \subseteq Addr
  <2>1. prev \in 1..UNITS /\ prev <= prev
    BY <1>1
  <2> QED BY <1>a, <2>1 DEF IsList
<1>3. ASSUME NEW a \in M
      PROVE  /\ prev <= a
             /\ h[a].next = NULL => \A c \in M : c <= a
             /\ h[a].next # NULL =>
                  /\ h[a].next \in M /\ a < h[a].next
                  /\ \A c \in M : c <= a \/ h[a].next <= c
  <2>1. a \in N /\ a \in 1..UNITS /\ prev \in 1..UNITS /\ prev <= a
    BY <1>1, <1>a
  <2>2. h[a].next = NULL => \A c \in M : c <= a
    BY <1>a, <2>1 DEF IsList
  <2>3. ASSUME h[a].next # NULL
        PROVE  /\ h[a].next \in N /\ a < h[a].next
               /\ \A c \in N : c <= a \/ h[a].next <= c
    BY <2>1, <2>3 DEF IsList
  <2>4. ASSUME h[a].next # NULL
        PROVE  h[a].next \in M
    <3>1. h[a].next \in 1..UNITS /\ a < h[a].next
      BY <1>1, <2>3, <2>4
    <3> QED BY <1>a, <2>1, <2>3, <2>4, <3>1
  <2> QED BY <1>a, <2>1, <2>2, <2>3, <2>4
<1>4. IsList(M, h, prev)
  BY <1>2, <1>3 DEF IsList
<1> QED
  BY <1>4 DEF M

(* A node in the middle of the list is taken out.                          *)
LEMMA TakeOut ==
  ASSUME NEW h, NEW N, NEW first, IsList(N, h, first),
         NEW prev \in N, NEW cur \in N, h[prev].next = cur,
         NEW h1, h1[prev].next = h[cur].next,
         \A a \in N : a # prev => h1[a].next = h[a].next
  PROVE  IsList(N \ {cur}, h1, first)
<1> DEFINE M == N \ {cur}
<1>1. N \subseteq 1..UNITS /\ UNITS \in Nat /\ 0 \notin N
  BY DEF IsList, Addr
<1>2. cur # 0 /\ prev \in 1..UNITS /\ cur \in 1..UNITS /\ prev < cur /\ first <= prev
      /\ \A c \in N : c <= prev \/ cur <= c
  BY <1>1 DEF IsList, NULL
<1>3. first \in M /\ M \subseteq Addr /\ prev \in M /\ first \in 1..UNITS
  BY <1>1, <1>2 DEF IsList
<1>4. ASSUME NEW a \in M
      PROVE  /\ first <= a
             /\ h1[a].next = NULL => \A c \in M : c <= a
             /\ h1[a].next # NULL =>
                  /\ h1[a].next \in M /\ a < h1[a].next
                  /\ \A c \in M : c <= a \/ h1[a].next <= c
  <2>1. a \in N /\ a \in 1..UNITS /\ a # cur /\ first <= a
    BY <1>1 DEF IsList
  <2>2. CASE a = prev
    <3>1. h1[a].next = h[cur].next
      BY <2>2
    <3>2. ASSUME h[cur].next = NULL, NEW c \in M
          PROVE  c <= a
      <4>1. c \in 1..UNITS /\ c <= cur /\ c # cur /\ c \in N
        BY <1>1, <3>2 DEF IsList
      <4> QED BY <1>2, <4>1, <2>2
    <3>3. ASSUME h[cur].next # NULL
          PROVE  /\ h[cur].next \in M /\ a < h[cur].next
                 /\ \A c \in M : c <= a \/ h[cur].next <= c
      <4>1. /\ h[cur].next \in N /\ cur < h[cur].next
            /\ \A c \in N : c <= cur \/ h[cur].next <= c
        BY <3>3 DEF IsList
      <4>2. h[cur].next \in 1..UNITS
        BY <1>1, <4>1
      <4>3. ASSUME NEW c \in M
            PROVE  c <= a \/ h[cur].next <= c
        <5>1. c \in N /\ c # cur /\ c \in 1..UNITS
          BY <1>1
        <5> QED BY <1>2, <2>2, <4>1, <4>2, <5>1
      <4> QED BY <1>2, <2>2, <4>1, <4>2, <4>3
    <3> QED BY <2>1, <3>1, <3>2, <3>3
  <2>3. CASE a # prev
    <3>1. h1[a].next = h[a].next
      BY <2>1, <2>3
    <3>2. ASSUME h[a].next = cur
          PROVE  FALSE
      <4>1. a < cur /\ (prev <= a \/ cur <= prev)
        BY <1>1, <1>2, <2>1, <3>2 DEF IsList, NULL
      <4> QED BY <1>2, <2>1, <2>3, <4>1
    <3> QED BY <2>1, <3>1, <3>2 DEF IsList
  <2> QED BY <2>2, <2>3
<1> HIDE DEF M
<1>5. IsList(M, h1, first)
  BY <1>3, <1>4 DEF IsList
<1> QED
  BY <1>5 DEF M

With(blocks, a, n) == blocks \cup {[addr |-> a, size |-> n]}

(* A larger block gives its last units away.                               *)
Cut(h1, h, cur, x, n) ==
  /\ h1 \in Headers /\ x + n = cur + h[cur].size
  /\ \A a \in Addr : h1[a].next = h[a].next
  /\ h1[cur].size = h[cur].size - n /\ h1[x].size = n
  /\ \A a \in Addr : a # cur /\ a # x => h1[a].size = h[a].size

LEMMA CutKeeps ==
  ASSUME NEW h, NEW N, NEW first, NEW blocks, Good(h, N, first, blocks),
         Sound(h, N, blocks), NEW cur \in N, NEW prev \in N, prev <= cur,
         NEW n \in 1..UNITS, NEW x \in Addr, cur < x,
         NEW h1, Cut(h1, h, cur, x, n)
  PROVE  LET M == From(N, prev)
             B == With(blocks, x, n)
         IN  /\ Good(h1, M, prev, B) /\ Sound(h1, M, B)
             /\ Covers(h1, M, B) \subseteq Covers(h, N, blocks)
             /\ prev = first => Covers(h, N, blocks) \subseteq Covers(h1, M, B)
<1> DEFINE sz(a) == h[a].size
           nx(a) == h[a].next
           s1(a) == h1[a].size
           M == From(N, prev)
           B == With(blocks, x, n)
<1>1. /\ UNITS \in Nat /\ first \in N /\ n \in 1..UNITS
      /\ \A a \in Addr : a \in 1..UNITS /\ sz(a) \in 0..UNITS
      /\ \A a \in N : /\ a \in Addr /\ a \in 1..UNITS /\ sz(a) \in 1..UNITS
                      /\ a + sz(a) <= UNITS + 1 /\ first <= a
      /\ \A b \in blocks : /\ b.addr \in Addr /\ b.addr \in 1..UNITS
                           /\ b.size \in 1..UNITS
  BY Numbers
<1>2. x \in 1..UNITS /\ cur < x /\ x \in Addr /\ x + n = cur + sz(cur)
  BY <1>1 DEF Cut
<1>3. x \notin N
  <2>1. x \in N => cur + sz(cur) <= x
    BY <1>2 DEF Sound
  <2> QED BY <1>1, <1>2, <2>1
<1>4. \A b \in blocks : b.addr # x /\ b.addr # cur
  <2>1. \A b \in blocks : cur + sz(cur) <= b.addr \/ b.addr + b.size <= cur
    BY DEF Sound, Apart
  <2> QED BY <1>1, <1>2, <2>1
<1>5. /\ h1 \in Headers
      /\ s1(cur) = sz(cur) - n /\ s1(x) = n
      /\ \A a \in Addr : a # cur /\ a # x => s1(a) = sz(a)
      /\ \A a \in Addr : h1[a].next = nx(a)
  BY DEF Cut
<1>6. \A a \in N : /\ a # cur => s1(a) = sz(a)
                   /\ s1(a) \in 1..UNITS /\ s1(a) <= sz(a)
  <2>1. \A a \in N : a # cur => s1(a) = sz(a)
    BY <1>1, <1>3, <1>5
  <2>2. s1(cur) \in 1..UNITS /\ s1(cur) <= sz(cur)
    BY <1>1, <1>2, <1>5
  <2> QED BY <1>1, <2>1, <2>2
<1>a. cur + s1(cur) = x
  BY <1>1, <1>2, <1>5
<1>7. IsList(M, h1, prev)
  <2>1. IsList(M, h, prev)
    BY ListFrom DEF Good
  <2>2. \A a \in M : h1[a].next = h[a].next
    BY <1>1, <1>5 DEF From
  <2> QED BY <2>1, <2>2 DEF IsList
<1>8. Ascends(h1)
  BY <1>5 DEF Good, Ascends
<1>9. \A a : a \in M <=> a \in N /\ prev <= a
  BY DEF From
<1> DEFINE new == [addr |-> x, size |-> n]
<1>10. new.addr = x /\ new.size = n /\ new \in Block
  BY <1>1, <1>2 DEF Block, Addr
<1>11. \A b : b \in B <=> b \in blocks \/ b = new
  BY DEF With
<1> HIDE DEF new, M, B
<1>12. Good(h1, M, prev, B)
  <2>1. InHeap(h1, M)
    BY <1>1, <1>2, <1>6, <1>9 DEF InHeap
  <2>2. B \subseteq Block
    BY <1>10, <1>11 DEF Good
  <2> QED BY <1>1, <1>5, <1>7, <1>8, <2>1, <2>2 DEF Good
<1>13. Sound(h1, M, B)
  <2>1. \A a, c \in M : a < c => a + h1[a].size <= c
    <3>1. \A a, c \in N : a < c => a + sz(a) <= c
      BY DEF Sound
    <3> QED BY <1>1, <1>6, <1>9, <3>1
  <2>2. \A b \in B : h1[b.addr].size = b.size /\ b.addr + b.size <= UNITS + 1
    <3>1. \A b \in blocks : h[b.addr].size = b.size /\ b.addr + b.size <= UNITS + 1
      BY DEF Sound
    <3>2. \A b \in blocks : h1[b.addr].size = b.size
      BY <1>1, <1>4, <1>5, <3>1
    <3> QED BY <1>1, <1>2, <1>5, <1>10, <1>11, <3>1, <3>2
  <2>3. ASSUME NEW a \in M, NEW b \in B
        PROVE  Apart(a, h1[a].size, b.addr, b.size)
    <3>1. CASE b \in blocks
      <4>1. a + sz(a) <= b.addr \/ b.addr + b.size <= a
        BY <1>9, <3>1 DEF Sound, Apart
      <4>2. a + h1[a].size <= b.addr \/ b.addr + b.size <= a
        BY <1>1, <1>2, <1>6, <1>9, <3>1, <4>1
      <4> QED BY <4>2 DEF Apart
    <3>2. CASE b = new
      <4>1. a < cur => a + sz(a) <= cur
        BY <1>9 DEF Sound
      <4>2. cur < a => cur + sz(cur) <= a
        BY <1>9 DEF Sound
      <4>3. a + h1[a].size <= x \/ x + n <= a
        BY <1>1, <1>2, <1>a, <1>6, <1>9, <4>1, <4>2
      <4> QED BY <4>3, <3>2, <1>10 DEF Apart
    <3> QED BY <1>11, <3>1, <3>2
  <2>4. ASSUME NEW b \in B, NEW c \in B, b # c
        PROVE  Apart(b.addr, b.size, c.addr, c.size)
    <3>1. CASE b \in blocks /\ c \in blocks
      BY <2>4, <3>1 DEF Sound
    <3>2. \A e \in blocks : cur + sz(cur) <= e.addr \/ e.addr + e.size <= cur
      BY DEF Sound, Apart
    <3>3. \A e \in blocks : x + n <= e.addr \/ e.addr + e.size <= x
      BY <1>1, <1>2, <3>2
    <3>4. CASE b = new /\ c \in blocks
      BY <3>3, <3>4, <1>10 DEF Apart
    <3>5. CASE b \in blocks /\ c = new
      BY <3>3, <3>5, <1>10 DEF Apart
    <3> QED BY <1>11, <2>4, <3>1, <3>4, <3>5
  <2> QED BY <2>1, <2>2, <2>3, <2>4 DEF Sound
<1>14. ASSUME NEW u \in Covers(h1, M, B)
       PROVE  u \in Covers(h, N, blocks)
  <2>0. u \in Addr /\ u \in 1..UNITS
    BY <1>1 DEF Covers
  <2>1. CASE \E a \in M : a <= u /\ u < a + h1[a].size
    <3>1. PICK a \in M : a <= u /\ u < a + h1[a].size
      BY <2>1
    <3>2. a \in N /\ a <= u /\ u < a + sz(a)
      BY <1>1, <1>2, <1>6, <1>9, <2>0, <3>1
    <3> QED BY <2>0, <3>2 DEF Covers
  <2>2. CASE \E b \in blocks : b.addr <= u /\ u < b.addr + b.size
    BY <2>0, <2>2 DEF Covers
  <2>3. CASE new.addr <= u /\ u < new.addr + new.size
    <3>1. cur <= u /\ u < cur + sz(cur)
      BY <1>1, <1>2, <1>10, <2>0, <2>3
    <3> QED BY <2>0, <3>1 DEF Covers
  <2> QED BY <1>11, <1>14, <2>1, <2>2, <2>3 DEF Covers
<1>15. ASSUME prev = first, NEW u \in Covers(h, N, blocks)
       PROVE  u \in Covers(h1, M, B)
  <2>0. u \in Addr /\ u \in 1..UNITS /\ M = N /\ new \in B /\ blocks \subseteq B
    BY <1>1, <1>9, <1>11, <1>15 DEF Covers
  <2>1. CASE \E a \in N : a <= u /\ u < a + sz(a)
    <3>1. PICK a \in N : a <= u /\ u < a + sz(a)
      BY <2>1
    <3>2. CASE u < a + h1[a].size
      BY <2>0, <3>1, <3>2 DEF Covers
    <3>3. CASE ~(u < a + h1[a].size)
      <4>1. x <= u /\ u < x + n
        BY <1>1, <1>2, <1>a, <1>6, <2>0, <3>1, <3>3
      <4> QED BY <4>1, <1>10, <2>0 DEF Covers
    <3> QED BY <3>2, <3>3
  <2>2. CASE \E b \in blocks : b.addr <= u /\ u < b.addr + b.size
    BY <2>0, <2>2 DEF Covers
  <2> QED BY <1>15, <2>1, <2>2 DEF Covers
<1> QED
  BY <1>12, <1>13, <1>14, <1>15 DEF M, B

(* A block of the right size that has a predecessor leaves the list.       *)
Unlinked(h1, h, prev, cur) ==
  /\ h1 \in Headers /\ h1[prev].next = h[cur].next
  /\ \A a \in Addr : a # prev => h1[a].next = h[a].next
  /\ \A a \in Addr : h1[a].size = h[a].size

LEMMA TakeKeeps ==
  ASSUME NEW h, NEW N, NEW first, NEW blocks, Good(h, N, first, blocks),
         Sound(h, N, blocks), NEW cur \in N, NEW prev \in N, h[prev].next = cur,
         NEW h1, Unlinked(h1, h, prev, cur)
  PROVE  LET M == From(N, prev) \ {cur}
             B == With(blocks, cur, h[cur].size)
         IN  /\ Good(h1, M, prev, B) /\ Sound(h1, M, B)
             /\ Covers(h1, M, B) \subseteq Covers(h, N, blocks)
             /\ prev = first => Covers(h, N, blocks) \subseteq Covers(h1, M, B)
<1> DEFINE sz(a) == h[a].size
           n == h[cur].size
           M == From(N, prev) \ {cur}
           B == With(blocks, cur, n)
           new == [addr |-> cur, size |-> n]
<1>1. /\ UNITS \in Nat /\ first \in N
      /\ \A a \in Addr : a \in 1..UNITS /\ sz(a) \in 0..UNITS
                         /\ h[a].next \in 0..UNITS
                         /\ (h[a].next = 0 \/ a < h[a].next)
      /\ \A a \in N : /\ a \in Addr /\ a \in 1..UNITS /\ sz(a) \in 1..UNITS
                      /\ a + sz(a) <= UNITS + 1 /\ first <= a
                      /\ (h[a].next # 0 => a < h[a].next)
      /\ \A b \in blocks : /\ b.addr \in Addr /\ b.addr \in 1..UNITS
                           /\ b.size \in 1..UNITS
  BY Numbers
<1>2. /\ h1 \in Headers /\ h1[prev].next = h[cur].next
      /\ \A a \in Addr : a # prev => h1[a].next = h[a].next
      /\ \A a \in Addr : h1[a].size = sz(a)
  BY DEF Unlinked
<1>3. prev < cur /\ cur \in 1..UNITS /\ prev \in 1..UNITS /\ n \in 1..UNITS
  BY <1>1
<1>4. \A a : a \in M <=> a \in N /\ prev <= a /\ a # cur
  BY DEF From
<1>5. \A b : b \in B <=> b \in blocks \/ b = new
  BY DEF With
<1>6. new.addr = cur /\ new.size = n /\ new \in Block
  BY <1>3 DEF Block, Addr
<1>7. IsList(M, h1, prev)
  <2> DEFINE F == From(N, prev)
  <2>1. IsList(F, h, prev)
    BY ListFrom DEF Good
  <2>2. \A a : a \in F <=> a \in N /\ prev <= a
    BY DEF From
  <2> HIDE DEF F
  <2>3. prev \in F /\ cur \in F
    BY <1>3, <2>2
  <2>4. \A a \in F : a # prev => h1[a].next = h[a].next
    BY <1>1, <1>2, <2>2
  <2>5. IsList(F \ {cur}, h1, prev)
    BY <1>2, <2>1, <2>3, <2>4, TakeOut
  <2> QED BY <2>5 DEF F
<1>8. Ascends(h1)
  <2>1. ASSUME NEW a \in Addr
        PROVE  h1[a].next \in Places /\ (h1[a].next = NULL \/ a < h1[a].next)
    <3>1. CASE a # prev
      BY <1>2, <3>1 DEF Good, Ascends
    <3>2. CASE a = prev
      <4>1. /\ h1[a].next = h[cur].next /\ h[cur].next \in Places
            /\ h[cur].next \in 0..UNITS
            /\ (h[cur].next = 0 \/ cur < h[cur].next)
        BY <1>1, <1>2, <3>2 DEF Good, Ascends
      <4> QED BY <1>3, <3>2, <4>1 DEF NULL
    <3> QED BY <3>1, <3>2
  <2> QED BY <2>1 DEF Ascends
<1> HIDE DEF M, B, new
<1>9. Good(h1, M, prev, B)
  <2>1. InHeap(h1, M)
    BY <1>1, <1>2, <1>4 DEF InHeap
  <2>2. B \subseteq Block
    BY <1>5, <1>6 DEF Good
  <2> QED BY <1>1, <1>2, <1>7, <1>8, <2>1, <2>2 DEF Good
<1>10. Sound(h1, M, B)
  <2>0. /\ \A a, c \in N : a < c => a + sz(a) <= c
        /\ \A b \in blocks : sz(b.addr) = b.size /\ b.addr + b.size <= UNITS + 1
        /\ \A a \in N, b \in blocks : a + sz(a) <= b.addr \/ b.addr + b.size <= a
    BY DEF Sound, Apart
  <2>1. \A a, c \in M : a < c => a + h1[a].size <= c
    BY <1>1, <1>2, <1>4, <2>0
  <2>2. \A b \in B : h1[b.addr].size = b.size /\ b.addr + b.size <= UNITS + 1
    BY <1>1, <1>2, <1>5, <1>6, <2>0
  <2>3. ASSUME NEW a \in M, NEW b \in B
        PROVE  Apart(a, h1[a].size, b.addr, b.size)
    <3>1. a \in N /\ a # cur /\ h1[a].size = sz(a) /\ a \in 1..UNITS
      BY <1>1, <1>2, <1>4
    <3>2. CASE b \in blocks
      BY <2>0, <3>1, <3>2 DEF Apart
    <3>3. CASE b = new
      <4>1. a + sz(a) <= cur \/ cur + n <= a
        BY <1>3, <2>0, <3>1
      <4> QED BY <1>6, <3>1, <3>3, <4>1 DEF Apart
    <3> QED BY <1>5, <3>2, <3>3
  <2>4. ASSUME NEW b \in B, NEW c \in B, b # c
        PROVE  Apart(b.addr, b.size, c.addr, c.size)
    <3>1. CASE b \in blocks /\ c \in blocks
      BY <2>4, <3>1 DEF Sound
    <3>2. CASE b = new /\ c \in blocks
      BY <1>6, <2>0, <3>2 DEF Apart
    <3>3. CASE b \in blocks /\ c = new
      BY <1>6, <2>0, <3>3 DEF Apart
    <3> QED BY <1>5, <2>4, <3>1, <3>2, <3>3
  <2> QED BY <2>1, <2>2, <2>3, <2>4 DEF Sound
<1>11. ASSUME NEW u \in Covers(h1, M, B)
       PROVE  u \in Covers(h, N, blocks)
  <2>1. CASE \E a \in M : a <= u /\ u < a + h1[a].size
    <3>1. PICK a \in M : a <= u /\ u < a + h1[a].size
      BY <2>1
    <3>2. a \in N /\ h1[a].size = h[a].size
      BY <1>1, <1>2, <1>4
    <3> QED BY <1>11, <3>1, <3>2 DEF Covers
  <2>2. CASE \E b \in blocks : b.addr <= u /\ u < b.addr + b.size
    BY <1>11, <2>2 DEF Covers
  <2>3. CASE new.addr <= u /\ u < new.addr + new.size
    BY <1>6, <1>11, <2>3 DEF Covers
  <2> QED BY <1>5, <1>11, <2>1, <2>2, <2>3 DEF Covers
<1>12. ASSUME prev = first, NEW u \in Covers(h, N, blocks)
       PROVE  u \in Covers(h1, M, B)
  <2>1. CASE \E a \in N : a <= u /\ u < a + h[a].size
    <3>1. PICK a \in N : a <= u /\ u < a + h[a].size
      BY <2>1
    <3>2. CASE a = cur
      BY <1>5, <1>6, <1>12, <3>1, <3>2 DEF Covers
    <3>3. CASE a # cur
      <4>1. a \in M /\ h1[a].size = h[a].size
        BY <1>1, <1>2, <1>4, <1>12, <3>3
      <4> QED BY <1>12, <3>1, <4>1 DEF Covers
    <3> QED BY <3>2, <3>3
  <2>2. CASE \E b \in blocks : b.addr <= u /\ u < b.addr + b.size
    BY <1>5, <1>12, <2>2 DEF Covers
  <2> QED BY <1>12, <2>1, <2>2 DEF Covers
<1> QED
  BY <1>9, <1>10, <1>11, <1>12 DEF M, B

(* What do_malloc finds: the first block that is large enough, and the     *)
(* block before it.                                                        *)
Served(n, cur, prev) ==
  /\ hdr[cur].size >= n
  /\ \/ prev = cur /\ cur = freelist
     \/ prev < cur /\ hdr[prev].next = cur
  /\ live' = With(live, cur + hdr[cur].size - n, n)
  /\ hdr' = Relevant(IF hdr[cur].size = n THEN Unlink(prev, cur)
                     ELSE Split(cur, n), prev, live')
  /\ freelist' = prev
  /\ state' = IF hdr[cur].size = n /\ prev = cur
              THEN "exact fit of the first block" ELSE state

LEMMA MallocFinds ==
  ASSUME IInv, NEW size \in Sizes, do_malloc(size)
  PROVE  \/ state' = "end of list" /\ UNCHANGED <<hdr, freelist, live>>
         \/ \E n \in Nat \ {0}, cur \in Nodes, prev \in Nodes : Served(n, cur, prev)
<1> DEFINE n == NumOfStructs(size)
           ch == FreeChain
           fits == {i \in DOMAIN ch : hdr[ch[i]].size >= n}
           i == Min(fits)
           cur == ch[i]
           prev == IF i = 1 THEN cur ELSE ch[i - 1]
<1>1. n \in Nat \ {0}
  <2>1. size \in Nat
    BY Zenon
  <2> QED BY <2>1 DEF NumOfStructs
<1>2. CASE fits = {}
  BY <1>2 DEF do_malloc
<1>3. CASE fits # {}
  <2>1. /\ live' = live \cup {[addr |-> cur + hdr[cur].size - n, size |-> n]}
        /\ hdr' = Relevant(IF hdr[cur].size = n THEN Unlink(prev, cur)
                           ELSE Split(cur, n), prev, live')
        /\ freelist' = prev
        /\ state' = IF hdr[cur].size = n /\ i = 1
                    THEN "exact fit of the first block" ELSE state
    BY <1>3 DEF do_malloc
  <2>2. freelist \in Addr /\ Ascends(hdr)
    BY DEF IInv, TypeOK
  <2>3. IsChain(ch, hdr, freelist)
    BY <2>2, ChainIs DEF FreeChain
  <2> HIDE DEF ch
  <2>4. /\ \A k \in 1..(Len(ch) - 1) : ch[k] < ch[k + 1]
        /\ \A k, j \in 1..Len(ch) : k < j => ch[k] < ch[j]
    BY <2>2, <2>3, ChainOrder
  <2>5. /\ ch \in Seq(Addr) /\ Len(ch) \in Nat /\ DOMAIN ch = 1..Len(ch)
        /\ ch[1] = freelist
        /\ \A k \in 1..(Len(ch) - 1) : ch[k + 1] = hdr[ch[k]].next
        /\ \A k \in 1..Len(ch) : ch[k] \in Nodes
    <3>1. /\ ch \in Seq(Addr) /\ ch[1] = freelist
          /\ \A k \in 1..(Len(ch) - 1) : ch[k + 1] = hdr[ch[k]].next
      BY <2>3 DEF IsChain
    <3>2. Nodes = {ch[k] : k \in 1..Len(ch)}
      BY <3>1, RangeEquality DEF Nodes, ch
    <3> QED BY <3>1, <3>2
  <2>6. fits \in SUBSET Nat
    BY <2>5
  <2>7. i \in fits
    BY <1>3, <2>6, MinOfNat
  <2> HIDE DEF i, n
  <2>8. i \in 1..Len(ch) /\ hdr[cur].size >= n
    BY <2>5, <2>7
  <2>9. cur \in Nodes
    BY <2>5, <2>8
  <2>10. CASE i = 1
    <3>1. prev = cur /\ cur = freelist
      BY <2>5, <2>10
    <3>2. state' = IF hdr[cur].size = n /\ prev = cur
                   THEN "exact fit of the first block" ELSE state
      BY <2>1, <2>10, <3>1
    <3>3. live' = With(live, cur + hdr[cur].size - n, n)
      BY <2>1 DEF With
    <3> HIDE DEF cur, prev
    <3>4. Served(n, cur, prev)
      BY <2>1, <2>8, <3>1, <3>2, <3>3, Zenon DEF Served
    <3> QED BY <1>1, <2>9, <3>1, <3>4
  <2>11. CASE i # 1
    <3>1. prev = ch[i - 1] /\ i - 1 \in 1..(Len(ch) - 1) /\ (i - 1) + 1 = i
          /\ i - 1 \in 1..Len(ch)
      BY <2>8, <2>11
    <3>2. prev \in Nodes /\ prev < cur /\ hdr[prev].next = cur
      BY <2>4, <2>5, <3>1
    <3>3. prev # cur
      <4>1. prev \in Int /\ cur \in Int
        BY <2>5, <2>8, <3>1 DEF Addr
      <4> HIDE DEF prev, cur
      <4> QED BY <3>2, <4>1
    <3>4. state' = IF hdr[cur].size = n /\ prev = cur
                   THEN "exact fit of the first block" ELSE state
      BY <2>1, <2>11, <3>3
    <3>5. live' = With(live, cur + hdr[cur].size - n, n)
      BY <2>1 DEF With
    <3> HIDE DEF cur, prev
    <3>6. Served(n, cur, prev)
      BY <2>1, <2>8, <3>2, <3>4, <3>5, Zenon DEF Served
    <3> QED BY <1>1, <2>9, <3>2, <3>6
  <2> QED BY <2>10, <2>11
<1> QED
  BY <1>2, <1>3

(* The invariant in terms of the list, and back.                           *)
LEMMA InvLists ==
  ASSUME IInv
  PROVE  Good(hdr, Nodes, freelist, live)
<1>1. hdr \in Headers /\ Ascends(hdr) /\ freelist \in Addr /\ live \subseteq Block
  BY DEF IInv, TypeOK, Headers, Places
<1>2. IsList(Nodes, hdr, freelist)
  BY <1>1, ListIs DEF Nodes, FreeChain
<1>3. InHeap(hdr, Nodes)
  BY DEF IInv
<1> QED
  BY <1>1, <1>2, <1>3 DEF Good

LEMMA InvGood ==
  ASSUME IInv, state = "sound"
  PROVE  Good(hdr, Nodes, freelist, live) /\ Sound(hdr, Nodes, live)
BY InvLists DEF IInv

LEMMA GoodInv ==
  ASSUME Good(hdr, Nodes, freelist, live)', state' \in Outcomes,
         state' \in {"sound", "end of list"} => Sound(hdr, Nodes, live)',
         Overlaps'
  PROVE  IInv'
<1>1. TypeOK'
  BY DEF Good, TypeOK, Headers, Places
<1>2. Ascends(hdr)' /\ InHeap(hdr, Nodes)'
  BY DEF Good
<1> QED
  BY <1>1, <1>2 DEF IInv

(* What a call keeps: units leave the heap for good, and only when the     *)
(* list begins elsewhere or a block below it is freed.                     *)
Keeps ==
  /\ IInv'
  /\ Covers(hdr, Nodes, live)' \subseteq Covers(hdr, Nodes, live)
  /\ \/ Covers(hdr, Nodes, live) \subseteq Covers(hdr, Nodes, live)'
     \/ freelist' # freelist
     \/ \E b \in live \ live' : b.addr < freelist

LEMMA SplitCuts ==
  ASSUME Good(hdr, Nodes, freelist, live), NEW cur \in Nodes,
         NEW n \in Nat \ {0}, hdr[cur].size > n
  PROVE  LET x == cur + hdr[cur].size - n
         IN  /\ n \in 1..UNITS /\ x \in Addr /\ cur < x
             /\ Cut(Split(cur, n), hdr, cur, x, n)
<1> DEFINE x == cur + hdr[cur].size - n
           v == hdr[cur].size - n
<1>1. /\ UNITS \in Nat /\ cur \in Addr /\ cur \in 1..UNITS
      /\ hdr[cur].size \in 1..UNITS /\ cur + hdr[cur].size <= UNITS + 1
  BY Numbers
<1>2. n \in 1..UNITS /\ x \in Addr /\ cur < x /\ v \in 0..UNITS /\ n \in 0..UNITS
      /\ x + n = cur + hdr[cur].size /\ cur # x
  BY <1>1 DEF Addr
<1> DEFINE h0 == [hdr EXCEPT ![cur].size = v]
           h1 == [h0 EXCEPT ![x].size = n]
<1>3. hdr \in Headers
  BY DEF Good
<1>4. SetSize(h0, hdr, cur, v) /\ SetSize(h1, h0, x, n)
  BY DEF SetSize
<1>5. Split(cur, n) = h1
  BY <1>1, <1>2, <1>3 DEF Split, Headers
<1> HIDE DEF h0, h1, x, v
<1>6. /\ h0 \in Headers /\ h0[cur].size = v /\ h0[cur].next = hdr[cur].next
      /\ \A c \in Addr : c # cur => h0[c] = hdr[c]
  BY <1>1, <1>2, <1>3, <1>4, WriteSize
<1>7. /\ h1 \in Headers /\ h1[x].size = n /\ h1[x].next = h0[x].next
      /\ \A c \in Addr : c # x => h1[c] = h0[c]
  BY <1>2, <1>4, <1>6, WriteSize
<1>8. Cut(h1, hdr, cur, x, n)
  <2>1. \A a \in Addr : h1[a].next = hdr[a].next
    BY <1>6, <1>7
  <2>2. h1[cur].size = hdr[cur].size - n
    BY <1>1, <1>2, <1>6, <1>7 DEF v
  <2>3. \A a \in Addr : a # cur /\ a # x => h1[a].size = hdr[a].size
    BY <1>6, <1>7
  <2> QED BY <1>2, <1>7, <2>1, <2>2, <2>3 DEF Cut
<1> QED
  BY <1>2, <1>5, <1>8 DEF x

LEMMA UnlinkTakes ==
  ASSUME Good(hdr, Nodes, freelist, live), NEW cur \in Nodes, NEW prev \in Nodes
  PROVE  /\ Unlinked(Unlink(prev, cur), hdr, prev, cur)
         /\ prev = cur => Unlink(prev, cur) = hdr
<1> DEFINE h1 == Unlink(prev, cur)
           v == hdr[cur].next
<1>1. hdr \in Headers /\ cur \in Addr /\ prev \in Addr
  BY Numbers DEF Good
<1>2. v \in Places
  BY <1>1 DEF Headers
<1>3. SetNext(h1, hdr, prev, v)
  BY DEF SetNext, Unlink
<1> HIDE DEF h1, v
<1>4. /\ h1 \in Headers /\ h1[prev].next = v /\ h1[prev].size = hdr[prev].size
      /\ \A c \in Addr : c # prev => h1[c] = hdr[c]
  BY <1>1, <1>2, <1>3, WriteNext
<1>5. Unlinked(h1, hdr, prev, cur)
  BY <1>4 DEF Unlinked, v
<1>6. prev = cur => h1 = hdr
  <2>1. prev = cur => [hdr EXCEPT ![prev].next = v] = hdr
    BY <1>1 DEF v, Headers
  <2> QED BY <2>1, <1>3 DEF SetNext
<1> QED
  BY <1>5, <1>6 DEF h1

(* do_malloc keeps the heap sound, unless it takes the first block whole.  *)
LEMMA MallocKeeps ==
  ASSUME IInv, NEW size \in Sizes, do_malloc(size)
  PROVE  Keeps
<1>0. state = "sound"
  BY DEF do_malloc
<1>1. Good(hdr, Nodes, freelist, live) /\ Sound(hdr, Nodes, live)
  BY <1>0, InvGood
<1>2. CASE state' = "end of list" /\ UNCHANGED <<hdr, freelist, live>>
  <2>1. hdr' = hdr /\ freelist' = freelist /\ live' = live /\ Nodes' = Nodes
    BY <1>2 DEF Nodes, FreeChain
  <2>2. Good(hdr, Nodes, freelist, live)' /\ Sound(hdr, Nodes, live)'
    BY <1>1, <2>1
  <2>3. state' \in Outcomes /\ Overlaps'
    BY <1>2 DEF Outcomes, Overlaps
  <2>4. IInv'
    BY <2>2, <2>3, GoodInv
  <2>5. Covers(hdr, Nodes, live)' = Covers(hdr, Nodes, live)
    BY <2>1
  <2> QED BY <2>4, <2>5 DEF Keeps
<1>3. ASSUME NEW n \in Nat \ {0}, NEW cur \in Nodes, NEW prev \in Nodes,
             Served(n, cur, prev)
      PROVE  Keeps
  <2> DEFINE x == cur + hdr[cur].size - n
             B == With(live, x, n)
  <2>1. /\ hdr[cur].size >= n
        /\ \/ prev = cur /\ cur = freelist
           \/ prev < cur /\ hdr[prev].next = cur
        /\ live' = B /\ freelist' = prev
    BY <1>3 DEF Served
  <2>2. /\ cur \in 1..UNITS /\ prev \in 1..UNITS /\ hdr[cur].size \in 1..UNITS
        /\ UNITS \in Nat /\ prev <= cur
    BY <1>1, <2>1, Numbers
  <2>3. ASSUME NEW h1, NEW M, Good(h1, M, prev, B), Sound(h1, M, B),
               Covers(h1, M, B) \subseteq Covers(hdr, Nodes, live),
               prev = freelist =>
                 Covers(hdr, Nodes, live) \subseteq Covers(h1, M, B),
               hdr' = Relevant(h1, prev, B), state' = "sound"
        PROVE  Keeps
    <3> HIDE DEF B, x
    <3>1. /\ Good(hdr, Nodes, freelist, live)' /\ Sound(hdr, Nodes, live)'
          /\ Covers(hdr, Nodes, live)' = Covers(h1, M, B)
      BY <2>1, <2>3, NextHeap
    <3>2. state' \in Outcomes /\ Overlaps'
      BY <2>3 DEF Outcomes, Overlaps
    <3>3. IInv'
      BY <3>1, <3>2, GoodInv
    <3> QED BY <2>1, <2>3, <3>1, <3>3 DEF Keeps
  <2>4. CASE hdr[cur].size # n
    <3>1. hdr[cur].size > n
      BY <2>1, <2>2, <2>4
    <3>2. hdr' = Relevant(Split(cur, n), prev, B) /\ state' = "sound"
      BY <1>0, <1>3, <2>1, <2>4 DEF Served
    <3>3. /\ n \in 1..UNITS /\ x \in Addr /\ cur < x
          /\ Cut(Split(cur, n), hdr, cur, x, n)
      BY <1>1, <3>1, SplitCuts
    <3> DEFINE h1 == Split(cur, n)
    <3> HIDE DEF h1, x
    <3> DEFINE M == From(Nodes, prev)
    <3>4. /\ Good(h1, M, prev, B) /\ Sound(h1, M, B)
          /\ Covers(h1, M, B) \subseteq Covers(hdr, Nodes, live)
          /\ prev = freelist =>
               Covers(hdr, Nodes, live) \subseteq Covers(h1, M, B)
      BY <1>1, <2>2, <3>3, CutKeeps DEF h1
    <3> HIDE DEF M, B
    <3> QED BY <2>3, <3>2, <3>4 DEF h1
  <2>5. CASE hdr[cur].size = n /\ prev # cur
    <3>1. hdr' = Relevant(Unlink(prev, cur), prev, B) /\ state' = "sound"
      BY <1>0, <1>3, <2>1, <2>5 DEF Served
    <3>2. B = With(live, cur, hdr[cur].size)
      <4>1. x = cur
        BY <2>2, <2>5
      <4> QED BY <2>5, <4>1
    <3> DEFINE h1 == Unlink(prev, cur)
               M == From(Nodes, prev) \ {cur}
    <3>3. Unlinked(h1, hdr, prev, cur) /\ hdr[prev].next = cur
      BY <1>1, <2>1, <2>5, UnlinkTakes
    <3> HIDE DEF h1, B
    <3>4. /\ Good(h1, M, prev, B) /\ Sound(h1, M, B)
          /\ Covers(h1, M, B) \subseteq Covers(hdr, Nodes, live)
          /\ prev = freelist =>
               Covers(hdr, Nodes, live) \subseteq Covers(h1, M, B)
      BY <1>1, <3>2, <3>3, TakeKeeps
    <3> HIDE DEF M
    <3> QED BY <2>3, <3>1, <3>4 DEF h1
  <2>6. CASE hdr[cur].size = n /\ prev = cur
    <3>1. /\ hdr' = Relevant(hdr, prev, B) /\ freelist = prev
          /\ state' = "exact fit of the first block"
      <4>1. Unlink(prev, cur) = hdr
        BY <1>1, <2>6, UnlinkTakes
      <4>2. freelist = prev
        BY <2>1, <2>2, <2>6
      <4> QED BY <1>3, <2>1, <2>6, <4>1, <4>2 DEF Served
    <3> DEFINE new == [addr |-> x, size |-> n]
    <3>2. new \in Block /\ new.addr = cur /\ new.size = n
      BY <2>2, <2>6 DEF Block, Addr
    <3>3. \A b : b \in B <=> b \in live \/ b = new
      BY DEF With
    <3> HIDE DEF new, B
    <3>4. Good(hdr, Nodes, prev, B)
      BY <1>1, <3>1, <3>2, <3>3 DEF Good
    <3>5. /\ Good(hdr, Nodes, freelist, live)' /\ Nodes' = Nodes
          /\ Covers(hdr, Nodes, live)' = Covers(hdr, Nodes, B)
      BY <2>1, <3>1, <3>4, NextHeap
    <3>6. state' \in Outcomes /\ Overlaps'
      <4>1. new \in live' /\ new.addr = freelist'
        BY <2>1, <2>6, <3>2, <3>3
      <4> QED BY <3>1, <4>1 DEF Outcomes, Overlaps
    <3>7. IInv'
      BY <3>1, <3>5, <3>6, GoodInv
    <3>8. Covers(hdr, Nodes, B) = Covers(hdr, Nodes, live)
      <4>1. ASSUME NEW u \in Covers(hdr, Nodes, B)
            PROVE  u \in Covers(hdr, Nodes, live)
        <5>1. CASE new.addr <= u /\ u < new.addr + new.size
          BY <2>6, <3>2, <4>1, <5>1 DEF Covers
        <5> QED BY <3>3, <4>1, <5>1 DEF Covers
      <4>2. Covers(hdr, Nodes, live) \subseteq Covers(hdr, Nodes, B)
        BY <3>3 DEF Covers
      <4> QED BY <4>1, <4>2
    <3> QED BY <3>5, <3>7, <3>8 DEF Keeps
  <2> QED BY <2>4, <2>5, <2>6
<1> QED
  BY <1>2, <1>3, MallocFinds, Zenon

-----------------------------------------------------------------------------
(* do_free                                                                 *)

(* The loop stops at a node, below the block unless all nodes lie above.   *)
Freed(b, cur) ==
  /\ StopsAt(b.addr, cur)
  /\ freelist < b.addr => cur < b.addr
  /\ live' = live \ {b}
  /\ hdr' = Relevant(IF cur < b.addr THEN InsertBehind(b.addr, cur)
                     ELSE InsertBefore(b.addr, cur), freelist, live')
  /\ state' = IF MergesBoth(b.addr, cur) THEN "merged on both sides" ELSE state
  /\ freelist' = freelist

LEMMA FreeFinds ==
  ASSUME IInv, NEW b \in live, do_free(b)
  PROVE  \E cur \in Nodes : Freed(b, cur)
<1> DEFINE block == b.addr
           ch == FreeChain
           J == {j \in DOMAIN ch : StopsAt(block, ch[j])}
           j == Min(J)
           cur == ch[j]
<1>1. /\ state = "sound"
      /\ live' = live \ {b}
      /\ hdr' = Relevant(IF cur < block THEN InsertBehind(block, cur)
                         ELSE InsertBefore(block, cur), freelist, live')
      /\ state' = IF MergesBoth(block, cur) THEN "merged on both sides" ELSE state
      /\ freelist' = freelist
  BY DEF do_free
<1>2. Good(hdr, Nodes, freelist, live) /\ Sound(hdr, Nodes, live)
  BY <1>1, InvGood
<1>3. freelist \in Addr /\ Ascends(hdr)
  BY <1>2 DEF Good
<1>4. IsChain(ch, hdr, freelist)
  BY <1>3, ChainIs DEF FreeChain
<1>5. Nodes = Range(ch)
  BY DEF Nodes
<1> HIDE DEF ch
<1>6. \A i \in 1..Len(ch) : hdr[ch[i]].next # NULL <=> i < Len(ch)
  BY <1>3, <1>4, ChainOrder
<1>7. /\ ch \in Seq(Addr) /\ Len(ch) \in Nat /\ Len(ch) >= 1
      /\ DOMAIN ch = 1..Len(ch) /\ ch[1] = freelist
      /\ \A i \in 1..(Len(ch) - 1) : ch[i + 1] = hdr[ch[i]].next
  BY <1>4 DEF IsChain
<1>8. \A i \in 1..Len(ch) : ch[i] \in Nodes
  BY <1>5, <1>7, RangeEquality
<1>9. block \in 1..UNITS /\ UNITS \in Nat /\ block \notin Nodes
      /\ \A a \in Nodes : a \in 1..UNITS
  <2>1. \A a \in Nodes : a \in 1..UNITS /\ hdr[a].size \in 1..UNITS
    BY <1>2, Numbers
  <2>2. block \in 1..UNITS /\ UNITS \in Nat /\ b.size \in 1..UNITS
    BY <1>2, Numbers
  <2>3. \A a \in Nodes : a + hdr[a].size <= block \/ block + b.size <= a
    BY <1>2 DEF Sound, Apart
  <2>4. block \notin Nodes
    BY <2>1, <2>2, <2>3
  <2> QED BY <2>1, <2>2, <2>4
<1>10. Len(ch) \in J
  <2>1. Len(ch) \in 1..Len(ch)
    BY <1>7
  <2>2. hdr[ch[Len(ch)]].next = NULL
    BY <1>6, <1>7, <2>1
  <2>3. block # ch[Len(ch)]
    BY <1>8, <1>9, <2>1
  <2> QED BY <1>7, <2>1, <2>2, <2>3 DEF StopsAt
<1>11. J \in SUBSET Nat
  BY <1>7
<1>12. j \in J /\ \A y \in J : j <= y
  BY <1>10, <1>11, MinOfNat
<1> HIDE DEF j
<1>13. j \in 1..Len(ch) /\ StopsAt(block, cur) /\ cur \in Nodes
  BY <1>7, <1>8, <1>12
<1>14. ASSUME freelist < block
       PROVE  cur < block
  <2> DEFINE S == {k \in 0..(j - 1) : ch[k + 1] < block}
  <2>1. 0 \in S
    BY <1>7, <1>13, <1>14
  <2>2. ASSUME NEW k \in 0..((j - 1) - 1), k \in S
        PROVE  k + 1 \in S
    <3>1. k + 1 \in 1..Len(ch) /\ k + 1 < j /\ k + 1 < Len(ch) /\ ch[k + 1] < block
      BY <1>7, <1>13, <2>2
    <3>2. k + 1 \notin J
      BY <1>12, <1>13, <3>1
    <3>3. ~StopsAt(block, ch[k + 1])
      BY <1>7, <3>1, <3>2
    <3>4. ~(block < hdr[ch[k + 1]].next)
      BY <3>1, <3>3 DEF StopsAt
    <3>5. ch[(k + 1) + 1] = hdr[ch[k + 1]].next /\ (k + 1) + 1 \in 1..Len(ch)
      BY <1>7, <3>1
    <3>6. ch[(k + 1) + 1] \in Nodes
      BY <1>8, <3>5
    <3>7. ch[(k + 1) + 1] < block
      BY <1>9, <3>4, <3>5, <3>6
    <3> QED BY <1>13, <3>7
  <2> HIDE DEF S
  <2>3. j - 1 \in Nat
    BY <1>13
  <2>4. \A k \in 0..(j - 1) : k \in S
    BY <2>1, <2>2, <2>3, UpTo
  <2>5. j - 1 \in S /\ (j - 1) + 1 = j
    BY <1>13, <2>3, <2>4
  <2> QED BY <2>5 DEF S
<1> HIDE DEF cur
<1>15. Freed(b, cur)
  BY <1>1, <1>13, <1>14, Zenon DEF Freed
<1> QED
  BY <1>13, <1>15

(* Where the block lies between the nodes.                                 *)
Behind(h, N, b, cur) ==
  /\ b.addr \notin N /\ h[b.addr].size = b.size
  /\ b.addr + b.size <= UNITS + 1
  /\ \A a \in N : a <= cur => a + h[a].size <= b.addr
  /\ \A a \in N : ~(a <= cur) =>
       b.addr + b.size <= a /\ h[cur].next # 0 /\ h[cur].next <= a
  /\ h[cur].next # 0 => h[cur].next \in N /\ b.addr + b.size <= h[cur].next

LEMMA FreedOutside ==
  ASSUME NEW h, NEW N, NEW first, NEW blocks, Good(h, N, first, blocks),
         Sound(h, N, blocks), NEW b \in blocks
  PROVE  /\ b.addr \notin N
         /\ \A c \in blocks : c # b => c.addr # b.addr /\ c.addr \notin N
<1>1. /\ UNITS \in Nat
      /\ \A a \in N : a \in 1..UNITS /\ h[a].size \in 1..UNITS
      /\ \A c \in blocks : c.addr \in 1..UNITS /\ c.size \in 1..UNITS
  BY Numbers
<1>2. /\ \A a \in N, c \in blocks : a + h[a].size <= c.addr \/ c.addr + c.size <= a
      /\ \A c \in blocks : c # b =>
           c.addr + c.size <= b.addr \/ b.addr + b.size <= c.addr
  BY DEF Sound, Apart
<1>3. \A c \in blocks : c.addr \notin N
  BY <1>1, <1>2
<1>4. \A c \in blocks : c # b => c.addr # b.addr
  BY <1>1, <1>2
<1> QED
  BY <1>3, <1>4

LEMMA FreedBehind ==
  ASSUME NEW h, NEW N, NEW first, NEW blocks, Good(h, N, first, blocks),
         Sound(h, N, blocks), NEW b \in blocks, NEW cur \in N, cur < b.addr,
         h[cur].next = 0 \/ b.addr < h[cur].next
  PROVE  Behind(h, N, b, cur)
<1>1. /\ UNITS \in Nat
      /\ \A a \in N : /\ a \in 1..UNITS /\ h[a].size \in 1..UNITS
                      /\ h[a].next \in 0..UNITS
                      /\ h[a].next # 0 => h[a].next \in N
      /\ b.addr \in 1..UNITS /\ b.size \in 1..UNITS
  BY Numbers
<1>2. /\ \A a, c \in N : a < c => a + h[a].size <= c
      /\ h[b.addr].size = b.size /\ b.addr + b.size <= UNITS + 1
      /\ \A a \in N : a + h[a].size <= b.addr \/ b.addr + b.size <= a
  BY DEF Sound, Apart
<1>3. b.addr \notin N
  BY <1>1, <1>2
<1>4. \A a \in N : a <= cur => a + h[a].size <= b.addr
  BY <1>1, <1>2
<1>5. \A a \in N : ~(a <= cur) => h[cur].next # 0 /\ h[cur].next <= a
  BY DEF Good, IsList, NULL
<1>6. h[cur].next # 0 => h[cur].next \in N /\ b.addr + b.size <= h[cur].next
  <2>1. ASSUME h[cur].next # 0
        PROVE  h[cur].next \in N /\ b.addr + b.size <= h[cur].next
    <3>1. h[cur].next \in N /\ b.addr < h[cur].next
      BY <1>1, <2>1
    <3> QED BY <1>1, <1>2, <3>1
  <2> QED BY <2>1
<1>7. \A a \in N : ~(a <= cur) => b.addr + b.size <= a
  BY <1>1, <1>5, <1>6
<1> QED
  BY <1>2, <1>3, <1>4, <1>5, <1>6, <1>7 DEF Behind

(* A node is linked in behind cur.                                         *)
LEMMA PutIn ==
  ASSUME NEW h, NEW N, NEW first, IsList(N, h, first), NEW cur \in N,
         NEW x \in Addr, cur < x, h[cur].next = NULL \/ x < h[cur].next,
         NEW h1, h1[cur].next = x, h1[x].next = h[cur].next,
         \A a \in N : a # cur => h1[a].next = h[a].next
  PROVE  IsList(N \cup {x}, h1, first)
<1> DEFINE M == N \cup {x}
           nx(a) == h[a].next
<1>1. /\ UNITS \in Nat /\ x \in 1..UNITS
      /\ first \in N /\ N \subseteq Addr
      /\ \A a \in N : /\ a \in 1..UNITS /\ first <= a
                      /\ nx(a) = 0 => \A c \in N : c <= a
                      /\ nx(a) # 0 => /\ nx(a) \in N /\ a < nx(a)
                                      /\ \A c \in N : c <= a \/ nx(a) <= c
  BY DEF IsList, Addr, NULL
<1>2. nx(cur) # 0 => nx(cur) \in N /\ nx(cur) \in 1..UNITS /\ x < nx(cur)
  BY <1>1 DEF NULL
<1> HIDE DEF nx
<1>3. \A c \in M : c \in N \/ c = x
  OBVIOUS
<1>4. ASSUME NEW a \in M
      PROVE  /\ first <= a
             /\ h1[a].next = 0 => \A c \in M : c <= a
             /\ h1[a].next # 0 =>
                  /\ h1[a].next \in M /\ a < h1[a].next
                  /\ \A c \in M : c <= a \/ h1[a].next <= c
  <2>1. CASE a = x
    <3>1. h1[a].next = nx(cur)
      BY <2>1 DEF nx
    <3>2. first <= x /\ first \in 1..UNITS
      BY <1>1
    <3>3. \A c \in N : c <= cur => c <= x
      BY <1>1
    <3>4. CASE nx(cur) = 0
      BY <1>1, <1>3, <2>1, <3>1, <3>2, <3>3, <3>4
    <3>5. CASE nx(cur) # 0
      BY <1>1, <1>2, <1>3, <2>1, <3>1, <3>2, <3>3, <3>5
    <3> QED BY <3>4, <3>5
  <2>2. CASE a = cur /\ a # x
    <3>1. h1[a].next = x /\ x # 0
      BY <1>1, <2>2
    <3>2. ASSUME NEW c \in N
          PROVE  c <= cur \/ x <= c
      <4>1. CASE nx(cur) = 0
        BY <1>1, <4>1
      <4>2. CASE nx(cur) # 0
        BY <1>1, <1>2, <4>2
      <4> QED BY <4>1, <4>2
    <3> QED BY <1>1, <1>3, <2>2, <3>1, <3>2
  <2>3. CASE a # cur /\ a \in N
    <3>1. h1[a].next = nx(a)
      BY <2>3 DEF nx
    <3>2. nx(a) = 0 => x <= a
      <4>1. nx(a) = 0 => cur <= a /\ cur < a
        BY <1>1, <2>3
      <4>2. cur < a => nx(cur) # 0 /\ nx(cur) <= a
        BY <1>1, <2>3
      <4> QED BY <1>1, <1>2, <2>3, <4>1, <4>2
    <3>3. nx(a) # 0 => x <= a \/ nx(a) <= x
      <4>1. CASE cur < a
        BY <1>1, <1>2, <2>3, <4>1
      <4>2. CASE a < cur
        <5>1. nx(a) # 0 => nx(a) \in N /\ (cur <= a \/ nx(a) <= cur)
          BY <1>1, <2>3
        <5>2. a \in Int /\ cur \in Int /\ x \in Int /\ \A c \in N : c \in Int
          BY <1>1, <2>3
        <5>3. ~(cur <= a)
          BY <4>2, <5>2
        <5>4. nx(a) # 0 => nx(a) <= cur /\ nx(a) \in Int
          BY <5>1, <5>2, <5>3, Zenon
        <5>5. cur < x
          OBVIOUS
        <5> QED BY <5>2, <5>4, <5>5
      <4> QED BY <1>1, <2>3, <4>1, <4>2
    <3> QED BY <1>1, <1>3, <2>3, <3>1, <3>2, <3>3
  <2> QED BY <1>3, <2>1, <2>2, <2>3
<1>5. first \in M /\ M \subseteq Addr
  BY <1>1
<1> HIDE DEF M
<1>6. IsList(M, h1, first)
  BY <1>4, <1>5 DEF IsList, NULL
<1> QED
  BY <1>6 DEF M

(* The block before grows by m units; the freed header is written too.     *)
Grown(h1, h, cur, x, m) ==
  /\ h1 \in Headers /\ Ascends(h1)
  /\ h1[cur].size = h[cur].size + m /\ h1[cur].next = h[cur].next
  /\ \A a \in Addr : a # cur /\ a # x => h1[a] = h[a]

LEMMA GrowGood ==
  ASSUME NEW h, NEW N, NEW first, NEW blocks, Good(h, N, first, blocks),
         NEW b \in blocks, NEW cur \in N, b.addr \notin N,
         NEW m \in 0..UNITS, cur + h[cur].size + m <= UNITS + 1,
         NEW h1, Grown(h1, h, cur, b.addr, m)
  PROVE  Good(h1, N, first, blocks \ {b})
<1>1. /\ UNITS \in Nat
      /\ \A a \in N : /\ a \in Addr /\ a \in 1..UNITS /\ h[a].size \in 1..UNITS
                      /\ a + h[a].size <= UNITS + 1
  BY Numbers
<1>2. /\ h1[cur].size = h[cur].size + m /\ h1[cur].next = h[cur].next
      /\ \A a \in N : a # cur => h1[a] = h[a]
  BY <1>1 DEF Grown
<1>3. \A a \in N : h1[a].next = h[a].next
  BY <1>2
<1>4. IsList(N, h1, first)
  BY <1>3 DEF Good, IsList
<1>5. ASSUME NEW a \in N
      PROVE  h1[a].size >= 1 /\ a + h1[a].size <= UNITS + 1
  <2>1. CASE a = cur
    BY <1>1, <1>2, <2>1
  <2>2. CASE a # cur
    BY <1>1, <1>2, <2>2
  <2> QED BY <2>1, <2>2
<1>6. InHeap(h1, N)
  BY <1>5 DEF InHeap
<1>7. h1 \in Headers /\ Ascends(h1)
  BY DEF Grown
<1> QED
  BY <1>4, <1>6, <1>7 DEF Good

(* The block is appended to the free block before it.                      *)
LEMMA GrowKeeps ==
  ASSUME NEW h, NEW N, NEW first, NEW blocks, Good(h, N, first, blocks),
         Sound(h, N, blocks), NEW b \in blocks, NEW cur \in N, cur < b.addr,
         Behind(h, N, b, cur), cur + h[cur].size = b.addr,
         NEW h1, Grown(h1, h, cur, b.addr, b.size)
  PROVE  LET B == blocks \ {b}
         IN  /\ Good(h1, N, first, B) /\ Sound(h1, N, B)
             /\ Covers(h1, N, B) \subseteq Covers(h, N, blocks)
             /\ Covers(h, N, blocks) \subseteq Covers(h1, N, B)
<1> DEFINE B == blocks \ {b}
           x == b.addr
           m == b.size
           sz(a) == h[a].size
           s1(a) == h1[a].size
<1>1. /\ UNITS \in Nat
      /\ \A a \in N : a \in Addr /\ a \in 1..UNITS /\ sz(a) \in 1..UNITS
      /\ \A c \in blocks : c.addr \in Addr /\ c.addr \in 1..UNITS /\ c.size \in 1..UNITS
  BY Numbers
<1>2. /\ x \notin N /\ x + m <= UNITS + 1
      /\ \A a \in N : a <= cur => a + sz(a) <= x
      /\ \A a \in N : ~(a <= cur) => x + m <= a
  BY DEF Behind
<1>3. /\ \A a \in N : a # cur => h1[a] = h[a]
      /\ s1(cur) = sz(cur) + m
      /\ \A a \in Addr : a # cur /\ a # x => h1[a] = h[a]
  BY <1>1, <1>2 DEF Grown
<1>4. m \in 0..UNITS /\ cur + sz(cur) + m <= UNITS + 1 /\ x \in 1..UNITS
      /\ cur + sz(cur) = x /\ m \in 1..UNITS /\ cur + s1(cur) = x + m
  BY <1>1, <1>2, <1>3
<1>5. Good(h1, N, first, B)
  BY <1>2, <1>4, GrowGood
<1>6. \A c \in blocks : c # b => c.addr # x /\ c.addr \notin N
  BY FreedOutside
<1>7. \A c : c \in B <=> c \in blocks /\ c # b
  OBVIOUS
<1>8. /\ \A a, c \in N : a < c => a + sz(a) <= c
      /\ \A c \in blocks : sz(c.addr) = c.size /\ c.addr + c.size <= UNITS + 1
      /\ \A a \in N, c \in blocks : a + sz(a) <= c.addr \/ c.addr + c.size <= a
      /\ \A c \in blocks : c # b => x + m <= c.addr \/ c.addr + c.size <= x
  BY DEF Sound, Apart
<1>9. \A a \in N : a # cur => s1(a) = sz(a)
  BY <1>3
<1> HIDE DEF B, x, m, sz, s1
<1>10. Sound(h1, N, B)
  <2>1. \A a, c \in N : a < c => a + s1(a) <= c
    <3>1. ASSUME NEW a \in N, NEW c \in N, a < c
          PROVE  a + s1(a) <= c
      <4>1. CASE a = cur
        BY <1>1, <1>2, <1>4, <3>1, <4>1
      <4>2. CASE a # cur
        BY <1>8, <1>9, <3>1, <4>2
      <4> QED BY <4>1, <4>2
    <3> QED BY <3>1
  <2>2. ASSUME NEW c \in B
        PROVE  h1[c.addr].size = c.size /\ c.addr + c.size <= UNITS + 1
    <3>1. c \in blocks /\ c.addr # x /\ c.addr # cur /\ c.addr \in Addr
      BY <1>1, <1>6, <1>7
    <3>2. h1[c.addr] = h[c.addr]
      BY <1>3, <3>1
    <3> QED BY <1>8, <3>1, <3>2 DEF sz
  <2>3. ASSUME NEW a \in N, NEW c \in B
        PROVE  a + s1(a) <= c.addr \/ c.addr + c.size <= a
    <3>1. c \in blocks /\ c # b
      BY <1>7
    <3>2. a + sz(a) <= c.addr \/ c.addr + c.size <= a
      BY <1>8, <3>1
    <3>3. CASE a = cur
      <4>1. x <= c.addr \/ c.addr + c.size <= cur
        BY <1>4, <3>2, <3>3
      <4>2. x + m <= c.addr \/ c.addr + c.size <= x
        BY <1>8, <3>1
      <4>3. x + m <= c.addr \/ c.addr + c.size <= cur
        BY <1>1, <1>4, <3>1, <4>1, <4>2
      <4> QED BY <1>4, <3>3, <4>3
    <3>4. CASE a # cur
      BY <1>9, <3>2, <3>4
    <3> QED BY <3>3, <3>4
  <2>4. \A c, d \in B : c # d => Apart(c.addr, c.size, d.addr, d.size)
    BY <1>7 DEF Sound
  <2> QED BY <2>1, <2>2, <2>3, <2>4 DEF Sound, Apart, s1
<1>11. ASSUME NEW u \in Covers(h1, N, B)
       PROVE  u \in Covers(h, N, blocks)
  <2>0. u \in Addr /\ u \in Int
    BY DEF Covers, Addr
  <2>1. CASE \E a \in N : a <= u /\ u < a + s1(a)
    <3>1. PICK a \in N : a <= u /\ u < a + s1(a)
      BY <2>1
    <3>2. CASE a # cur
      BY <1>9, <2>0, <3>1, <3>2 DEF Covers, sz
    <3>3. CASE a = cur /\ u < cur + sz(cur)
      BY <2>0, <3>1, <3>3 DEF Covers, sz
    <3>4. CASE a = cur /\ ~(u < cur + sz(cur))
      <4>1. x <= u /\ u < x + m
        BY <1>4, <2>0, <3>1, <3>4
      <4> QED BY <2>0, <4>1 DEF Covers, x, m
    <3> QED BY <3>2, <3>3, <3>4
  <2>2. CASE \E c \in B : c.addr <= u /\ u < c.addr + c.size
    BY <1>7, <2>0, <2>2 DEF Covers
  <2> QED BY <1>11, <2>1, <2>2 DEF Covers, s1
<1>12. ASSUME NEW u \in Covers(h, N, blocks)
       PROVE  u \in Covers(h1, N, B)
  <2>0. u \in Addr /\ u \in Int
    BY DEF Covers, Addr
  <2>1. CASE \E a \in N : a <= u /\ u < a + sz(a)
    <3>1. PICK a \in N : a <= u /\ u < a + sz(a)
      BY <2>1
    <3>2. u < a + s1(a)
      <4>1. CASE a = cur
        BY <1>1, <1>4, <2>0, <3>1, <4>1
      <4>2. CASE a # cur
        BY <1>9, <3>1, <4>2
      <4> QED BY <4>1, <4>2
    <3> QED BY <2>0, <3>1, <3>2 DEF Covers, s1
  <2>2. CASE \E c \in B : c.addr <= u /\ u < c.addr + c.size
    BY <2>0, <2>2 DEF Covers
  <2>3. CASE x <= u /\ u < x + m
    <3>1. cur <= u /\ u < cur + s1(cur)
      BY <1>1, <1>4, <2>0, <2>3
    <3> QED BY <2>0, <3>1 DEF Covers, s1
  <2> QED BY <1>7, <1>12, <2>1, <2>2, <2>3 DEF Covers, sz, x, m
<1> QED
  BY <1>5, <1>10, <1>11, <1>12 DEF B

(* The block and the free block behind it are appended to the free block   *)
(* before it, and the one behind stays on the list.                        *)
LEMMA MergeKeeps ==
  ASSUME NEW h, NEW N, NEW first, NEW blocks, Good(h, N, first, blocks),
         Sound(h, N, blocks), NEW b \in blocks, NEW cur \in N, cur < b.addr,
         Behind(h, N, b, cur), cur + h[cur].size = b.addr,
         NEW next \in N, next = h[cur].next, b.addr + b.size = next,
         NEW h1, Grown(h1, h, cur, b.addr, b.size + h[next].size)
  PROVE  LET B == blocks \ {b}
         IN  /\ Good(h1, N, first, B)
             /\ cur < next /\ next < cur + h1[cur].size
             /\ Covers(h1, N, B) \subseteq Covers(h, N, blocks)
             /\ Covers(h, N, blocks) \subseteq Covers(h1, N, B)
<1> DEFINE B == blocks \ {b}
           x == b.addr
           m == b.size
           sz(a) == h[a].size
           s1(a) == h1[a].size
<1>1. /\ UNITS \in Nat
      /\ \A a \in N : /\ a \in Addr /\ a \in 1..UNITS /\ sz(a) \in 1..UNITS
                      /\ a + sz(a) <= UNITS + 1
      /\ x \in 1..UNITS /\ m \in 1..UNITS
  BY Numbers
<1>2. x \notin N
  BY DEF Behind
<1>3. /\ s1(cur) = sz(cur) + (m + sz(next))
      /\ \A a \in N : a # cur => h1[a] = h[a]
  BY <1>1, <1>2 DEF Grown
<1>4. /\ cur + sz(cur) = x /\ x + m = next
      /\ m + sz(next) \in 0..UNITS /\ cur + sz(cur) + (m + sz(next)) <= UNITS + 1
      /\ cur + s1(cur) = next + sz(next) /\ cur < next /\ next < cur + s1(cur)
  BY <1>1, <1>3
<1>5. Good(h1, N, first, B)
  BY <1>2, <1>4, GrowGood
<1>7. \A c : c \in B <=> c \in blocks /\ c # b
  OBVIOUS
<1>9. \A a \in N : a # cur => s1(a) = sz(a)
  BY <1>3
<1> HIDE DEF B, x, m, sz, s1
<1>11. ASSUME NEW u \in Covers(h1, N, B)
       PROVE  u \in Covers(h, N, blocks)
  <2>0. u \in Addr /\ u \in Int
    BY DEF Covers, Addr
  <2>1. CASE \E a \in N : a <= u /\ u < a + s1(a)
    <3>1. PICK a \in N : a <= u /\ u < a + s1(a)
      BY <2>1
    <3>2. CASE a # cur
      BY <1>9, <2>0, <3>1, <3>2 DEF Covers, sz
    <3>3. CASE a = cur /\ u < cur + sz(cur)
      BY <2>0, <3>1, <3>3 DEF Covers, sz
    <3>4. CASE a = cur /\ ~(u < cur + sz(cur))
      <4>1. \/ x <= u /\ u < x + m
            \/ next <= u /\ u < next + sz(next)
        BY <1>1, <1>4, <2>0, <3>1, <3>4
      <4> QED BY <2>0, <4>1 DEF Covers, x, m, sz
    <3> QED BY <3>2, <3>3, <3>4
  <2>2. CASE \E c \in B : c.addr <= u /\ u < c.addr + c.size
    BY <1>7, <2>0, <2>2 DEF Covers
  <2> QED BY <1>11, <2>1, <2>2 DEF Covers, s1
<1>12. ASSUME NEW u \in Covers(h, N, blocks)
       PROVE  u \in Covers(h1, N, B)
  <2>0. u \in Addr /\ u \in Int
    BY DEF Covers, Addr
  <2>1. CASE \E a \in N : a <= u /\ u < a + sz(a)
    <3>1. PICK a \in N : a <= u /\ u < a + sz(a)
      BY <2>1
    <3>2. u < a + s1(a)
      <4>1. CASE a = cur
        BY <1>1, <1>4, <2>0, <3>1, <4>1
      <4>2. CASE a # cur
        BY <1>9, <3>1, <4>2
      <4> QED BY <4>1, <4>2
    <3> QED BY <2>0, <3>1, <3>2 DEF Covers, s1
  <2>2. CASE \E c \in B : c.addr <= u /\ u < c.addr + c.size
    BY <2>0, <2>2 DEF Covers
  <2>3. CASE x <= u /\ u < x + m
    <3>1. cur <= u /\ u < cur + s1(cur)
      BY <1>1, <1>4, <2>0, <2>3
    <3> QED BY <2>0, <3>1 DEF Covers, s1
  <2> QED BY <1>7, <1>12, <2>1, <2>2, <2>3 DEF Covers, sz, x, m
<1> QED
  BY <1>4, <1>5, <1>11, <1>12 DEF B, s1

(* The block is linked in behind cur; a free block next to it above has    *)
(* become part of it (m units in all) and left the list.                   *)
Linked(h1, h, cur, x, m, link) ==
  /\ h1 \in Headers /\ Ascends(h1)
  /\ h1[cur].size = h[cur].size /\ h1[cur].next = x
  /\ h1[x].size = m /\ h1[x].next = link
  /\ \A a \in Addr : a # cur /\ a # x => h1[a] = h[a]

(* The units, the link and the list that result.                           *)
Joins(h, N, b, cur, m, link, U) ==
  \/ m = b.size /\ link = h[cur].next /\ U = {}
  \/ /\ h[cur].next # 0 /\ b.addr + b.size = h[cur].next
     /\ m = b.size + h[h[cur].next].size
     /\ link = h[h[cur].next].next /\ U = {h[cur].next}

Put(N, x, U) == (N \cup {x}) \ U

LEMMA LinkKeeps ==
  ASSUME NEW h, NEW N, NEW first, NEW blocks, Good(h, N, first, blocks),
         Sound(h, N, blocks), NEW b \in blocks, NEW cur \in N, cur < b.addr,
         Behind(h, N, b, cur), NEW h1, NEW m, NEW link,
         Linked(h1, h, cur, b.addr, m, link), NEW U,
         Joins(h, N, b, cur, m, link, U)
  PROVE  LET B == blocks \ {b}
             M == Put(N, b.addr, U)
         IN  /\ Good(h1, M, first, B) /\ Sound(h1, M, B)
             /\ Covers(h1, M, B) \subseteq Covers(h, N, blocks)
             /\ Covers(h, N, blocks) \subseteq Covers(h1, M, B)
<1> DEFINE B == blocks \ {b}
           M == Put(N, b.addr, U)
           x == b.addr
           n == b.size
           sz(a) == h[a].size
           s1(a) == h1[a].size
           next == h[cur].next
<1>1. /\ UNITS \in Nat /\ first \in N
      /\ \A a \in N : /\ a \in Addr /\ a \in 1..UNITS /\ sz(a) \in 1..UNITS
                      /\ a + sz(a) <= UNITS + 1 /\ first <= a
      /\ \A c \in blocks : c.addr \in Addr /\ c.addr \in 1..UNITS /\ c.size \in 1..UNITS
      /\ x \in Addr /\ x \in 1..UNITS /\ n \in 1..UNITS
  BY Numbers
<1>2. /\ x \notin N /\ x + n <= UNITS + 1
      /\ \A a \in N : a <= cur => a + sz(a) <= x
      /\ \A a \in N : ~(a <= cur) => x + n <= a /\ next # 0 /\ next <= a
      /\ next # 0 => next \in N /\ x + n <= next
  BY DEF Behind
<1>3. /\ \A a \in N : a # cur => h1[a] = h[a]
      /\ s1(cur) = sz(cur) /\ h1[cur].next = x /\ s1(x) = m /\ h1[x].next = link
      /\ \A a \in Addr : a # cur /\ a # x => h1[a] = h[a]
      /\ h1 \in Headers /\ Ascends(h1)
  BY <1>1, <1>2 DEF Linked
<1>4. \A c \in blocks : c # b => c.addr # x /\ c.addr \notin N
  BY FreedOutside
<1>5. \A c : c \in B <=> c \in blocks /\ c # b
  OBVIOUS
<1>6. /\ \A a, c \in N : a < c => a + sz(a) <= c
      /\ \A c \in blocks : sz(c.addr) = c.size /\ c.addr + c.size <= UNITS + 1
      /\ \A a \in N, c \in blocks : a + sz(a) <= c.addr \/ c.addr + c.size <= a
      /\ \A c \in blocks : c # b => x + n <= c.addr \/ c.addr + c.size <= x
  BY DEF Sound, Apart
<1>7. \A a \in N : s1(a) = sz(a)
  BY <1>3
<1> DEFINE Plain == m = n /\ link = next /\ U = {}
           Joined == /\ next # 0 /\ x + n = next /\ m = n + sz(next)
                     /\ link = h[next].next /\ U = {next}
<1>8. Plain \/ Joined
  BY DEF Joins
<1>a. \A a : a \in M <=> (a \in N \/ a = x) /\ a \notin U
  BY DEF Put
<1> HIDE DEF B, M
<1>9. IsList(M, h1, first)
  <2>1. cur < x /\ (next = NULL \/ x < next) /\ next # cur
    <3>1. next # 0 => next \in 1..UNITS /\ x < next
      BY <1>1, <1>2
    <3> QED BY <1>1, <3>1 DEF NULL
  <2>2. CASE Plain
    <3>1. IsList(N \cup {x}, h1, first)
      BY <1>1, <1>3, <2>1, <2>2, PutIn, SMTT(30) DEF Good
    <3>2. M = N \cup {x}
      BY <1>a, <2>2
    <3> QED BY <3>1, <3>2
  <2>3. CASE Joined
    <3> DEFINE h0 == [h1 EXCEPT ![x] = [size |-> 0, next |-> next]]
               F == N \cup {x}
    <3>1. next \in N /\ next \in Places /\ next # x /\ next # cur /\ cur # x
      BY <1>1, <1>2, <2>1, <2>3 DEF Places
    <3>2. SetHeader(h0, h1, x, 0, next) /\ 0 \in 0..UNITS
      BY <1>1 DEF SetHeader
    <3> HIDE DEF h0
    <3>3. h0[x].next = next /\ \A c \in Addr : c # x => h0[c] = h1[c]
      BY <1>1, <1>3, <3>1, <3>2, WriteHeader
    <3>4. h0[cur].next = x /\ \A a \in N : a # cur => h0[a].next = h[a].next
      BY <1>1, <1>2, <1>3, <3>1, <3>3
    <3>5. IsList(F, h0, first)
      <4>1. /\ x \in Addr /\ cur < x /\ (h[cur].next = NULL \/ x < h[cur].next)
            /\ h0[cur].next = x /\ h0[x].next = h[cur].next
            /\ \A a \in N : a # cur => h0[a].next = h[a].next
            /\ IsList(N, h, first)
        BY <1>1, <2>1, <3>3, <3>4 DEF Good
      <4> HIDE DEF x
      <4>2. IsList(N \cup {x}, h0, first)
        BY <4>1, PutIn
      <4> QED BY <4>2
    <3>6. h1[x].next = h0[next].next
      BY <1>1, <1>3, <2>3, <3>1, <3>3
    <3>7. \A a \in F : a # x => h1[a].next = h0[a].next
      BY <1>1, <3>3
    <3>8. x \in F /\ next \in F
      BY <3>1
    <3> HIDE DEF F
    <3>9. IsList(F \ {next}, h1, first)
      BY <3>3, <3>5, <3>6, <3>7, <3>8, TakeOut
    <3>10. M = F \ {next}
      BY <1>a, <2>3 DEF F
    <3> QED BY <3>9, <3>10
  <2> QED BY <1>8, <2>2, <2>3
<1>10. \A a \in M : a \in N \/ a = x
  BY <1>a
<1>11. /\ m \in 1..UNITS /\ x + m <= UNITS + 1 /\ n <= m
       /\ \A a \in M : a # x /\ ~(a <= cur) => x + m <= a
       /\ \A c \in blocks : c # b => x + m <= c.addr \/ c.addr + c.size <= x
       /\ \A u \in Int : x <= u /\ u < x + m =>
            \/ x <= u /\ u < x + n
            \/ next \in N /\ next <= u /\ u < next + sz(next)
       /\ \A a \in N : a \notin M => x <= a /\ a + sz(a) <= x + m
  <2>1. CASE Plain
    <3>1. \A a \in N : a \in M
      BY <1>a, <2>1
    <3> QED BY <1>1, <1>2, <1>6, <1>10, <2>1, <3>1
  <2>2. CASE Joined
    <3>1. next \in N /\ next \in 1..UNITS /\ sz(next) \in 1..UNITS
          /\ next + sz(next) <= UNITS + 1 /\ x + m = next + sz(next)
      BY <1>1, <1>2, <2>2
    <3>2. m \in 1..UNITS /\ x + m <= UNITS + 1 /\ n <= m
      BY <1>1, <2>2, <3>1
    <3>3. ASSUME NEW a \in M, a # x, ~(a <= cur)
          PROVE  x + m <= a
      <4>1. a \in N /\ a # next /\ next <= a
        BY <1>2, <1>a, <2>2, <3>3
      <4> QED BY <1>1, <1>6, <3>1, <4>1
    <3>4. ASSUME NEW c \in blocks, c # b
          PROVE  x + m <= c.addr \/ c.addr + c.size <= x
      <4>1. x + n <= c.addr \/ c.addr + c.size <= x
        BY <1>6, <3>4
      <4>2. next + sz(next) <= c.addr \/ c.addr + c.size <= next
        BY <1>6, <3>1
      <4> QED BY <1>1, <2>2, <3>1, <4>1, <4>2
    <3>5. ASSUME NEW u \in Int, x <= u, u < x + m
          PROVE  \/ x <= u /\ u < x + n
                 \/ next \in N /\ next <= u /\ u < next + sz(next)
      BY <1>1, <2>2, <3>1, <3>5
    <3>6. ASSUME NEW a \in N, a \notin M
          PROVE  x <= a /\ a + sz(a) <= x + m
      <4>1. a = next
        BY <1>a, <2>2, <3>6
      <4> QED BY <1>1, <2>2, <3>1, <4>1
    <3> QED BY <3>2, <3>3, <3>4, <3>5, <3>6
  <2> QED BY <1>8, <2>1, <2>2
<1>12. x \in M /\ \A a \in M : a # x => a \in N /\ s1(a) = sz(a)
  <2>1. x \in M
    BY <1>2, <1>8, <1>a
  <2> QED BY <1>7, <1>10, <2>1
<1> HIDE DEF x, n, sz, s1, next, Plain, Joined
<1>13. Good(h1, M, first, B)
  <2>1. ASSUME NEW a \in M
        PROVE  s1(a) >= 1 /\ a + s1(a) <= UNITS + 1
    <3>1. CASE a = x
      BY <1>3, <1>11, <3>1
    <3>2. CASE a # x
      BY <1>1, <1>12, <3>2
    <3> QED BY <3>1, <3>2
  <2>2. InHeap(h1, M)
    BY <2>1 DEF InHeap, s1
  <2>3. B \subseteq Block /\ first \in Addr
    BY <1>5 DEF Good
  <2> QED BY <1>3, <1>9, <2>2, <2>3 DEF Good
<1>14. Sound(h1, M, B)
  <2>1. ASSUME NEW a \in M, NEW c \in M, a < c
        PROVE  a + s1(a) <= c
    <3>1. CASE a = x
      <4>1. c # x /\ c \in N /\ c \in 1..UNITS
        BY <1>1, <1>12, <2>1, <3>1
      <4>2. ~(c <= cur)
        BY <1>1, <1>2, <2>1, <3>1, <4>1
      <4> QED BY <1>3, <1>11, <3>1, <4>1, <4>2
    <3>2. CASE a # x /\ c = x
      <4>1. a \in N /\ a \in 1..UNITS /\ s1(a) = sz(a)
        BY <1>1, <1>12, <3>2
      <4>2. a <= cur
        BY <1>1, <1>11, <2>1, <3>2, <4>1
      <4> QED BY <1>2, <3>2, <4>1, <4>2
    <3>3. CASE a # x /\ c # x
      BY <1>6, <1>12, <2>1, <3>3
    <3> QED BY <3>1, <3>2, <3>3
  <2>2. ASSUME NEW c \in B
        PROVE  h1[c.addr].size = c.size /\ c.addr + c.size <= UNITS + 1
    <3>1. c \in blocks /\ c.addr # x /\ c.addr # cur /\ c.addr \in Addr
      BY <1>1, <1>4, <1>5
    <3>2. h1[c.addr] = h[c.addr]
      BY <1>3, <3>1
    <3> QED BY <1>6, <3>1, <3>2 DEF sz
  <2>3. ASSUME NEW a \in M, NEW c \in B
        PROVE  a + s1(a) <= c.addr \/ c.addr + c.size <= a
    <3>1. CASE a = x
      BY <1>3, <1>5, <1>11, <3>1
    <3>2. CASE a # x
      BY <1>5, <1>6, <1>12, <3>2
    <3> QED BY <3>1, <3>2
  <2>4. \A c, d \in B : c # d => Apart(c.addr, c.size, d.addr, d.size)
    BY <1>5 DEF Sound
  <2> QED BY <2>1, <2>2, <2>3, <2>4 DEF Sound, Apart, s1
<1>15. ASSUME NEW u \in Covers(h1, M, B)
       PROVE  u \in Covers(h, N, blocks)
  <2>0. u \in Addr /\ u \in Int
    BY DEF Covers, Addr
  <2>1. CASE \E a \in M : a <= u /\ u < a + s1(a)
    <3>1. PICK a \in M : a <= u /\ u < a + s1(a)
      BY <2>1
    <3>2. CASE a # x
      BY <1>12, <2>0, <3>1, <3>2 DEF Covers, sz
    <3>3. CASE a = x
      <4>1. \/ x <= u /\ u < x + n
            \/ next \in N /\ next <= u /\ u < next + sz(next)
        BY <1>3, <1>11, <2>0, <3>1, <3>3
      <4> QED BY <2>0, <4>1 DEF Covers, x, n, sz
    <3> QED BY <3>2, <3>3
  <2>2. CASE \E c \in B : c.addr <= u /\ u < c.addr + c.size
    BY <1>5, <2>0, <2>2 DEF Covers
  <2> QED BY <1>15, <2>1, <2>2 DEF Covers, s1
<1>16. ASSUME NEW u \in Covers(h, N, blocks)
       PROVE  u \in Covers(h1, M, B)
  <2>0. u \in Addr /\ u \in Int
    BY DEF Covers, Addr
  <2>a. x <= u /\ u < x + m => u \in Covers(h1, M, B)
    BY <1>3, <1>12, <2>0 DEF Covers, s1
  <2>1. CASE \E a \in N : a <= u /\ u < a + sz(a)
    <3>1. PICK a \in N : a <= u /\ u < a + sz(a)
      BY <2>1
    <3>2. CASE a \in M
      <4>1. s1(a) = sz(a)
        BY <1>7
      <4> QED BY <2>0, <3>1, <3>2, <4>1 DEF Covers, s1
    <3>3. CASE a \notin M
      <4>1. x <= u /\ u < x + m
        BY <1>1, <1>11, <2>0, <3>1, <3>3
      <4> QED BY <2>a, <4>1
    <3> QED BY <3>2, <3>3
  <2>2. CASE \E c \in B : c.addr <= u /\ u < c.addr + c.size
    BY <2>0, <2>2 DEF Covers
  <2>3. CASE x <= u /\ u < x + n
    BY <1>1, <1>11, <2>0, <2>a, <2>3
  <2> QED BY <1>5, <1>16, <2>1, <2>2, <2>3 DEF Covers, sz, x, n
<1> QED
  BY <1>13, <1>14, <1>15, <1>16 DEF B, M

(* What InsertBehind writes.                                               *)
LEMMA BehindWrites ==
  ASSUME Good(hdr, Nodes, freelist, live), Sound(hdr, Nodes, live),
         NEW b \in live, NEW cur \in Nodes, cur < b.addr, Behind(hdr, Nodes, b, cur)
  PROVE  LET block  == b.addr
             next   == hdr[cur].next
             after  == next # NULL /\ block + hdr[block].size = next
             before == cur + hdr[cur].size = block
             m      == hdr[block].size + IF after THEN hdr[next].size ELSE 0
             link   == IF after THEN hdr[next].next ELSE next
             h1     == InsertBehind(block, cur)
         IN  /\ before => Grown(h1, hdr, cur, block, m)
             /\ ~before => Linked(h1, hdr, cur, block, m, link)
<1> DEFINE block  == b.addr
           next   == hdr[cur].next
           after  == next # NULL /\ block + hdr[block].size = next
           before == cur + hdr[cur].size = block
           m      == hdr[block].size + IF after THEN hdr[next].size ELSE 0
           link   == IF after THEN hdr[next].next ELSE next
           L      == IF before /\ next = NULL THEN hdr[block].next ELSE link
           h1     == InsertBehind(block, cur)
           h0     == [hdr EXCEPT ![block] = [size |-> m, next |-> L]]
<1>1. /\ UNITS \in Nat /\ block \in Addr /\ block \in 1..UNITS
      /\ b.size \in 1..UNITS /\ cur \in Addr /\ cur \in 1..UNITS
      /\ hdr[cur].size \in 1..UNITS /\ hdr \in Headers /\ next \in 0..UNITS
      /\ \A a \in Nodes : /\ a \in 1..UNITS /\ hdr[a].size \in 1..UNITS
                          /\ hdr[a].next \in 0..UNITS
                          /\ a + hdr[a].size <= UNITS + 1
                          /\ (hdr[a].next # 0 => a < hdr[a].next)
      /\ hdr[block].next \in 0..UNITS
      /\ (hdr[block].next = 0 \/ block < hdr[block].next)
  BY Numbers DEF Good
<1>2. /\ hdr[block].size = b.size /\ block + b.size <= UNITS + 1
      /\ next # 0 => next \in Nodes /\ block + b.size <= next
  BY DEF Behind
<1>3. block # cur
  BY <1>1
<1>4. m \in 0..UNITS /\ block + m <= UNITS + 1
  <2>1. CASE after
    <3>1. next \in Nodes /\ m = b.size + hdr[next].size /\ block + b.size = next
      BY <1>2, <2>1 DEF NULL
    <3> HIDE DEF m, next
    <3> QED BY <1>1, <3>1
  <2>2. CASE ~after
    <3>1. m = b.size
      BY <1>1, <1>2, <2>2
    <3> QED BY <1>1, <1>2, <3>1
  <2> QED BY <2>1, <2>2
<1>5. L \in 0..UNITS /\ (L = 0 \/ block < L)
  <2>1. link \in 0..UNITS /\ (link = 0 \/ block < link)
    <3>1. CASE after
      <4>1. next \in Nodes /\ link = hdr[next].next /\ block + b.size = next
        BY <1>2, <3>1 DEF NULL
      <4> HIDE DEF link, next
      <4> QED BY <1>1, <4>1
    <3>2. CASE ~after
      <4>1. link = next
        BY <3>2
      <4> HIDE DEF next, link
      <4>2. next # 0 => block < next
        BY <1>1, <1>2
      <4> QED BY <1>1, <4>1, <4>2
    <3> QED BY <3>1, <3>2
  <2> HIDE DEF link
  <2>2. CASE before /\ next = NULL
    BY <1>1, <2>2
  <2>3. CASE ~(before /\ next = NULL)
    BY <2>1, <2>3
  <2> QED BY <2>2, <2>3
<1>6. Places = 0..UNITS
  BY <1>1 DEF Places, Addr, NULL
<1>7. SetHeader(h0, hdr, block, m, L)
  BY DEF SetHeader
<1>8. h1 = [h0 EXCEPT ![cur] = IF before
                               THEN [size |-> hdr[cur].size + m, next |-> next]
                               ELSE [size |-> hdr[cur].size, next |-> block]]
  <2>1. h1 = [hdr EXCEPT
                ![block] = [size |-> m, next |-> L],
                ![cur] = IF before THEN [size |-> hdr[cur].size + m, next |-> next]
                         ELSE [size |-> hdr[cur].size, next |-> block]]
    BY DEF InsertBehind
  <2> HIDE DEF m, L, before, block, next
  <2> QED BY <1>1, <1>3, <2>1 DEF Headers
<1> HIDE DEF m, link, L, h0, h1, block
<1>9. /\ h0 \in Headers /\ h0[block].size = m /\ h0[block].next = L
      /\ \A c \in Addr : c # block => h0[c] = hdr[c]
  BY <1>1, <1>4, <1>5, <1>6, <1>7, WriteHeader
<1>10. h0[cur] = hdr[cur]
  BY <1>1, <1>3, <1>9
<1>11. ASSUME NEW a \in Addr
       PROVE  h0[a].next \in Places /\ (h0[a].next = NULL \/ a < h0[a].next)
  <2>1. CASE a = block
    BY <1>5, <1>6, <1>9, <2>1 DEF NULL
  <2>2. CASE a # block
    BY <1>9, <2>2 DEF Good, Ascends
  <2> QED BY <2>1, <2>2
<1>12. ASSUME before
       PROVE  Grown(h1, hdr, cur, block, m)
  <2> DEFINE v == hdr[cur].size + m
  <2>1. v \in 0..UNITS
    <3>1. /\ cur + hdr[cur].size = block /\ block + m <= UNITS + 1 /\ m \in Int
          /\ cur \in 1..UNITS /\ hdr[cur].size \in 1..UNITS /\ m >= 0
      BY <1>1, <1>4, <1>12
    <3> HIDE DEF before, next, after
    <3> QED BY <1>1, <3>1
  <2>2. SetHeader(h1, h0, cur, v, next)
    BY <1>8, <1>12 DEF SetHeader
  <2> HIDE DEF v, before, next
  <2>3. /\ h1 \in Headers /\ h1[cur].size = v /\ h1[cur].next = next
        /\ \A c \in Addr : c # cur => h1[c] = h0[c]
    BY <1>1, <1>6, <1>9, <2>1, <2>2, WriteHeader
  <2>4. Ascends(h1)
    <3>1. \A a \in Addr : h1[a].next = h0[a].next
      BY <1>10, <2>3 DEF next
    <3> QED BY <1>11, <3>1 DEF Ascends
  <2>5. \A a \in Addr : a # cur /\ a # block => h1[a] = hdr[a]
    BY <1>9, <2>3
  <2> QED BY <1>10, <2>3, <2>4, <2>5 DEF Grown, v, next
<1>13. ASSUME ~before
       PROVE  Linked(h1, hdr, cur, block, m, link)
  <2>1. block \in Places
    BY <1>1, <1>6
  <2>2. SetHeader(h1, h0, cur, hdr[cur].size, block) /\ hdr[cur].size \in 0..UNITS
    BY <1>1, <1>8, <1>13 DEF SetHeader
  <2>3. L = link
    BY <1>13 DEF L
  <2> HIDE DEF before
  <2>4. /\ h1 \in Headers /\ h1[cur].next = block /\ h1[cur].size = hdr[cur].size
        /\ \A c \in Addr : c # cur => h1[c] = h0[c]
    BY <1>1, <1>9, <2>1, <2>2, WriteHeader
  <2>5. Ascends(h1)
    <3>1. ASSUME NEW a \in Addr
          PROVE  h1[a].next \in Places /\ (h1[a].next = NULL \/ a < h1[a].next)
      <4>1. CASE a = cur
        <5>1. cur < block
          BY DEF block
        <5> QED BY <2>1, <2>4, <4>1, <5>1
      <4>2. CASE a # cur
        BY <1>11, <2>4, <4>2
      <4> QED BY <4>1, <4>2
    <3> QED BY <3>1 DEF Ascends
  <2>6. h1[block].size = m /\ h1[block].next = link
    BY <1>1, <1>3, <1>9, <2>3, <2>4
  <2>7. \A a \in Addr : a # cur /\ a # block => h1[a] = hdr[a]
    BY <1>9, <2>4
  <2> QED BY <1>10, <2>4, <2>5, <2>6, <2>7 DEF Linked
<1> QED
  BY <1>12, <1>13 DEF h1, m, link, block

(* The block lies below the list: its header is written and it is lost.    *)
LEMMA BelowKeeps ==
  ASSUME Good(hdr, Nodes, freelist, live), Sound(hdr, Nodes, live),
         NEW b \in live, NEW cur \in Nodes, b.addr < cur
  PROVE  LET h1 == InsertBefore(b.addr, cur)
             B  == live \ {b}
         IN  /\ Good(h1, Nodes, freelist, B) /\ Sound(h1, Nodes, B)
             /\ Covers(h1, Nodes, B) \subseteq Covers(hdr, Nodes, live)
<1> DEFINE h1 == InsertBefore(b.addr, cur)
           B  == live \ {b}
           block == b.addr
           joins == block + hdr[block].size = cur
<1>1. /\ UNITS \in Nat /\ block \in Addr /\ block \in 1..UNITS
      /\ b.size \in 1..UNITS /\ cur \in Addr /\ cur \in 1..UNITS
      /\ hdr[cur].size \in 1..UNITS /\ hdr \in Headers
      /\ cur + hdr[cur].size <= UNITS + 1
      /\ \A a \in Nodes : a \in Addr
      /\ \A c \in live : c.addr \in Addr
  BY Numbers DEF Good
<1>2. hdr[block].size = b.size
  BY DEF Sound
<1>3. /\ block \notin Nodes
      /\ \A c \in live : c # b => c.addr # block
  BY FreedOutside
<1>4. Places = 0..UNITS
  BY <1>1 DEF Places, Addr, NULL
<1>5. /\ h1 \in Headers /\ \A c \in Addr : c # block => h1[c] = hdr[c]
      /\ h1[block].next = 0 \/ h1[block].next = cur
  <2>1. CASE joins
    <3> DEFINE v == hdr[block].size + hdr[cur].size
    <3>1. v \in 0..UNITS /\ NULL \in Places /\ NULL = 0
      BY <1>1, <1>2, <2>1 DEF Places, NULL
    <3>2. SetHeader(h1, hdr, block, v, NULL)
      BY <2>1 DEF SetHeader, InsertBefore
    <3> HIDE DEF v, h1, block
    <3> QED BY <1>1, <3>1, <3>2, WriteHeader
  <2>2. CASE ~joins
    <3>1. cur \in Places
      BY <1>1, <1>4
    <3>2. SetNext(h1, hdr, block, cur)
      BY <2>2 DEF SetNext, InsertBefore
    <3> HIDE DEF h1, block
    <3> QED BY <1>1, <3>1, <3>2, WriteNext
  <2> QED BY <2>1, <2>2
<1> HIDE DEF h1, B
<1>6. \A a \in Nodes : h1[a] = hdr[a]
  BY <1>1, <1>3, <1>5
<1>7. Ascends(h1)
  <2>1. ASSUME NEW a \in Addr
        PROVE  h1[a].next \in Places /\ (h1[a].next = NULL \/ a < h1[a].next)
    <3>1. CASE a = block
      BY <1>1, <1>4, <1>5, <3>1 DEF NULL
    <3>2. CASE a # block
      BY <1>5, <3>2 DEF Good, Ascends
    <3> QED BY <3>1, <3>2
  <2> QED BY <2>1 DEF Ascends
<1>8. \A c : c \in B <=> c \in live /\ c # b
  BY DEF B
<1>9. Good(h1, Nodes, freelist, B)
  <2>1. IsList(Nodes, h1, freelist) /\ InHeap(h1, Nodes)
    BY <1>6 DEF Good, IsList, InHeap
  <2>2. B \subseteq Block /\ freelist \in Addr
    BY <1>8 DEF Good
  <2> QED BY <1>5, <1>7, <2>1, <2>2 DEF Good
<1>10. Sound(h1, Nodes, B)
  <2>1. \A c \in B : h1[c.addr] = hdr[c.addr] /\ c \in live
    BY <1>1, <1>3, <1>5, <1>8
  <2> QED BY <1>6, <1>8, <2>1 DEF Sound
<1>11. Covers(h1, Nodes, B) \subseteq Covers(hdr, Nodes, live)
  BY <1>6, <1>8 DEF Covers
<1> QED
  BY <1>9, <1>10, <1>11 DEF h1, B

(* do_free keeps the heap sound, unless it merges on both sides.           *)
LEMMA FreeKeeps ==
  ASSUME IInv, NEW b \in live, do_free(b)
  PROVE  Keeps
<1>0. state = "sound"
  BY DEF do_free
<1>1. Good(hdr, Nodes, freelist, live) /\ Sound(hdr, Nodes, live)
  BY <1>0, InvGood
<1>2. PICK cur \in Nodes : Freed(b, cur)
  BY FreeFinds
<1> DEFINE B == live \ {b}
           block == b.addr
           next == hdr[cur].next
           after == next # NULL /\ block + hdr[block].size = next
           before == cur + hdr[cur].size = block
           m == hdr[block].size + IF after THEN hdr[next].size ELSE 0
           link == IF after THEN hdr[next].next ELSE next
           h1 == InsertBehind(block, cur)
           C == Covers(hdr, Nodes, live)
<1>3. /\ StopsAt(block, cur) /\ (freelist < block => cur < block)
      /\ live' = B /\ freelist' = freelist
      /\ cur < block => hdr' = Relevant(h1, freelist, B)
      /\ ~(cur < block) => hdr' = Relevant(InsertBefore(block, cur), freelist, B)
      /\ MergesBoth(block, cur) => state' = "merged on both sides"
      /\ ~MergesBoth(block, cur) => state' = "sound"
  BY <1>0, <1>2 DEF Freed
<1>4. /\ UNITS \in Nat /\ cur \in 1..UNITS /\ block \in 1..UNITS
      /\ freelist \in Nodes /\ \A a \in Nodes : a \in 1..UNITS
      /\ next \in 0..UNITS /\ (next # 0 => next \in Nodes)
      /\ hdr[block].size = b.size
  BY <1>1, Numbers DEF Sound
<1>5. block \notin Nodes
  BY <1>1, FreedOutside
<1>6. ASSUME NEW h, NEW M, Good(h, M, freelist, B), Sound(h, M, B),
             Covers(h, M, B) \subseteq C,
             C \subseteq Covers(h, M, B) \/ block < freelist,
             hdr' = Relevant(h, freelist, B), state' = "sound"
      PROVE  Keeps
  <2> HIDE DEF B, C
  <2>1. /\ Good(hdr, Nodes, freelist, live)' /\ Sound(hdr, Nodes, live)'
        /\ Covers(hdr, Nodes, live)' = Covers(h, M, B)
    BY <1>3, <1>6, NextHeap
  <2>2. state' \in Outcomes /\ Overlaps'
    BY <1>6 DEF Outcomes, Overlaps
  <2>3. IInv'
    BY <2>1, <2>2, GoodInv
  <2>4. b \in live \ live'
    BY <1>3 DEF B
  <2> QED BY <1>6, <2>1, <2>3, <2>4 DEF Keeps, C
<1>7. CASE ~(cur < block)
  <2>0. block # cur
    BY <1>5
  <2>1. block < cur /\ ~MergesBoth(block, cur)
    <3>1. ~MergesBoth(block, cur)
      BY <1>7 DEF MergesBoth
    <3> HIDE DEF block
    <3> QED BY <1>4, <1>7, <2>0, <3>1
  <2>2. block < freelist
    <3>1. ~(freelist < block) /\ freelist # block
      BY <1>3, <1>4, <1>5, <1>7
    <3>2. freelist \in Int /\ block \in Int
      BY <1>4
    <3> HIDE DEF block
    <3> QED BY <3>1, <3>2
  <2> DEFINE h == InsertBefore(block, cur)
  <2>3. /\ Good(h, Nodes, freelist, B) /\ Sound(h, Nodes, B)
        /\ Covers(h, Nodes, B) \subseteq C
    BY <1>1, <2>1, BelowKeeps
  <2> HIDE DEF h, B, C
  <2> QED BY <1>3, <1>6, <1>7, <2>1, <2>2, <2>3 DEF h
<1>8. CASE cur < block
  <2>1. next = 0 \/ block < next
    BY <1>3, <1>4, <1>8 DEF StopsAt, NULL
  <2>2. Behind(hdr, Nodes, b, cur)
    BY <1>1, <1>8, <2>1, FreedBehind
  <2>3. /\ before => Grown(h1, hdr, cur, block, m)
        /\ ~before => Linked(h1, hdr, cur, block, m, link)
    BY <1>1, <1>8, <2>2, BehindWrites
  <2>4. MergesBoth(block, cur) <=> before /\ after
    BY <1>4, <1>8 DEF MergesBoth
  <2>5. hdr' = Relevant(h1, freelist, B)
    BY <1>3, <1>8
  <2> HIDE DEF h1
  <2>6. CASE before /\ after
    <3>1. next \in Nodes /\ m = b.size + hdr[next].size /\ block + b.size = next
      BY <1>4, <2>6 DEF NULL
    <3>2. Grown(h1, hdr, cur, block, b.size + hdr[next].size)
      BY <2>3, <2>6, <3>1
    <3>3. /\ Good(h1, Nodes, freelist, B)
          /\ cur < next /\ next < cur + h1[cur].size
          /\ Covers(h1, Nodes, B) \subseteq C /\ C \subseteq Covers(h1, Nodes, B)
      <4>1. next = hdr[cur].next /\ cur + hdr[cur].size = b.addr /\ cur < b.addr
            /\ b.addr + b.size = next /\ next \in Nodes
        BY <1>8, <2>6, <3>1
      <4> HIDE DEF next
      <4> QED BY <1>1, <2>2, <3>2, <4>1, MergeKeeps
    <3> HIDE DEF B, C, next
    <3>4. /\ Good(hdr, Nodes, freelist, live)' /\ Nodes' = Nodes
          /\ \A a \in Nodes : hdr'[a] = h1[a]
          /\ Covers(hdr, Nodes, live)' = Covers(h1, Nodes, B)
      BY <1>3, <2>5, <3>3, NextHeap
    <3>5. state' = "merged on both sides"
      BY <1>3, <2>4, <2>6
    <3>6. state' \in Outcomes /\ Overlaps'
      <4>1. cur \in Nodes' /\ next \in Nodes' /\ next < cur + hdr'[cur].size
        BY <3>1, <3>3, <3>4
      <4> QED BY <3>3, <3>5, <4>1 DEF Outcomes, Overlaps
    <3>7. IInv'
      BY <3>4, <3>5, <3>6, GoodInv
    <3> QED BY <3>3, <3>4, <3>7 DEF Keeps, C
  <2>7. CASE before /\ ~after
    <3>1. m = b.size
      <4>1. b.size \in Nat
        BY <1>1, Numbers
      <4> QED BY <1>4, <2>7, <4>1
    <3>2. Grown(h1, hdr, cur, block, b.size)
      BY <2>3, <2>7, <3>1
    <3>3. /\ Good(h1, Nodes, freelist, B) /\ Sound(h1, Nodes, B)
          /\ Covers(h1, Nodes, B) \subseteq C /\ C \subseteq Covers(h1, Nodes, B)
      BY <1>1, <1>8, <2>2, <2>7, <3>2, GrowKeeps
    <3>4. state' = "sound"
      BY <1>3, <2>4, <2>7
    <3> HIDE DEF B, C
    <3> QED BY <1>6, <2>5, <3>3, <3>4
  <2>8. CASE ~before
    <3> DEFINE U == IF after THEN {next} ELSE {}
               M == Put(Nodes, block, U)
    <3>1. Joins(hdr, Nodes, b, cur, m, link, U)
      <4>1. CASE after
        BY <1>4, <4>1 DEF NULL, Joins
      <4>2. CASE ~after
        <5>1. b.size \in Nat
          BY <1>1, Numbers
        <5>2. m = b.size
          BY <1>4, <4>2, <5>1
        <5> QED BY <4>2, <5>2 DEF Joins
      <4> QED BY <4>1, <4>2
    <3>2. Linked(h1, hdr, cur, block, m, link)
      BY <2>3, <2>8
    <3> HIDE DEF U, m, link
    <3>4. /\ Good(h1, M, freelist, B) /\ Sound(h1, M, B)
          /\ Covers(h1, M, B) \subseteq C /\ C \subseteq Covers(h1, M, B)
      BY <1>1, <1>8, <2>2, <3>1, <3>2, LinkKeeps
    <3> HIDE DEF M
    <3>5. state' = "sound"
      BY <1>3, <2>4, <2>8
    <3> HIDE DEF B, C
    <3> QED BY <1>6, <2>5, <3>4, <3>5
  <2> QED BY <2>6, <2>7, <2>8
<1> QED
  BY <1>7, <1>8

-----------------------------------------------------------------------------
(* The invariant                                                           *)

(* createheap leaves one free block.                                       *)
LEMMA InitGood ==
  ASSUME Init
  PROVE  IInv
<1>1. /\ UNITS \in Nat /\ 1 \in 1..UNITS /\ Addr = 1..UNITS /\ 1 \in Addr
      /\ Places = 0..UNITS
  BY DEF Addr, Places, NULL
<1> DEFINE T == [size : 0..UNITS, next : Places]
           one == [size |-> UNITS, next |-> NULL]
<1>2. one \in T /\ Unused \in T /\ one.next = 0 /\ Unused.next = 0 /\ one.size = UNITS
  BY <1>1 DEF Unused, NULL
<1>3. hdr = [a \in Addr |-> IF a = 1 THEN one ELSE Unused]
  BY DEF Init
<1> HIDE DEF T, one
<1>4. /\ hdr \in [Addr -> T] /\ hdr[1].size = UNITS
      /\ \A a \in Addr : hdr[a].next = 0
  BY <1>1, <1>2, <1>3
<1>5. freelist = 1 /\ live = {} /\ state = "sound"
  BY DEF Init
<1>6. Ascends(hdr)
  BY <1>1, <1>4 DEF Ascends, NULL
<1>7. IsList({1}, hdr, 1)
  BY <1>1, <1>4 DEF IsList, NULL
<1>8. Nodes = {1}
  BY <1>1, <1>5, <1>6, <1>7, ListUnique DEF Nodes, FreeChain
<1>9. InHeap(hdr, Nodes)
  BY <1>1, <1>4, <1>8 DEF InHeap
<1>10. Sound(hdr, Nodes, live)
  BY <1>5, <1>8 DEF Sound
<1>11. TypeOK
  <2>1. hdr \in [Addr -> [size : 0..UNITS, next : {NULL} \cup Addr]]
    BY <1>4 DEF T, Places
  <2> QED BY <1>1, <1>5, <2>1 DEF TypeOK, Outcomes
<1>12. Overlaps
  BY <1>5 DEF Overlaps
<1> QED
  BY <1>6, <1>9, <1>10, <1>11, <1>12 DEF IInv

(* Every step keeps the invariant, and units only leave the heap.          *)
LEMMA NextKeeps ==
  ASSUME IInv, Next
  PROVE  Keeps
BY MallocKeeps, FreeKeeps DEF Next, sys_malloc, sys_free

LEMMA StutterKeeps ==
  ASSUME IInv, UNCHANGED vars
  PROVE  IInv'
BY DEF vars, IInv, TypeOK, Ascends, InHeap, Sound, Overlaps, Nodes, FreeChain

(* Lists of free blocks, blocks handed out and headers stay as described   *)
(* by IInv in every reachable heap (do_malloc, do_free).                   *)
THEOREM Inductive == Spec => []IInv
<1>1. Init => IInv
  BY InitGood
<1>2. IInv /\ [Next]_vars => IInv'
  BY NextKeeps, StutterKeeps DEF Keeps
<1> QED
  BY <1>1, <1>2, PTL DEF Spec

(* Headers hold units and links of the heap.                               *)
THEOREM TypeCorrect == Spec => []TypeOK
<1>1. IInv => TypeOK
  BY DEF IInv
<1> QED
  BY <1>1, Inductive, PTL

(* The free list ascends and lies within the heap, so that the loops of    *)
(* do_malloc and do_free end.                                              *)
THEOREM ListAscends == Spec => []FreeListAscends
<1>1. ASSUME IInv
      PROVE  FreeListAscends
  <2> DEFINE ch == FreeChain
  <2>1. Good(hdr, Nodes, freelist, live)
    BY <1>1, InvLists
  <2>2. freelist \in Addr /\ Ascends(hdr)
    BY <2>1 DEF Good
  <2>3. IsChain(ch, hdr, freelist)
    BY <2>2, ChainIs DEF FreeChain
  <2>4. Nodes = Range(ch)
    BY DEF Nodes
  <2>5. /\ UNITS \in Nat
        /\ \A a \in Nodes : /\ a \in 1..UNITS /\ hdr[a].size \in 1..UNITS
                            /\ a + hdr[a].size <= UNITS + 1
    BY <2>1, Numbers
  <2> HIDE DEF ch
  <2>6. ch \in Seq(Addr) /\ Len(ch) \in Nat /\ DOMAIN ch = 1..Len(ch)
    BY <2>3 DEF IsChain
  <2>7. \A i \in 1..(Len(ch) - 1) : ch[i] < ch[i + 1]
    BY <2>2, <2>3, ChainOrder
  <2>8. ASSUME NEW i \in 2..Len(ch)
        PROVE  ch[i - 1] < ch[i]
    <3>1. i - 1 \in 1..(Len(ch) - 1) /\ (i - 1) + 1 = i
      BY <2>6
    <3> QED BY <2>7, <3>1
  <2>9. ASSUME NEW i \in DOMAIN ch
        PROVE  Span(ch[i], hdr[ch[i]].size) \subseteq Addr
    <3>1. ch[i] \in Nodes
      BY <2>4, <2>6, RangeEquality
    <3> QED BY <2>5, <3>1 DEF Span, Addr
  <2> QED BY <2>8, <2>9 DEF FreeListAscends, ch
<1> QED
  BY <1>1, Inductive, PTL

(* The owners of unit u, with the free list ch.                            *)
Owners(ch, u) ==
  {<<"free", i>> : i \in {j \in DOMAIN ch : u \in Span(ch[j], hdr[ch[j]].size)}}
  \cup {<<"live", b.addr, b.size>> :
           b \in {c \in live : u \in Span(c.addr, c.size)}}

(* What the free list and the blocks are, by position.                     *)
LEMMA Positions ==
  ASSUME IInv, NEW ch, ch = FreeChain
  PROVE  /\ Len(ch) \in Nat /\ Len(ch) >= 1 /\ DOMAIN ch = 1..Len(ch)
         /\ ch[1] = freelist
         /\ \A i \in DOMAIN ch : /\ ch[i] \in Nodes /\ ch[i] \in 1..UNITS
                                 /\ hdr[ch[i]].size \in 1..UNITS
         /\ \A a \in Nodes : \E i \in DOMAIN ch : ch[i] = a
         /\ \A i, j \in DOMAIN ch : i < j => ch[i] < ch[j]
         /\ \A b \in live : b.addr \in 1..UNITS /\ b.size \in 1..UNITS
         /\ \A a, n, u \in Int : u \in Span(a, n) <=> a <= u /\ u < a + n
<1>1. Good(hdr, Nodes, freelist, live)
  BY InvLists
<1>2. freelist \in Addr /\ Ascends(hdr)
  BY <1>1 DEF Good
<1>3. IsChain(ch, hdr, freelist)
  BY <1>2, ChainIs DEF FreeChain
<1>4. Nodes = Range(ch)
  BY DEF Nodes
<1>5. /\ \A a \in Nodes : a \in 1..UNITS /\ hdr[a].size \in 1..UNITS
      /\ \A b \in live : b.addr \in 1..UNITS /\ b.size \in 1..UNITS
  BY <1>1, Numbers
<1>6. /\ ch \in Seq(Addr) /\ Len(ch) \in Nat /\ Len(ch) >= 1
      /\ DOMAIN ch = 1..Len(ch) /\ ch[1] = freelist
  BY <1>3 DEF IsChain
<1>7. \A i, j \in 1..Len(ch) : i < j => ch[i] < ch[j]
  BY <1>2, <1>3, ChainOrder
<1>8. Nodes = {ch[i] : i \in 1..Len(ch)}
  BY <1>4, <1>6, RangeEquality
<1>9. \A a, n, u \in Int : u \in Span(a, n) <=> a <= u /\ u < a + n
  BY DEF Span
<1>10. \A i \in 1..Len(ch) : ch[i] \in Nodes
  BY <1>8
<1>11. \A a \in Nodes : \E i \in 1..Len(ch) : ch[i] = a
  BY <1>8
<1> QED
  BY <1>5, <1>6, <1>7, <1>9, <1>10, <1>11

(* No unit has two owners in a sound heap.                                 *)
LEMMA SoundIsDisjoint ==
  ASSUME IInv, Sound(hdr, Nodes, live)
  PROVE  Disjoint
<1> DEFINE ch == FreeChain
<1>1. /\ Len(ch) \in Nat /\ DOMAIN ch = 1..Len(ch)
      /\ \A i \in DOMAIN ch : /\ ch[i] \in Nodes /\ ch[i] \in 1..UNITS
                              /\ hdr[ch[i]].size \in 1..UNITS
      /\ \A i, j \in DOMAIN ch : i < j => ch[i] < ch[j]
      /\ \A b \in live : b.addr \in 1..UNITS /\ b.size \in 1..UNITS
      /\ \A a, n, u \in Int : u \in Span(a, n) <=> a <= u /\ u < a + n
  BY Positions
<1>2. /\ \A a, c \in Nodes : a < c => a + hdr[a].size <= c
      /\ \A a \in Nodes, b \in live :
           a + hdr[a].size <= b.addr \/ b.addr + b.size <= a
      /\ \A b, c \in live : b # c =>
           b.addr + b.size <= c.addr \/ c.addr + c.size <= b.addr
  BY DEF Sound, Apart
<1> HIDE DEF ch
<1> SUFFICES ASSUME NEW u \in Addr,
                    NEW p \in Owners(ch, u), NEW q \in Owners(ch, u)
             PROVE  p = q
  BY DEF Disjoint, Owners, ch
<1>0. u \in Int
  BY DEF Addr
<1> DEFINE F(i) == i \in DOMAIN ch /\ ch[i] <= u /\ u < ch[i] + hdr[ch[i]].size
           L(b) == b \in live /\ b.addr <= u /\ u < b.addr + b.size
<1>3. ASSUME NEW o \in Owners(ch, u)
      PROVE  \/ \E i : F(i) /\ o = <<"free", i>>
             \/ \E b : L(b) /\ o = <<"live", b.addr, b.size>>
  <2>1. CASE \E i \in DOMAIN ch : /\ u \in Span(ch[i], hdr[ch[i]].size)
                                  /\ o = <<"free", i>>
    <3>1. PICK i \in DOMAIN ch : /\ u \in Span(ch[i], hdr[ch[i]].size)
                                 /\ o = <<"free", i>>
      BY <2>1
    <3>2. ch[i] \in Int /\ hdr[ch[i]].size \in Int
      BY <1>1
    <3>3. F(i)
      BY <1>0, <1>1, <3>1, <3>2
    <3> HIDE DEF F
    <3> QED BY <3>1, <3>3
  <2>2. CASE \E b \in live : /\ u \in Span(b.addr, b.size)
                             /\ o = <<"live", b.addr, b.size>>
    <3>1. PICK b \in live : /\ u \in Span(b.addr, b.size)
                            /\ o = <<"live", b.addr, b.size>>
      BY <2>2
    <3>2. b.addr \in Int /\ b.size \in Int
      BY <1>1
    <3>3. L(b)
      BY <1>0, <1>1, <3>1, <3>2
    <3> HIDE DEF L
    <3> QED BY <3>1, <3>3
  <2> QED BY <1>3, <2>1, <2>2 DEF Owners
<1>4. ASSUME NEW i, F(i), NEW j, F(j)
      PROVE  i = j
  <2>1. \A k, l \in DOMAIN ch : F(k) /\ F(l) => ~(k < l)
    <3> SUFFICES ASSUME NEW k \in DOMAIN ch, NEW l \in DOMAIN ch,
                        F(k), F(l), k < l
                 PROVE  FALSE
      OBVIOUS
    <3>1. ch[k] < ch[l] /\ ch[k] \in Nodes /\ ch[l] \in Nodes
      BY <1>1
    <3>2. ch[k] + hdr[ch[k]].size <= ch[l]
      BY <1>2, <3>1
    <3>3. ch[k] \in Int /\ ch[l] \in Int /\ hdr[ch[k]].size \in Int
      BY <1>1
    <3> QED BY <1>0, <3>2, <3>3
  <2>2. i \in Int /\ j \in Int /\ i \in DOMAIN ch /\ j \in DOMAIN ch
    BY <1>1, <1>4
  <2> HIDE DEF F
  <2> QED BY <1>4, <2>1, <2>2
<1>5. ASSUME NEW i, F(i), NEW b, L(b)
      PROVE  FALSE
  <2>1. ch[i] + hdr[ch[i]].size <= b.addr \/ b.addr + b.size <= ch[i]
    BY <1>1, <1>2, <1>5
  <2>2. ch[i] \in Int /\ hdr[ch[i]].size \in Int /\ b.addr \in Int /\ b.size \in Int
    BY <1>1, <1>5
  <2> QED BY <1>0, <1>5, <2>1, <2>2
<1>6. ASSUME NEW b, L(b), NEW c, L(c)
      PROVE  b = c
  <2>1. b # c => b.addr + b.size <= c.addr \/ c.addr + c.size <= b.addr
    BY <1>2, <1>6
  <2>2. b.addr \in Int /\ b.size \in Int /\ c.addr \in Int /\ c.size \in Int
    BY <1>1, <1>6
  <2> QED BY <1>0, <1>6, <2>1, <2>2
<1> HIDE DEF F, L
<1>7. CASE \E i : F(i) /\ p = <<"free", i>>
  BY <1>3, <1>4, <1>5, <1>7
<1>8. CASE \E b : L(b) /\ p = <<"live", b.addr, b.size>>
  BY <1>3, <1>5, <1>6, <1>8
<1> QED
  BY <1>3, <1>7, <1>8

(* Two owners of a unit.                                                   *)
LEMMA TwoOwners ==
  ASSUME NEW u \in Addr, NEW p \in Owners(FreeChain, u),
         NEW q \in Owners(FreeChain, u), p # q
  PROVE  ~Disjoint
BY DEF Disjoint, Owners

LEMMA OverlapIsShared ==
  ASSUME IInv
  PROVE  state \notin {"sound", "end of list"} => ~Disjoint
<1> DEFINE ch == FreeChain
<1>1. /\ Len(ch) \in Nat /\ Len(ch) >= 1 /\ DOMAIN ch = 1..Len(ch)
      /\ ch[1] = freelist
      /\ \A i \in DOMAIN ch : /\ ch[i] \in Nodes /\ ch[i] \in 1..UNITS
                              /\ hdr[ch[i]].size \in 1..UNITS
      /\ \A a \in Nodes : \E i \in DOMAIN ch : ch[i] = a
      /\ \A b \in live : b.addr \in 1..UNITS /\ b.size \in 1..UNITS
      /\ \A a, n, u \in Int : u \in Span(a, n) <=> a <= u /\ u < a + n
  BY Positions
<1> HIDE DEF ch
<1>2. ASSUME NEW i \in DOMAIN ch, NEW u \in Int,
             ch[i] <= u, u < ch[i] + hdr[ch[i]].size
      PROVE  <<"free", i>> \in Owners(ch, u)
  <2>1. ch[i] \in Int /\ hdr[ch[i]].size \in Int
    BY <1>1
  <2>2. u \in Span(ch[i], hdr[ch[i]].size)
    BY <1>1, <1>2, <2>1
  <2> QED BY <2>2 DEF Owners
<1>3. ASSUME NEW b \in live, NEW u \in Int, b.addr <= u, u < b.addr + b.size
      PROVE  <<"live", b.addr, b.size>> \in Owners(ch, u)
  <2>1. b.addr \in Int /\ b.size \in Int
    BY <1>1
  <2>2. u \in Span(b.addr, b.size)
    BY <1>1, <1>3, <2>1
  <2> QED BY <2>2 DEF Owners
<1>4. CASE state = "exact fit of the first block"
  <2>1. PICK b \in live : b.addr = freelist
    BY <1>4 DEF IInv, Overlaps
  <2>2. /\ 1 \in DOMAIN ch /\ ch[1] = freelist /\ freelist \in 1..UNITS
        /\ hdr[ch[1]].size \in 1..UNITS /\ b.size \in 1..UNITS
    BY <1>1
  <2>3. <<"free", 1>> \in Owners(ch, freelist)
    BY <1>2, <2>2
  <2>4. <<"live", b.addr, b.size>> \in Owners(ch, freelist)
    BY <1>3, <2>1, <2>2
  <2>5. <<"free", 1>> # <<"live", b.addr, b.size>>
    OBVIOUS
  <2>6. freelist \in Addr
    BY <2>2 DEF Addr
  <2> QED BY <2>3, <2>4, <2>5, <2>6, TwoOwners DEF ch
<1>5. CASE state = "merged on both sides"
  <2>1. PICK a \in Nodes, c \in Nodes : a < c /\ c < a + hdr[a].size
    BY <1>5 DEF IInv, Overlaps
  <2>2. PICK i \in DOMAIN ch : ch[i] = a
    BY <1>1
  <2>3. PICK j \in DOMAIN ch : ch[j] = c
    BY <1>1
  <2>4. a \in Int /\ c \in 1..UNITS /\ hdr[c].size \in 1..UNITS
    BY <1>1, <2>2, <2>3
  <2>5. i # j
    BY <2>1, <2>2, <2>3, <2>4
  <2>6. <<"free", i>> \in Owners(ch, c)
    BY <1>2, <2>1, <2>2, <2>4
  <2>7. <<"free", j>> \in Owners(ch, c)
    BY <1>2, <2>3, <2>4
  <2>8. <<"free", i>> # <<"free", j>>
    BY <2>5
  <2>9. c \in Addr
    BY <2>4 DEF Addr
  <2> QED BY <2>6, <2>7, <2>8, <2>9, TwoOwners DEF ch
<1> QED
  BY <1>4, <1>5 DEF IInv, TypeOK, Outcomes

(* A unit gets two owners in exactly two cases: do_malloc takes the whole  *)
(* first free block, or do_free merges a block on both sides.              *)
THEOREM OverlapsAreTwo == Spec => []OverlapHasTwoCauses
<1>1. IInv => OverlapHasTwoCauses
  BY SoundIsDisjoint, OverlapIsShared DEF OverlapHasTwoCauses, IInv
<1> QED
  BY <1>1, Inductive, PTL

(* The lost units are those not covered.                                   *)
LEMMA LostIs == IInv => Lost = Addr \ Covers(hdr, Nodes, live)
<1> SUFFICES ASSUME IInv
             PROVE  Lost = Addr \ Covers(hdr, Nodes, live)
  OBVIOUS
<1>1. /\ \A a \in Nodes : a \in 1..UNITS /\ hdr[a].size \in 1..UNITS
      /\ \A b \in live : b.addr \in 1..UNITS /\ b.size \in 1..UNITS
  BY InvLists, Numbers
<1>2. \A a, n, u \in Int : u \in Span(a, n) <=> a <= u /\ u < a + n
  BY DEF Span
<1>3. ASSUME NEW u \in Addr
      PROVE  /\ u \in FreeUnits <=> \E a \in Nodes : a <= u /\ u < a + hdr[a].size
             /\ u \in LiveUnits <=>
                  \E b \in live : b.addr <= u /\ u < b.addr + b.size
  <2>0. u \in Int
    BY DEF Addr
  <2>1. u \in FreeUnits <=> \E a \in Nodes : u \in Span(a, hdr[a].size)
    BY DEF FreeUnits, Nodes
  <2>2. u \in LiveUnits <=> \E b \in live : u \in Span(b.addr, b.size)
    BY DEF LiveUnits
  <2>3. \A a \in Nodes : u \in Span(a, hdr[a].size) <=> a <= u /\ u < a + hdr[a].size
    <3>1. \A a \in Nodes : a \in Int /\ hdr[a].size \in Int
      BY <1>1
    <3> QED BY <1>2, <2>0, <3>1
  <2>4. \A b \in live : u \in Span(b.addr, b.size) <=> b.addr <= u /\ u < b.addr + b.size
    <3>1. \A b \in live : b.addr \in Int /\ b.size \in Int
      BY <1>1
    <3> QED BY <1>2, <2>0, <3>1
  <2> QED BY <2>1, <2>2, <2>3, <2>4
<1>4. \A u \in Addr : u \in Lost <=> u \notin Covers(hdr, Nodes, live)
  BY <1>3 DEF Lost, Covers
<1> QED
  BY <1>4 DEF Lost, Covers

(* A unit that neither the list nor a program holds never comes back; a    *)
(* step loses one only when the list begins elsewhere (do_malloc) or the   *)
(* freed block lies below the list (do_free).                              *)
THEOREM LossesStay == Spec => LossesAreFinal
<1> DEFINE Final == /\ Lost \subseteq Lost'
                    /\ Lost # Lost' =>
                         \/ freelist' # freelist
                         \/ \E b \in live \ live' : b.addr < freelist
<1>0. (IInv => Lost = Addr \ Covers(hdr, Nodes, live))'
  BY LostIs, PTL
<1>1. ASSUME IInv, IInv', Next
      PROVE  Final
  <2> DEFINE C == Covers(hdr, Nodes, live)
             D == C'
  <2>1. Lost = Addr \ C
    BY <1>1, LostIs
  <2>2. Lost' = Addr \ D
    BY <1>0, <1>1
  <2>3. /\ D \subseteq C
        /\ \/ C \subseteq D
           \/ freelist' # freelist
           \/ \E b \in live \ live' : b.addr < freelist
    BY <1>1, NextKeeps DEF Keeps
  <2> HIDE DEF C, D
  <2> QED BY <2>1, <2>2, <2>3
<1>2. IInv /\ IInv' /\ [Next]_vars => [Final]_vars
  BY <1>1
<1> QED
  BY <1>2, Inductive, PTL DEF Spec, LossesAreFinal
=============================================================================
