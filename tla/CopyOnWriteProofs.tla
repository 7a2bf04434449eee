------------------------- MODULE CopyOnWriteProofs -------------------------
(* That copy-on-write keeps the processes' memory apart, for any number of *)
(* processes, frames, loads and copies, with and without CR0.WP.           *)
EXTENDS CopyOnWrite, TLAPS

(* Frames are handed out once: those of user pages lie below next, and the *)
(* ones beside heap and stack, which belong to the kernel, are not among   *)
(* them.  Two loads are a whole load apart; processes with the same stack  *)
(* frame come from one load by fork, and have all their COW bits since.    *)
Blocks ==
  /\ \A f \in user : FirstFree <= f /\ f < next
  /\ \A p \in Procs :
       /\ heapAt[p] = stackAt[p] - 5
       /\ FirstFree + 12 <= stackAt[p] /\ stackAt[p] + 5 <= next
       /\ {Behind(heapAt[p]), Behind(stackAt[p]), stackAt[p] - 1} \cap user = {}
  /\ \A p, q \in Procs :
       \/ stackAt[p] = stackAt[q]
       \/ stackAt[p] + LoadFrames <= stackAt[q]
       \/ stackAt[q] + LoadFrames <= stackAt[p]
  /\ \A p, q \in live :
       p # q /\ stackAt[p] = stackAt[q] => \A r \in Regions : cow[p][r]

(* Where the frames in the tables come from: a page that the loader makes  *)
(* has a frame of the user, the others one of the user, that of the data's *)
(* address, or the kernel frame beside the heap or the stack; data pages   *)
(* have an entry of their own only where they have a table of their own,   *)
(* and the second of them has none in physical page 0.                     *)
Mapped(v, f, own) ==
  \/ f \in user
  \/ v \in DataPages \cup {"stackbelow"} /\ f \in {NoFrame, own}
  \/ v \in Beside /\ f = own

Origins ==
  /\ \A p \in live, v \in Pages : Mapped(v, pte[p][v].frame, OwnFrame(p, v))
  /\ \A p \in Procs \ live, v \in Pages : pte[p][v] = Absent
  /\ \A p \in Procs, v \in DataPages : dtab[p] # "own" => pte[p][v] = Absent
  /\ Mapped("data", zeroPte["data"].frame, DataFrame)
  /\ zeroPte["datanext"] = Absent

(* An entry is writable only below writable tables, and all are where the  *)
(* COW bit is not set: that is never so for the table in physical page 0.  *)
Guards ==
  /\ \A p \in Procs, v \in Pages : pte[p][v].w => path[p][Table(v)]
  /\ \A p \in Procs : p \notin live => dtab[p] = "none"
  /\ \A p \in live, v \in Pages : ~cow[p][Region(v)]
       => /\ path[p][Table(v)]
          /\ pte[p][v].frame # NoFrame => pte[p][v].w
  /\ \A p \in live : dtab[p] = "zero" => cow[p]["low"]

(* One frame of the user is never two different pages, except as the page  *)
(* of someone's data that has its address.                                 *)
Kinds ==
  \A p, q \in live, v, u \in Pages :
    Entry(p, v).frame \in user /\ Entry(p, v).frame = Entry(q, u).frame
      => v = u \/ Stray(p, v) \/ Stray(q, u)

IInv ==
  /\ TypeOK
  /\ Blocks
  /\ Origins
  /\ Guards
  /\ Kinds
  /\ WritableIsExclusive

-----------------------------------------------------------------------------
(* The pages of a process, one by one: the tables they are in, what the    *)
(* loader puts there and the frame the fault handler gives them.           *)
LEMMA PageNames ==
  /\ Pages = {"text", "heap", "stack", "heapnext", "stacknext", "data",
              "datanext", "stackbelow"}
  /\ Loaded = {"text", "heap", "stack"}
  /\ Beside = {"heapnext", "stacknext"}
  /\ DataPages = {"data", "datanext"}
BY DEF Pages, Loaded, Beside, DataPages

LEMMA TableOf ==
  /\ Table("text") = "text"
  /\ Table("data") = "data" /\ Table("datanext") = "data"
  /\ Table("heap") = "heap" /\ Table("heapnext") = "heap"
  /\ Table("stack") = "stack" /\ Table("stacknext") = "stack"
  /\ Table("stackbelow") = "stack"
BY Zenon DEF Table, DataPages

LEMMA RegionOf ==
  /\ Region("text") = "low"
  /\ Region("data") = "low" /\ Region("datanext") = "low"
  /\ Region("heap") = "heap" /\ Region("heapnext") = "heap"
  /\ Region("stack") = "stack" /\ Region("stacknext") = "stack"
  /\ Region("stackbelow") = "stack"
BY TableOf DEF Region

LEMMA TablesOfPages ==
  ASSUME NEW v \in Pages
  PROVE  Table(v) \in Tables /\ Region(v) \in Regions
BY PageNames, TableOf, RegionOf DEF Tables, Regions

LEMMA LoadedEntries ==
  ASSUME NEW n
  PROVE  /\ LoadedTable(n)["text"] = Full(TextOf(n))
         /\ LoadedTable(n)["heap"] = Full(HeapOf(n))
         /\ LoadedTable(n)["heapnext"] = Full(Behind(HeapOf(n)))
         /\ LoadedTable(n)["stack"] = Full(StackOf(n))
         /\ LoadedTable(n)["stacknext"] = Full(Behind(StackOf(n)))
         /\ LoadedTable(n)["data"] = Absent
         /\ LoadedTable(n)["datanext"] = Absent
         /\ LoadedTable(n)["stackbelow"] = Absent
         /\ LoadedTable(n) = [v \in Pages |-> LoadedTable(n)[v]]
BY Zenon DEF LoadedTable, Pages, Loaded, Beside, DataPages

LEMMA OwnFrames ==
  ASSUME NEW p
  PROVE  /\ OwnFrame(p, "data") = DataFrame
         /\ OwnFrame(p, "datanext") = Behind(DataFrame)
         /\ OwnFrame(p, "text") = NoFrame
         /\ OwnFrame(p, "heap") = heapAt[p]
         /\ OwnFrame(p, "stack") = stackAt[p]
         /\ OwnFrame(p, "heapnext") = Behind(heapAt[p])
         /\ OwnFrame(p, "stacknext") = Behind(stackAt[p])
         /\ OwnFrame(p, "stackbelow") = stackAt[p] - 1
         /\ OwnFrame(p, "data")' = DataFrame
         /\ OwnFrame(p, "datanext")' = Behind(DataFrame)
         /\ OwnFrame(p, "text")' = NoFrame
         /\ OwnFrame(p, "heap")' = heapAt'[p]
         /\ OwnFrame(p, "stack")' = stackAt'[p]
         /\ OwnFrame(p, "heapnext")' = Behind(heapAt'[p])
         /\ OwnFrame(p, "stacknext")' = Behind(stackAt'[p])
         /\ OwnFrame(p, "stackbelow")' = stackAt'[p] - 1
BY Zenon DEF OwnFrame, DataAt, DataPages

(* The frames of the data's address, and who has one of them.              *)
LEMMA DataPlaces ==
  /\ DataFrames = {DataFrame, DataFrame + 1}
  /\ DataAt("data") = DataFrame /\ DataAt("datanext") = DataFrame + 1
  /\ \A v \in DataPages : DataAt(v) \in Frames /\ DataAt(v) # NoFrame
BY DataAssumption, MaxFramesAssumption
DEF DataFrames, DataAt, DataPages, Behind, Frames, NoFrame

LEMMA StrayPages ==
  ASSUME NEW p, NEW v
  PROVE  /\ Stray(p, v) <=> v \in DataPages /\ Entry(p, v).frame = DataAt(v)
         /\ Stray(p, v)' <=> v \in DataPages /\ Entry(p, v)'.frame = DataAt(v)
         /\ v \in DataPages => OwnFrame(p, v) = DataAt(v)
<1>1. v \in DataPages => OwnFrame(p, v) = DataAt(v) /\ OwnFrame(p, v)' = DataAt(v)
  BY Zenon DEF OwnFrame, DataAt, DataPages
<1> QED
  BY <1>1 DEF Stray

(* The frames of a load at n.                                              *)
LEMMA LoadedFrames ==
  ASSUME NEW n \in Nat
  PROVE  \A v \in Pages :
           /\ LoadedTable(n)[v] \in [frame : Nat, w : BOOLEAN]
           /\ LoadedTable(n)[v].frame =
                IF v = "text" THEN n + 3 ELSE IF v = "heap" THEN n + 7
                ELSE IF v = "heapnext" THEN n + 8
                ELSE IF v = "stack" THEN n + 12
                ELSE IF v = "stacknext" THEN n + 13 ELSE NoFrame
           /\ LoadedTable(n)[v].w <=> v \notin DataPages \cup {"stackbelow"}
<1>1. /\ LoadedTable(n)["text"] = Full(n + 3)
      /\ LoadedTable(n)["heap"] = Full(n + 7)
      /\ LoadedTable(n)["heapnext"] = Full(n + 8)
      /\ LoadedTable(n)["stack"] = Full(n + 12)
      /\ LoadedTable(n)["stacknext"] = Full(n + 13)
      /\ LoadedTable(n)["data"] = Absent
      /\ LoadedTable(n)["datanext"] = Absent
      /\ LoadedTable(n)["stackbelow"] = Absent
  <2>1. HeapOf(n) = n + 7 /\ Behind(HeapOf(n)) = n + 8
        /\ Behind(StackOf(n)) = n + 13
    BY DEF HeapOf, StackOf, Behind
  <2> QED BY <2>1, LoadedEntries, Zenon DEF TextOf, StackOf
<1>2. \A f \in Nat : /\ Full(f) \in [frame : Nat, w : BOOLEAN]
                     /\ Full(f).frame = f /\ Full(f).w = TRUE
  BY DEF Full
<1>3. /\ Absent \in [frame : Nat, w : BOOLEAN]
      /\ Absent.frame = NoFrame /\ Absent.w = FALSE
  BY DEF Absent, NoFrame
<1> QED
  BY <1>1, <1>2, <1>3, PageNames

(* The first program: the loader's tables and the COW bits clear.          *)
LEMMA InitInv == Init => IInv
<1> SUFFICES ASSUME Init PROVE IInv
  OBVIOUS
<1> USE DEF NoFrame, FirstFree, Frames, TextOf, HeapOf, StackOf,
            LoadFrames, Behind
<1>1. /\ \A v \in Pages : pte[InitProc][v] = LoadedTable(2)[v]
      /\ \A p \in Procs, v \in Pages : p # InitProc => pte[p][v] = Absent
  BY ProcsAssumption DEF Init
<1>a. \A v \in Pages :
        pte[InitProc][v].frame =
          IF v = "text" THEN 5 ELSE IF v = "heap" THEN 9
          ELSE IF v = "heapnext" THEN 10 ELSE IF v = "stack" THEN 14
          ELSE IF v = "stacknext" THEN 15 ELSE 0
  BY <1>1, LoadedFrames
<1>2. TypeOK
  <2>1. pte \in [Procs -> [Pages -> [frame : Frames, w : BOOLEAN]]]
    <3>1. LoadedTable(FirstFree) \in [Pages -> [frame : Frames, w : BOOLEAN]]
      <4>1. \A v \in Pages : LoadedTable(2)[v] \in [frame : Frames, w : BOOLEAN]
        BY LoadedFrames, MaxFramesAssumption
      <4> QED BY <4>1, LoadedEntries
    <3> QED BY <3>1, MaxFramesAssumption, ProcsAssumption DEF Init, Absent
  <2>2. content \in [user \cup {NoFrame} \cup DataFrames -> Values]
    BY ValuesAssumption DEF Init, Given
  <2>3. path \in [Procs -> [Tables -> BOOLEAN]]
    BY DEF Init, Unset
  <2>4. /\ next \in 0..(MaxFrames + 1) /\ user \subseteq Frames
        /\ live \subseteq Procs
        /\ heapAt \in [Procs -> Frames] /\ stackAt \in [Procs -> Frames]
    BY ProcsAssumption, MaxFramesAssumption DEF Init, Given
  <2>5. cow \in [Procs -> [Regions -> BOOLEAN]]
    BY DEF Init, Unset
  <2>6. /\ dtab \in [Procs -> {"none", "own", "zero"}]
        /\ zeroPte \in [DataPages -> [frame : Frames, w : BOOLEAN]]
        /\ work \in 0..MaxWork
    BY MaxFramesAssumption, MaxWorkAssumption DEF Init, Absent
  <2>7. corrupt \in BOOLEAN
    BY Zenon DEF Init
  <2> QED
    BY <2>1, <2>2, <2>3, <2>4, <2>5, <2>6, <2>7, Zenon DEF TypeOK
<1>3. Blocks
  BY DEF Init, Blocks, Given
<1>4. Origins
  <2>1. \A p \in live, v \in Pages : Mapped(v, pte[p][v].frame, OwnFrame(p, v))
    <3>1. /\ live = {InitProc} /\ user = {5, 9, 14}
          /\ heapAt[InitProc] = 9 /\ stackAt[InitProc] = 14
      BY ProcsAssumption DEF Init, Given
    <3>2. OwnFrame(InitProc, "heapnext") = 10
          /\ OwnFrame(InitProc, "stacknext") = 15
      BY <3>1, OwnFrames
    <3>3. ASSUME NEW v \in Pages
          PROVE  Mapped(v, pte[InitProc][v].frame, OwnFrame(InitProc, v))
      BY <3>1, <3>2, <1>a, PageNames DEF Mapped
    <3> QED BY <3>1, <3>3
  <2>2. \A v \in DataPages : pte[InitProc][v] = Absent
    BY <1>1, LoadedEntries, PageNames
  <2>3. \A v \in DataPages : v \in Pages /\ zeroPte[v] = Absent
    BY PageNames DEF Init
  <2> QED
    BY <1>1, <2>1, <2>2, <2>3, PageNames DEF Init, Origins, Mapped, Absent
<1>5. Guards
  <2>1. \A t \in Tables : path[InitProc][t]
    BY ProcsAssumption DEF Init, Unset
  <2>2. \A p \in Procs, v \in Pages : p # InitProc => ~pte[p][v].w
    BY <1>1 DEF Absent
  <2>3. \A v \in Pages : pte[InitProc][v].frame # 0 => pte[InitProc][v].w
    <3>1. \A v \in Pages :
            LoadedTable(2)[v].w <=> v \notin DataPages \cup {"stackbelow"}
      BY LoadedFrames
    <3>2. \A v \in Pages : pte[InitProc][v].frame # 0
                              => v \notin DataPages \cup {"stackbelow"}
      BY <1>a, PageNames
    <3> QED BY <1>1, <3>1, <3>2
  <2>4. live = {InitProc} /\ \A p \in Procs : dtab[p] = "none"
    BY DEF Init
  <2>5. \A v \in Pages : Table(v) \in Tables
    BY TablesOfPages
  <2>6. \A p \in Procs, v \in Pages : pte[p][v].w => path[p][Table(v)]
    BY <2>1, <2>2, <2>5
  <2>7. \A p \in live, v \in Pages : path[p][Table(v)]
    BY <2>1, <2>4, <2>5
  <2> QED
    BY <2>3, <2>4, <2>6, <2>7, ProcsAssumption, Zenon DEF Guards
<1>6. ASSUME NEW v \in Pages, NEW u \in Pages,
             pte[InitProc][v].frame # NoFrame,
             pte[InitProc][v].frame = pte[InitProc][u].frame
      PROVE  v = u
  BY <1>6, <1>a
<1>7. /\ live = {InitProc} /\ 0 \notin user
      /\ \A v \in Pages : Entry(InitProc, v) = pte[InitProc][v]
  BY ProcsAssumption DEF Init, Given, Entry, EntryIn
<1>8. Kinds
  BY <1>6, <1>7 DEF Kinds
<1>9. WritableIsExclusive
  BY <1>6, <1>7 DEF WritableIsExclusive, Writable, Present
<1> QED
  BY <1>2, <1>3, <1>4, <1>5, <1>8, <1>9 DEF IInv

-----------------------------------------------------------------------------
(* A record of the tables that loses its W bit.                            *)
LEMMA ReadOnlyEntry ==
  ASSUME NEW e \in [frame : Frames, w : BOOLEAN]
  PROVE  /\ ReadOnly(e) \in [frame : Frames, w : BOOLEAN]
         /\ ReadOnly(e).frame = e.frame /\ ~ReadOnly(e).w
BY DEF ReadOnly

LEMMA AbsentEntry ==
  ASSUME NEW e \in [frame : Frames, w : BOOLEAN], e.frame = NoFrame, ~e.w
  PROVE  e = Absent
<1>1. e = [frame |-> e.frame, w |-> e.w]
  OBVIOUS
<1> QED BY <1>1 DEF Absent

(* fork: parent and child keep the frames and lose the right to write.     *)
LEMMA ForkInv ==
  ASSUME IInv, NEW p \in Procs, NEW c \in Procs, sys_fork(p, c)
  PROVE  IInv'
<1> USE DEF NoFrame, FirstFree, Frames
<1>0. /\ TypeOK /\ Blocks /\ Origins /\ Guards /\ Kinds
      /\ WritableIsExclusive
  BY DEF IInv
<1>1. /\ p \in live /\ c \notin live /\ p # c
      /\ live' = live \cup {c} /\ user' = user
      /\ next \in Nat /\ next' \in Nat /\ next <= next' /\ next' <= MaxFrames
  BY <1>0, MaxFramesAssumption DEF sys_fork, ForkFrames, TypeOK
<1>2. ASSUME NEW q \in Procs, NEW v \in Pages
      PROVE  /\ Entry(q, v) \in [frame : Frames, w : BOOLEAN]
             /\ pte[q][v] \in [frame : Frames, w : BOOLEAN]
  BY <1>0 DEF TypeOK, Entry, EntryIn
<1>3. ASSUME NEW q \in Procs, NEW v \in Pages
      PROVE  /\ pte'[q][v] \in [frame : Frames, w : BOOLEAN]
             /\ pte'[q][v].frame = IF q = c THEN Entry(p, v).frame
                                   ELSE pte[q][v].frame
             /\ pte'[q][v].w <=> q \notin {p, c} /\ pte[q][v].w
  <2>1. pte'[q][v] = IF q = p THEN ReadOnly(pte[p][v])
                     ELSE IF q = c THEN ReadOnly(Entry(p, v)) ELSE pte[q][v]
    BY <1>0, <1>1 DEF sys_fork, SharedTables, TypeOK
  <2>2. CASE q = p
    BY <1>1, <1>2, <2>1, <2>2, ReadOnlyEntry
  <2>3. CASE q = c
    BY <1>1, <1>2, <2>1, <2>3, ReadOnlyEntry
  <2>4. CASE q \notin {p, c}
    BY <1>2, <2>1, <2>4
  <2> QED BY <2>2, <2>3, <2>4
<1>4. /\ \A q \in Procs, t \in Tables :
           path'[q][t] <=> q \notin {p, c} /\ path[q][t]
      /\ \A q \in Procs, r \in Regions :
           cow'[q][r] <=> q \in {p, c} \/ cow[q][r]
  BY <1>0, <1>1 DEF sys_fork, TypeOK
<1>5. /\ dtab' = [dtab EXCEPT ![c] = IF dtab[p] = "none" THEN "none" ELSE "own"]
      /\ zeroPte' \in [DataPages -> [frame : Frames, w : BOOLEAN]]
      /\ \A v \in DataPages : /\ zeroPte'[v].frame = zeroPte[v].frame
                              /\ dtab[p] = "zero" => ~zeroPte'[v].w
                              /\ dtab[p] # "zero" => zeroPte'[v] = zeroPte[v]
      /\ heapAt' = [heapAt EXCEPT ![c] = heapAt[p]]
      /\ stackAt' = [stackAt EXCEPT ![c] = stackAt[p]]
  <2>1. /\ zeroPte \in [DataPages -> [frame : Frames, w : BOOLEAN]]
        /\ zeroPte' = [v \in DataPages |-> IF dtab[p] = "zero"
                                  THEN ReadOnly(zeroPte[v]) ELSE zeroPte[v]]
    BY <1>0, <1>1 DEF sys_fork, TypeOK
  <2>2. /\ dtab' = [dtab EXCEPT ![c] = IF dtab[p] = "none" THEN "none"
                                       ELSE "own"]
        /\ heapAt' = [heapAt EXCEPT ![c] = heapAt[p]]
        /\ stackAt' = [stackAt EXCEPT ![c] = stackAt[p]]
    BY <1>1 DEF sys_fork
  <2> QED BY <2>1, <2>2, ReadOnlyEntry
<1>6. TypeOK'
  <2>1. pte' \in [Procs -> [Pages -> [frame : Frames, w : BOOLEAN]]]
    <3>1. /\ DOMAIN pte' = Procs
          /\ \A q \in Procs : pte'[q] = [v \in Pages |-> pte'[q][v]]
      BY <1>0, <1>1 DEF sys_fork, SharedTables, TypeOK
    <3>2. pte' = [q \in Procs |-> pte'[q]]
      BY <1>0 DEF sys_fork, SharedTables, TypeOK
    <3> QED BY <1>3, <3>1, <3>2
  <2>2. path' \in [Procs -> [Tables -> BOOLEAN]]
        /\ cow' \in [Procs -> [Regions -> BOOLEAN]]
    BY <1>0 DEF sys_fork, TypeOK
  <2>3. /\ dtab' \in [Procs -> {"none", "own", "zero"}]
        /\ heapAt' \in [Procs -> Frames] /\ stackAt' \in [Procs -> Frames]
        /\ live' \subseteq Procs
        /\ next' \in 0..(MaxFrames + 1)
    BY <1>0, <1>1, <1>5, MaxFramesAssumption DEF TypeOK
  <2>4. /\ user' \subseteq Frames /\ corrupt' \in BOOLEAN
        /\ content' \in [user' \cup {NoFrame} \cup DataFrames -> Values]
        /\ work' \in 0..MaxWork
    BY <1>0, Zenon DEF sys_fork, TypeOK
  <2> QED BY <1>5, <2>1, <2>2, <2>3, <2>4, Zenon DEF TypeOK
<1>7. Blocks'
  <2>1. \A q \in Procs : /\ heapAt'[q] = heapAt[IF q = c THEN p ELSE q]
                         /\ stackAt'[q] = stackAt[IF q = c THEN p ELSE q]
    BY <1>0, <1>5 DEF TypeOK
  <2>2. \A f \in user' : FirstFree <= f /\ f < next'
    BY <1>0, <1>1 DEF Blocks, TypeOK
  <2>3. \A q \in Procs :
          /\ heapAt'[q] = stackAt'[q] - 5
          /\ FirstFree + 12 <= stackAt'[q] /\ stackAt'[q] + 5 <= next'
          /\ {Behind(heapAt'[q]), Behind(stackAt'[q]), stackAt'[q] - 1}
               \cap user' = {}
    BY <1>0, <1>1, <2>1 DEF Blocks, TypeOK, Behind
  <2>4. \A q, x \in Procs :
          \/ stackAt'[q] = stackAt'[x]
          \/ stackAt'[q] + LoadFrames <= stackAt'[x]
          \/ stackAt'[x] + LoadFrames <= stackAt'[q]
    BY <1>0, <2>1 DEF Blocks
  <2>5. ASSUME NEW q \in live', NEW x \in live', q # x,
               stackAt'[q] = stackAt'[x], NEW r \in Regions
        PROVE  cow'[q][r]
    <3>1. q \in Procs /\ x \in Procs
      BY <1>0, <1>1 DEF TypeOK
    <3>2. CASE q \in {p, c}
      BY <1>4, <3>1, <3>2
    <3>3. CASE q \notin {p, c}
      <4>1. \E y \in live : y # q /\ stackAt[q] = stackAt[y]
        BY <1>1, <2>1, <2>5, <3>1, <3>3
      <4> QED BY <1>0, <1>1, <1>4, <3>1, <3>3, <4>1 DEF Blocks
    <3> QED BY <3>2, <3>3
  <2> QED BY <2>2, <2>3, <2>4, <2>5 DEF Blocks
<1>8. ASSUME NEW q \in Procs, NEW v \in Pages
      PROVE  Entry(q, v)'.frame = Entry(IF q = c THEN p ELSE q, v).frame
  <2>1. CASE q = c
    <3>1. dtab'[c] # "zero"
      BY <1>0, <1>5 DEF TypeOK
    <3>2. Entry(q, v)' = pte'[c][v]
      BY <2>1, <3>1 DEF Entry, EntryIn
    <3> QED BY <1>1, <1>3, <2>1, <3>2
  <2>2. CASE q # c
    <3>1. dtab'[q] = dtab[q]
      BY <1>0, <1>5, <2>2 DEF TypeOK
    <3>2. pte'[q][v].frame = pte[q][v].frame
      BY <1>3, <2>2
    <3> QED BY <1>5, <2>2, <3>1, <3>2 DEF Entry, EntryIn
  <2> QED BY <2>1, <2>2
<1>9. Origins'
  <2>1. ASSUME NEW q \in live', NEW v \in Pages
        PROVE  Mapped(v, pte[q][v].frame, OwnFrame(q, v))'
    <3>1. /\ q \in Procs /\ IF q = c THEN p \in live ELSE q \in live
      BY <1>0, <1>1 DEF TypeOK
    <3> DEFINE x == IF q = c THEN p ELSE q
    <3>2. OwnFrame(q, v)' = OwnFrame(x, v)
      <4>1. heapAt'[q] = heapAt[x] /\ stackAt'[q] = stackAt[x]
        BY <1>0, <1>5, <3>1 DEF TypeOK
      <4> HIDE DEF x
      <4> QED BY <4>1, OwnFrames, PageNames
    <3>3. \/ pte'[q][v].frame = pte[x][v].frame
          \/ v \in DataPages /\ pte'[q][v].frame = zeroPte[v].frame
      BY <1>3, <3>1 DEF Entry, EntryIn
    <3>4. /\ Mapped(v, pte[x][v].frame, OwnFrame(x, v))
          /\ v \in DataPages => Mapped(v, zeroPte[v].frame, OwnFrame(x, v))
      <4> HIDE DEF x
      <4>1. x \in live
        BY <3>1 DEF x
      <4> QED BY <1>0, <4>1, OwnFrames, PageNames DEF Origins, Mapped, Absent
    <3> HIDE DEF x
    <3> QED BY <1>1, <3>2, <3>3, <3>4, PageNames DEF Mapped
  <2>2. ASSUME NEW q \in Procs \ live', NEW v \in Pages
        PROVE  pte'[q][v] = Absent
    <3>1. q \notin {p, c} /\ q \notin live
      BY <1>1
    <3>2. pte'[q][v] = pte[q][v]
      BY <1>0, <1>1, <3>1 DEF sys_fork, SharedTables, TypeOK
    <3> QED BY <1>0, <3>1, <3>2 DEF Origins
  <2>3. ASSUME NEW q \in Procs, NEW v \in DataPages, dtab'[q] # "own"
        PROVE  pte'[q][v] = Absent
    <3>1. v \in Pages
      BY PageNames
    <3>2. CASE q = c
      <4>1. dtab[p] = "none"
        BY <1>0, <1>5, <2>3, <3>2 DEF TypeOK
      <4>2. Entry(p, v).frame = 0
        BY <1>0, <4>1 DEF Origins, Entry, EntryIn, Absent
      <4>3. /\ pte'[c][v] \in [frame : Frames, w : BOOLEAN]
            /\ pte'[c][v].frame = NoFrame /\ ~pte'[c][v].w
        BY <1>3, <3>1, <4>2
      <4> QED BY <3>2, <4>3, AbsentEntry
    <3>3. CASE q # c
      <4>1. pte[q][v] = Absent
        BY <1>0, <1>5, <2>3, <3>3 DEF TypeOK, Origins
      <4>2. /\ pte'[q][v] \in [frame : Frames, w : BOOLEAN]
            /\ pte'[q][v].frame = NoFrame /\ ~pte'[q][v].w
        BY <1>3, <3>1, <3>3, <4>1 DEF Absent
      <4> QED BY <4>2, AbsentEntry
    <3> QED BY <3>2, <3>3
  <2>4. Mapped("data", zeroPte["data"].frame, DataFrame)'
    BY <1>0, <1>1, <1>5, PageNames DEF Origins, Mapped
  <2>5. zeroPte'["datanext"] = Absent
    <3>1. /\ zeroPte'["datanext"] \in [frame : Frames, w : BOOLEAN]
          /\ zeroPte'["datanext"].frame = NoFrame /\ ~zeroPte'["datanext"].w
      BY <1>0, <1>5, PageNames DEF Origins, Absent
    <3> QED BY <3>1, AbsentEntry
  <2> QED BY <2>1, <2>2, <2>3, <2>4, <2>5 DEF Origins
<1>10. Guards'
  <2>1. \A q \in Procs, v \in Pages : pte'[q][v].w => path'[q][Table(v)]
    BY <1>0, <1>3, <1>4, TablesOfPages DEF Guards
  <2>2. \A q \in Procs : q \notin live' => dtab'[q] = "none"
    BY <1>0, <1>1, <1>5 DEF Guards, TypeOK
  <2>3. ASSUME NEW q \in live', NEW v \in Pages, ~cow'[q][Region(v)]
        PROVE  /\ path'[q][Table(v)]
               /\ pte'[q][v].frame # NoFrame => pte'[q][v].w
    <3>1. q \in Procs /\ q \notin {p, c}
      BY <1>0, <1>1, <1>4, <2>3, TablesOfPages DEF TypeOK
    <3> QED BY <1>0, <1>1, <1>3, <1>4, <2>3, <3>1, TablesOfPages DEF Guards
  <2>4. \A q \in live' : dtab'[q] = "zero" => cow'[q]["low"]
    BY <1>0, <1>1, <1>4, <1>5 DEF Guards, TypeOK, Regions
  <2> QED BY <2>1, <2>2, <2>3, <2>4 DEF Guards
<1>11. ASSUME NEW q \in Procs, NEW v \in Pages
       PROVE  Stray(q, v)' <=> Stray(IF q = c THEN p ELSE q, v)
  BY <1>8, StrayPages
<1>12. Kinds'
  <2> SUFFICES ASSUME NEW q \in live', NEW x \in live',
                      NEW v \in Pages, NEW u \in Pages,
                      Entry(q, v)'.frame \in user',
                      Entry(q, v)'.frame = Entry(x, u)'.frame
               PROVE  v = u \/ Stray(q, v)' \/ Stray(x, u)'
    BY DEF Kinds
  <2>1. q \in Procs /\ x \in Procs
    BY <1>0, <1>1 DEF TypeOK
  <2> QED BY <1>0, <1>1, <1>8, <1>11, <2>1 DEF Kinds
<1>13. WritableIsExclusive'
  <2> SUFFICES ASSUME NEW q \in live', NEW x \in live',
                      NEW v \in Pages, NEW u \in Pages,
                      <<q, v>> # <<x, u>>, Writable(q, v)',
                      Entry(q, v)'.frame = Entry(x, u)'.frame,
                      ~Stray(q, v)', ~Stray(x, u)'
               PROVE  v \in DataPages /\ u = v /\ dtab'[q] = "zero"
                        /\ dtab'[x] = "zero"
    BY DEF WritableIsExclusive
  <2>1. /\ q \in Procs /\ x \in Procs /\ q \notin {p, c} /\ q \in live
        /\ Table(v) \in Tables
    BY <1>0, <1>1, <1>4, TablesOfPages DEF TypeOK, Writable
  <2>2. Entry(q, v)' = Entry(q, v)
    <3>1. dtab'[q] = dtab[q] /\ pte'[q] = pte[q]
      BY <1>0, <1>1, <1>5, <2>1 DEF TypeOK, sys_fork, SharedTables
    <3>2. ~(v \in DataPages /\ dtab[q] = "zero" /\ dtab[p] = "zero")
      BY <1>5, <3>1 DEF Writable, Entry, EntryIn
    <3>3. v \in DataPages /\ dtab[q] = "zero" => zeroPte'[v] = zeroPte[v]
      BY <1>5, <3>2
    <3> QED BY <3>1, <3>3 DEF Entry, EntryIn
  <2>3. Writable(q, v) /\ ~Stray(q, v)
    BY <1>4, <1>11, <2>1, <2>2 DEF Writable, Present
  <2>4. CASE x \in {p, c}
    <3>1. Entry(q, v).frame = Entry(p, u).frame /\ ~Stray(p, u)
      BY <1>1, <1>8, <1>11, <2>1, <2>2, <2>4
    <3>2. v \in DataPages /\ dtab[q] = "zero" /\ dtab[p] = "zero"
      BY <1>0, <1>1, <2>1, <2>2, <2>3, <3>1 DEF WritableIsExclusive
    <3>3. ~Writable(q, v)'
      BY <1>0, <1>1, <1>5, <2>1, <3>2 DEF Writable, Entry, EntryIn, TypeOK
    <3> QED BY <3>3
  <2>5. CASE x \notin {p, c}
    <3>1. x \in live /\ dtab'[x] = dtab[x] /\ dtab'[q] = dtab[q]
      BY <1>0, <1>1, <1>5, <2>1, <2>5 DEF TypeOK
    <3>2. Entry(q, v).frame = Entry(x, u).frame /\ ~Stray(x, u)
      BY <1>8, <1>11, <2>1, <2>2, <2>5
    <3> QED BY <1>0, <2>1, <2>2, <2>3, <3>1, <3>2 DEF WritableIsExclusive
  <2> QED BY <2>4, <2>5
<1> QED
  BY <1>6, <1>7, <1>9, <1>10, <1>12, <1>13 DEF IInv

(* Every frame in a table has been handed out, but for those of the data's *)
(* address.                                                                *)
LEMMA FramesBelow ==
  ASSUME IInv, NEW q \in Procs, NEW u \in Pages
  PROVE  Entry(q, u).frame < next \/ Stray(q, u)
<1> USE DEF NoFrame, FirstFree
<1>1. TypeOK /\ Blocks /\ Origins
  BY DEF IInv
<1>2. next \in Nat /\ 15 < next
  BY <1>1 DEF TypeOK, Blocks, Frames
<1>3. \A v \in Pages, f \in Frames :
         q \in live /\ Mapped(v, f, OwnFrame(q, v))
           => f < next \/ (v \in DataPages /\ f = DataAt(v))
  <2> SUFFICES ASSUME NEW v \in Pages, NEW f \in Frames, q \in live,
                      Mapped(v, f, OwnFrame(q, v))
               PROVE  f < next \/ (v \in DataPages /\ f = DataAt(v))
    OBVIOUS
  <2>1. /\ OwnFrame(q, "heapnext") < next /\ OwnFrame(q, "stacknext") < next
        /\ OwnFrame(q, "stackbelow") < next
    BY <1>1, <1>2, OwnFrames DEF Blocks, TypeOK, Frames, Behind
  <2>2. v \in DataPages => OwnFrame(q, v) = DataAt(v)
    BY StrayPages
  <2> QED BY <1>1, <1>2, <2>1, <2>2, PageNames DEF Mapped, Blocks
<1>4. \A v \in DataPages : zeroPte[v].frame < next \/ zeroPte[v].frame = DataAt(v)
  <2>1. \/ zeroPte["data"].frame \in user
        \/ zeroPte["data"].frame \in {0, DataFrame}
    BY <1>1, PageNames DEF Origins, Mapped
  <2>2. zeroPte["datanext"].frame = 0
    BY <1>1 DEF Origins, Absent
  <2> QED BY <1>1, <1>2, <2>1, <2>2, PageNames, DataPlaces DEF Blocks
<1>5. pte[q][u].frame < next \/ (u \in DataPages /\ pte[q][u].frame = DataAt(u))
  <2>1. pte[q][u].frame \in Frames
    BY <1>1 DEF TypeOK
  <2>2. CASE q \in live
    BY <1>1, <1>3, <2>1, <2>2 DEF Origins
  <2>3. CASE q \notin live
    BY <1>1, <1>2, <2>3 DEF Origins, Absent
  <2> QED BY <2>2, <2>3
<1> QED
  BY <1>4, <1>5, StrayPages DEF Entry, EntryIn

(* Putting entries in the place of those of a process.                     *)
LEMMA EntriesSet ==
  ASSUME TypeOK, NEW p \in Procs, NEW tab,
         NEW new \in [Pages -> [frame : Frames, w : BOOLEAN]],
         SetEntries(p, new, tab)
  PROVE  /\ dtab' = [dtab EXCEPT ![p] = tab]
         /\ pte' \in [Procs -> [Pages -> [frame : Frames, w : BOOLEAN]]]
         /\ zeroPte' \in [DataPages -> [frame : Frames, w : BOOLEAN]]
         /\ \A q \in Procs, u \in Pages :
              pte'[q][u] = IF q = p /\ ~(u \in DataPages /\ tab = "zero")
                           THEN new[u] ELSE pte[q][u]
         /\ \A u \in DataPages :
              zeroPte'[u] = IF tab = "zero" THEN new[u] ELSE zeroPte[u]
<1>0. /\ pte \in [Procs -> [Pages -> [frame : Frames, w : BOOLEAN]]]
      /\ zeroPte \in [DataPages -> [frame : Frames, w : BOOLEAN]]
      /\ \A u \in DataPages : u \in Pages
  BY PageNames DEF TypeOK
<1> DEFINE row == [u \in Pages |-> IF u \in DataPages /\ tab = "zero"
                                  THEN pte[p][u] ELSE new[u]]
<1>1. /\ dtab' = [dtab EXCEPT ![p] = tab]
      /\ pte' = [pte EXCEPT ![p] = row]
      /\ zeroPte' = [u \in DataPages |-> IF u \in DataPages /\ tab = "zero"
                                         THEN new[u] ELSE zeroPte[u]]
  BY DEF SetEntries
<1>2. row \in [Pages -> [frame : Frames, w : BOOLEAN]]
  BY <1>0
<1>3. zeroPte' \in [DataPages -> [frame : Frames, w : BOOLEAN]]
  BY <1>0, <1>1
<1>4. \A u \in Pages : row[u] = IF u \in DataPages /\ tab = "zero"
                               THEN pte[p][u] ELSE new[u]
  OBVIOUS
<1> HIDE DEF row
<1> QED
  BY <1>0, <1>1, <1>2, <1>3, <1>4

(* copy_page: the page gets a frame nobody else has.  If its table is the  *)
(* one in physical page 0, all who use that table see the new entry.       *)
LEMMA CopyEffect ==
  ASSUME IInv, NEW p \in live, NEW v \in Pages \ {"datanext"},
         copy_page(p, v)
  PROVE  /\ next \in Nat /\ next' \in Nat /\ next < next'
         /\ next' <= MaxFrames
         /\ user' = user \cup {next}
         /\ pte' \in [Procs -> [Pages -> [frame : Frames, w : BOOLEAN]]]
         /\ zeroPte' \in [DataPages -> [frame : Frames, w : BOOLEAN]]
         /\ \E tab \in {"zero", dtab[p]} :
              /\ tab # dtab[p] => v = "data" /\ dtab[p] = "none"
              /\ v = "data" => tab # "none"
              /\ dtab' = [dtab EXCEPT ![p] = tab]
              /\ \A q \in Procs, u \in Pages :
                   pte'[q][u] = IF q = p /\ u = v /\ ~(v = "data" /\ tab = "zero")
                                THEN Full(next) ELSE pte[q][u]
              /\ zeroPte'["data"] = IF v = "data" /\ tab = "zero"
                                    THEN Full(next) ELSE zeroPte["data"]
              /\ zeroPte'["datanext"] = zeroPte["datanext"]
              /\ \A q \in Procs, u \in Pages :
                   Entry(q, u)' =
                     IF \/ q = p /\ u = v
                        \/ v = "data" /\ u = "data" /\ tab = "zero"
                             /\ dtab[q] = "zero"
                     THEN Full(next) ELSE Entry(q, u)
         /\ \A q \in Procs, t \in Tables :
              path'[q][t] <=> path[q][t] \/ (q = p /\ t = Table(v))
         /\ cow' = cow
<1>1. TypeOK /\ Origins /\ p \in Procs
  BY DEF IInv, TypeOK
<1>v. v \in Pages /\ (v \in DataPages <=> v = "data")
  BY PageNames
<1> DEFINE tab == IF v \in DataPages /\ dtab[p] = "none" THEN "zero" ELSE dtab[p]
<1>2. /\ next \in Nat /\ next' \in Nat /\ next < next' /\ next' <= MaxFrames
  BY <1>1, MaxFramesAssumption DEF copy_page, TypeOK
<1>3. /\ user' = user \cup {next} /\ cow' = cow
      /\ SetEntries(p, [u \in Pages |-> IF u = v THEN Full(next)
                                        ELSE EntryIn(p, u, tab)], tab)
  BY DEF copy_page, CopyTarget, CowAfterCopy
<1>t. tab \in {"none", "own", "zero"}
  BY <1>1 DEF TypeOK
<1>4. /\ dtab' = [dtab EXCEPT ![p] = tab]
      /\ pte' \in [Procs -> [Pages -> [frame : Frames, w : BOOLEAN]]]
      /\ zeroPte' \in [DataPages -> [frame : Frames, w : BOOLEAN]]
      /\ \A q \in Procs, u \in Pages :
           pte'[q][u] = IF q = p /\ u = v /\ ~(v \in DataPages /\ tab = "zero")
                        THEN Full(next) ELSE pte[q][u]
      /\ \A u \in DataPages :
           zeroPte'[u] = IF u = v /\ tab = "zero" THEN Full(next)
                         ELSE zeroPte[u]
  <2> DEFINE new == [u \in Pages |-> IF u = v THEN Full(next)
                                     ELSE EntryIn(p, u, tab)]
  <2>1. Full(next) \in [frame : Frames, w : BOOLEAN]
    BY <1>2, MaxFramesAssumption DEF Full, Frames
  <2>2. \A u \in Pages : EntryIn(p, u, tab) \in [frame : Frames, w : BOOLEAN]
    BY <1>1 DEF TypeOK, EntryIn
  <2>3. new \in [Pages -> [frame : Frames, w : BOOLEAN]]
    BY <2>1, <2>2
  <2>4. \A u \in Pages : new[u] = IF u = v THEN Full(next) ELSE EntryIn(p, u, tab)
    OBVIOUS
  <2>5. SetEntries(p, new, tab)
    BY <1>3
  <2> HIDE DEF new, tab
  <2>6. /\ dtab' = [dtab EXCEPT ![p] = tab]
        /\ pte' \in [Procs -> [Pages -> [frame : Frames, w : BOOLEAN]]]
        /\ zeroPte' \in [DataPages -> [frame : Frames, w : BOOLEAN]]
        /\ \A q \in Procs, u \in Pages :
             pte'[q][u] = IF q = p /\ ~(u \in DataPages /\ tab = "zero")
                          THEN new[u] ELSE pte[q][u]
        /\ \A u \in DataPages :
             zeroPte'[u] = IF tab = "zero" THEN new[u] ELSE zeroPte[u]
    BY <1>1, <2>3, <2>5, EntriesSet
  <2>7. \A u \in DataPages : u \in Pages
    BY PageNames
  <2>8. \A u \in Pages : EntryIn(p, u, tab) =
                         IF u \in DataPages /\ tab = "zero" THEN zeroPte[u]
                         ELSE pte[p][u]
    BY DEF EntryIn
  <2> QED BY <2>4, <2>6, <2>7, <2>8
<1>5. \A q \in Procs, t \in Tables :
              path'[q][t] <=> path[q][t] \/ (q = p /\ t = Table(v))
  BY <1>1, <1>v, TablesOfPages DEF copy_page, TypeOK
<1>6. /\ tab \in {"zero", dtab[p]}
      /\ tab # dtab[p] => v = "data" /\ dtab[p] = "none"
      /\ v = "data" => tab # "none"
  BY <1>v
<1>7. \A q \in Procs : dtab'[q] = IF q = p THEN tab ELSE dtab[q]
  BY <1>1, <1>4 DEF TypeOK
<1>8. /\ zeroPte'["data"] = IF v = "data" /\ tab = "zero"
                            THEN Full(next) ELSE zeroPte["data"]
      /\ zeroPte'["datanext"] = zeroPte["datanext"]
  BY <1>4, <1>v, PageNames
<1>9. ASSUME NEW q \in Procs, NEW u \in Pages
      PROVE  Entry(q, u)' =
                     IF \/ q = p /\ u = v
                        \/ v = "data" /\ u = "data" /\ tab = "zero"
                             /\ dtab[q] = "zero"
                     THEN Full(next) ELSE Entry(q, u)
  <2>1. CASE u \notin DataPages
    BY <1>4, <1>v, <2>1, PageNames DEF Entry, EntryIn
  <2>2. CASE u = "data"
    BY <1>4, <1>6, <1>7, <1>8, <1>v, <2>2, PageNames DEF Entry, EntryIn
  <2>3. CASE u = "datanext"
    <3>1. zeroPte["datanext"] = Absent /\ u \in DataPages /\ u # v
          /\ (dtab[q] # "own" => pte[q][u] = Absent)
      BY <1>1, <2>3, PageNames DEF Origins
    <3>2. pte'[q][u] = pte[q][u] /\ zeroPte'[u] = Absent /\ zeroPte[u] = Absent
      BY <1>4, <2>3, <3>1
    <3>3. dtab'[q] = dtab[q] \/ dtab[q] = "none"
      BY <1>6, <1>7
    <3> QED BY <2>3, <3>1, <3>2, <3>3 DEF Entry, EntryIn
  <2> QED BY <2>1, <2>2, <2>3, PageNames
<1> HIDE DEF tab
<1>10. \A q \in Procs, u \in Pages :
         pte'[q][u] = IF q = p /\ u = v /\ ~(v = "data" /\ tab = "zero")
                      THEN Full(next) ELSE pte[q][u]
  BY <1>4, <1>v
<1> QED
  BY <1>2, <1>3, <1>4, <1>5, <1>6, <1>8, <1>9, <1>10

LEMMA CopyInv ==
  ASSUME IInv, NEW p \in live, NEW v \in Pages \ {"datanext"},
         cow[p][Region(v)], copy_page(p, v), UNCHANGED <<live, heapAt, stackAt, corrupt>>
  PROVE  IInv'
<1> USE DEF NoFrame, FirstFree
<1>0. /\ TypeOK /\ Blocks /\ Origins /\ Guards /\ Kinds
      /\ WritableIsExclusive
  BY DEF IInv
<1>1. /\ p \in Procs /\ live \subseteq Procs
      /\ live' = live /\ heapAt' = heapAt /\ stackAt' = stackAt
  BY <1>0 DEF TypeOK
<1>2. PICK tab \in {"zero", dtab[p]} :
        /\ tab # dtab[p] => v = "data" /\ dtab[p] = "none"
        /\ v = "data" => tab # "none"
        /\ dtab' = [dtab EXCEPT ![p] = tab]
        /\ \A q \in Procs, u \in Pages :
             pte'[q][u] = IF q = p /\ u = v /\ ~(v = "data" /\ tab = "zero")
                          THEN Full(next) ELSE pte[q][u]
        /\ zeroPte'["data"] = IF v = "data" /\ tab = "zero" THEN Full(next)
                              ELSE zeroPte["data"]
        /\ zeroPte'["datanext"] = zeroPte["datanext"]
        /\ \A q \in Procs, u \in Pages :
             Entry(q, u)' =
               IF \/ q = p /\ u = v
                  \/ v = "data" /\ u = "data" /\ tab = "zero"
                       /\ dtab[q] = "zero"
               THEN Full(next) ELSE Entry(q, u)
  BY CopyEffect
<1>3. /\ next \in Nat /\ next' \in Nat /\ next < next' /\ next' <= MaxFrames
      /\ user' = user \cup {next} /\ cow' = cow
      /\ \A q \in Procs, t \in Tables :
           path'[q][t] <=> path[q][t] \/ (q = p /\ t = Table(v))
  BY CopyEffect
<1>4. /\ Full(next) \in [frame : Frames, w : BOOLEAN]
      /\ Full(next).frame = next /\ Full(next).w
  BY <1>3, MaxFramesAssumption DEF Full, Frames
<1>5. \A q \in Procs : dtab'[q] = IF q = p THEN tab ELSE dtab[q]
  BY <1>0, <1>1, <1>2 DEF TypeOK
<1>6. TypeOK'
  <2>1. /\ pte' \in [Procs -> [Pages -> [frame : Frames, w : BOOLEAN]]]
        /\ zeroPte' \in [DataPages -> [frame : Frames, w : BOOLEAN]]
    BY CopyEffect
  <2>3. content' \in [user' \cup {NoFrame} \cup DataFrames -> Values]
    <3>1. DOMAIN content = user \cup {0} \cup DataFrames
      BY <1>0 DEF TypeOK
    <3>2. \A f : Contents(f) \in Values
      BY <1>0, <3>1, ValuesAssumption DEF TypeOK, Contents
    <3>3. PICK x \in Values :
            content' = [g \in DOMAIN content \cup {next} |->
                          IF g = next THEN x ELSE content[g]]
      BY <3>2 DEF copy_page, CopyTarget
    <3> QED BY <1>0, <1>3, <3>1, <3>3 DEF TypeOK
  <2>4. path' \in [Procs -> [Tables -> BOOLEAN]]
        /\ cow' \in [Procs -> [Regions -> BOOLEAN]]
    BY <1>0, <1>3 DEF copy_page, TypeOK
  <2>5. /\ dtab' \in [Procs -> {"none", "own", "zero"}]
        /\ next' \in 0..(MaxFrames + 1) /\ user' \subseteq Frames
    BY <1>0, <1>1, <1>2, <1>3, MaxFramesAssumption DEF TypeOK, Frames
  <2>7. work' \in 0..MaxWork
    BY <1>0, MaxWorkAssumption DEF TypeOK, copy_page
  <2>6. /\ live' \subseteq Procs /\ heapAt' \in [Procs -> Frames]
        /\ stackAt' \in [Procs -> Frames] /\ corrupt' \in BOOLEAN
    BY <1>0, Zenon DEF TypeOK
  <2> QED BY <2>1, <2>3, <2>4, <2>5, <2>6, <2>7, Zenon DEF TypeOK
<1>7. Blocks'
  <2>1. \A f \in user' : FirstFree <= f /\ f < next'
    BY <1>0, <1>1, <1>3 DEF Blocks, TypeOK, Frames
  <2>2. \A q \in Procs :
          /\ stackAt'[q] + 5 <= next'
          /\ {Behind(heapAt'[q]), Behind(stackAt'[q]), stackAt'[q] - 1}
               \cap user' = {}
    BY <1>0, <1>1, <1>3 DEF Blocks, TypeOK, Behind, Frames
  <2> QED BY <1>0, <1>1, <1>3, <2>1, <2>2 DEF Blocks
<1>8. Origins'
  <2>1. ASSUME NEW q \in live', NEW u \in Pages
        PROVE  Mapped(u, pte[q][u].frame, OwnFrame(q, u))'
    <3>1. q \in Procs /\ OwnFrame(q, u)' = OwnFrame(q, u)
      BY <1>1 DEF OwnFrame
    <3>2. pte'[q][u] = Full(next) \/ pte'[q][u] = pte[q][u]
      BY <1>2, <3>1
    <3> QED BY <1>0, <1>1, <1>3, <1>4, <3>1, <3>2 DEF Origins, Mapped
  <2>2. \A q \in Procs \ live', u \in Pages : pte'[q][u] = Absent
    BY <1>0, <1>1, <1>2 DEF Origins
  <2>3. \A q \in Procs, u \in DataPages : dtab'[q] # "own" => pte'[q][u] = Absent
    BY <1>0, <1>1, <1>2, <1>5, PageNames DEF Origins, TypeOK
  <2>4. Mapped("data", zeroPte["data"].frame, DataFrame)'
    BY <1>0, <1>2, <1>3, <1>4 DEF Origins, Mapped
  <2>5. zeroPte'["datanext"] = Absent
    BY <1>0, <1>2 DEF Origins
  <2> QED BY <2>1, <2>2, <2>3, <2>4, <2>5 DEF Origins
<1>9. Guards'
  <2>1. \A q \in Procs, u \in Pages : pte'[q][u].w => path'[q][Table(u)]
    BY <1>0, <1>2, <1>3, TablesOfPages DEF Guards
  <2>2. \A q \in Procs : q \notin live' => dtab'[q] = "none"
    BY <1>0, <1>1, <1>5 DEF Guards
  <2>3. ASSUME NEW q \in live', NEW u \in Pages, ~cow'[q][Region(u)]
        PROVE  /\ path'[q][Table(u)]
               /\ pte'[q][u].frame # NoFrame => pte'[q][u].w
    <3>1. q \in live /\ q \in Procs /\ ~cow[q][Region(u)]
      BY <1>1, <1>3, <2>3
    <3>2. pte'[q][u] = pte[q][u]
      BY <1>2, <3>1
    <3> QED BY <1>0, <1>3, <3>1, <3>2, TablesOfPages DEF Guards
  <2>4. \A q \in live' : dtab'[q] = "zero" => cow'[q]["low"]
    BY <1>0, <1>1, <1>2, <1>3, <1>5, RegionOf DEF Guards
  <2> QED BY <2>1, <2>2, <2>3, <2>4 DEF Guards
<1>10. \A q \in Procs, u \in Pages :
         /\ Entry(q, u).frame < next \/ Stray(q, u)
         /\ Entry(q, u)' = Entry(q, u) => (Stray(q, u)' <=> Stray(q, u))
         /\ Entry(q, u)' = Entry(q, u)
            \/ (Entry(q, u)' = Full(next) /\ u = v
                 /\ (q = p \/ (v = "data" /\ dtab'[q] = "zero")))
  BY <1>2, <1>5, FramesBelow, StrayPages
<1>11. Kinds'
  <2> SUFFICES ASSUME NEW q \in live, NEW x \in live,
                      NEW a \in Pages, NEW b \in Pages,
                      Entry(q, a)'.frame \in user \cup {next},
                      Entry(q, a)'.frame = Entry(x, b)'.frame,
                      ~Stray(q, a)', ~Stray(x, b)'
               PROVE  a = b
    BY <1>1, <1>3 DEF Kinds
  <2>1. q \in Procs /\ x \in Procs
    BY <1>1
  <2> QED BY <1>0, <1>3, <1>4, <1>10, <2>1 DEF Kinds
<1>12. WritableIsExclusive'
  <2> SUFFICES ASSUME NEW q \in live, NEW x \in live,
                      NEW a \in Pages, NEW b \in Pages,
                      <<q, a>> # <<x, b>>, Writable(q, a)',
                      Entry(q, a)'.frame = Entry(x, b)'.frame,
                      ~Stray(q, a)', ~Stray(x, b)'
               PROVE  a \in DataPages /\ b = a /\ dtab'[q] = "zero"
                        /\ dtab'[x] = "zero"
    BY <1>1 DEF WritableIsExclusive
  <2>1. q \in Procs /\ x \in Procs /\ Table(a) \in Tables
    BY <1>1, TablesOfPages
  <2>2. CASE Entry(q, a)' = Full(next)
    <3>1. Entry(x, b)' = Full(next)
      BY <1>3, <1>4, <1>10, <2>1, <2>2
    <3>2. a = v /\ b = v /\ q # x
      BY <1>3, <1>4, <1>10, <2>1, <2>2, <3>1
    <3>3. Entry(q, v) # Full(next) /\ Entry(x, v) # Full(next)
      BY <1>3, <1>4, <1>10, <2>1, <2>2, <3>1, <3>2
    <3>4. v = "data" /\ tab = "zero"
      BY <1>2, <2>1, <2>2, <3>1, <3>2, <3>3
    <3>5. dtab'[q] = "zero" /\ dtab'[x] = "zero"
      BY <1>1, <1>5, <1>10, <2>1, <2>2, <3>1, <3>2, <3>3, <3>4
    <3> QED BY <3>2, <3>4, <3>5, PageNames
  <2>3. CASE Entry(q, a)' # Full(next)
    <3>1. Entry(q, a)' = Entry(q, a) /\ ~(q = p /\ a = v)
      BY <1>2, <1>10, <2>1, <2>3
    <3>2. Entry(x, b)' = Entry(x, b)
      BY <1>3, <1>4, <1>10, <2>1, <3>1
    <3>3. path[q][Table(a)]
      <4>1. CASE a \in DataPages /\ dtab[q] = "zero"
        <5>1. Entry(q, a) = zeroPte[a] /\ zeroPte["datanext"].frame = 0
          BY <1>0, <4>1 DEF Entry, EntryIn, Origins, Absent
        <5>2. a = "data"
          BY <3>1, <4>1, <5>1, PageNames DEF Writable, Present
        <5> QED BY <1>3, <2>1, <3>1, <5>2, PageNames, TableOf DEF Writable
      <4>2. CASE ~(a \in DataPages /\ dtab[q] = "zero")
        BY <1>0, <2>1, <3>1, <4>2 DEF Writable, Entry, EntryIn, Guards
      <4> QED BY <4>1, <4>2
    <3>4. Writable(q, a)
      BY <3>1, <3>3 DEF Writable, Present
    <3>5. a \in DataPages /\ b = a /\ dtab[q] = "zero" /\ dtab[x] = "zero"
      BY <1>0, <1>10, <2>1, <3>1, <3>2, <3>4 DEF WritableIsExclusive
    <3> QED BY <1>2, <1>5, <2>1, <3>5
  <2> QED BY <2>2, <2>3
<1> QED
  BY <1>6, <1>7, <1>8, <1>9, <1>11, <1>12 DEF IInv

(* The pages N of p get their own frames.                                  *)
Filled(p, v, N) ==
  /\ v \in N
  /\ IF v \in DataPages THEN N \subseteq DataPages ELSE N = {v}
  /\ \A q \in Procs, u \in Pages :
       /\ pte'[q][u] = IF q = p /\ u \in N THEN Full(OwnFrame(p, u))
                       ELSE pte[q][u]
       /\ Entry(q, u)' = IF q = p /\ u \in N THEN Full(OwnFrame(p, u))
                         ELSE Entry(q, u)

(* map_user_address from the fault handler: the page was not present, so   *)
(* it is a page of the data or the one below the stack.  The page behind   *)
(* the data is mapped along with it.                                       *)
LEMMA MapEffect ==
  ASSUME IInv, NEW p \in live, NEW v \in Pages, ~Writable(p, v),
         ~cow[p][Region(v)], map_user_address(p, v)
  PROVE  /\ v \in DataPages \cup {"stackbelow"}
         /\ next' \in Nat /\ next <= next' /\ next' <= MaxFrames
         /\ UNCHANGED <<user, content, cow, work, zeroPte>>
         /\ dtab[p] # "zero" \/ v \notin DataPages
         /\ dtab' = [dtab EXCEPT ![p] = IF v \in DataPages THEN "own"
                                        ELSE dtab[p]]
         /\ pte' \in [Procs -> [Pages -> [frame : Frames, w : BOOLEAN]]]
         /\ path' = [path EXCEPT ![p][Table(v)] = TRUE]
         /\ path[p][Table(v)]
         /\ \E N \in SUBSET Pages : Filled(p, v, N)
<1> USE DEF NoFrame, FirstFree
<1>0. TypeOK /\ Blocks /\ Origins /\ Guards /\ p \in Procs
  BY DEF IInv, TypeOK
<1>1. /\ path[p][Table(v)]
      /\ pte[p][v].frame # NoFrame => pte[p][v].w
  BY <1>0 DEF Guards
<1>2. dtab[p] # "zero" \/ v \notin DataPages
  BY <1>0, RegionOf, PageNames DEF Guards
<1>3. Entry(p, v) = pte[p][v] /\ ~Present(p, v) /\ pte[p][v].frame = NoFrame
  BY <1>1, <1>2 DEF Entry, EntryIn, Writable, Present
<1>4. v \in DataPages \cup {"stackbelow"}
  <2>1. Mapped(v, 0, OwnFrame(p, v))
    BY <1>0, <1>3 DEF Origins
  <2>2. OwnFrame(p, "heapnext") > 0 /\ OwnFrame(p, "stacknext") > 0
    BY <1>0, OwnFrames DEF Blocks, TypeOK, Frames, Behind
  <2>3. 0 \notin user
    BY <1>0 DEF Blocks
  <2> QED BY <2>1, <2>2, <2>3, PageNames DEF Mapped
<1> DEFINE new == v \in DataPages /\ dtab[p] = "none"
           tab == IF new THEN "own" ELSE dtab[p]
           N == {u \in {v, Following(v)} : pte[p][u].frame = NoFrame}
           entries == [u \in Pages |-> IF u \in N THEN Full(OwnFrame(p, u))
                                      ELSE EntryIn(p, u, tab)]
<1>5. /\ tab = IF v \in DataPages THEN "own" ELSE dtab[p]
      /\ v \in DataPages => tab = "own"
  BY <1>0, <1>2 DEF TypeOK
<1>6. /\ next' \in Nat /\ next <= next' /\ next' <= MaxFrames
      /\ UNCHANGED <<user, content, cow, work>>
  BY <1>0, MaxFramesAssumption DEF map_user_address, TypeOK
<1>7. /\ v \in N /\ N \subseteq Pages
      /\ IF v \in DataPages THEN N \subseteq DataPages ELSE N = {v}
  <2>1. /\ Following("data") = "datanext" /\ Following("datanext") = "datanext"
        /\ Following("stackbelow") = "stack"
    BY Zenon DEF Following
  <2>2. pte[p]["stack"].frame # 0
    BY <1>0, PageNames DEF Origins, Mapped, Blocks
  <2> QED BY <1>3, <1>4, <2>1, <2>2, PageNames
<1>8. \A u \in N : EntryIn(p, u, tab) = pte[p][u]
  BY <1>2, <1>5, <1>7 DEF EntryIn
<1>9. SetEntries(p, entries, tab)
  <2>1. \A u \in Pages :
          (u \in {v, Following(v)} /\ EntryIn(p, u, tab).frame = NoFrame)
            <=> u \in N
    <3>1. ~(v \in DataPages /\ tab = "zero")
      BY <1>5
    <3>2. Following(v) \in DataPages => v \in DataPages
      BY <1>4, PageNames, Zenon DEF Following
    <3> QED BY <3>1, <3>2 DEF EntryIn
  <2>2. SetEntries(p, [u \in Pages |->
             IF u \in {v, Following(v)} /\ EntryIn(p, u, tab).frame = NoFrame
             THEN Full(OwnFrame(p, u)) ELSE EntryIn(p, u, tab)], tab)
    BY Zenon DEF map_user_address
  <2> HIDE DEF tab, N
  <2>3. entries = [u \in Pages |->
             IF u \in {v, Following(v)} /\ EntryIn(p, u, tab).frame = NoFrame
             THEN Full(OwnFrame(p, u)) ELSE EntryIn(p, u, tab)]
    BY <2>1
  <2> QED BY <2>2, <2>3
<1>10. \A u \in N : Full(OwnFrame(p, u)) \in [frame : Frames, w : BOOLEAN]
  <2>1. \A u \in DataPages : OwnFrame(p, u) \in Frames
    BY StrayPages, DataPlaces
  <2>2. OwnFrame(p, "stackbelow") \in Frames
    BY <1>0, OwnFrames, MaxFramesAssumption DEF Blocks, TypeOK, Frames
  <2>3. \A u \in N : OwnFrame(p, u) \in Frames
    BY <1>4, <1>7, <2>1, <2>2
  <2> QED BY <2>3 DEF Full
<1>11. \A u \in Pages : EntryIn(p, u, tab) \in [frame : Frames, w : BOOLEAN]
  BY <1>0 DEF TypeOK, EntryIn
<1>12. entries \in [Pages -> [frame : Frames, w : BOOLEAN]]
  BY <1>10, <1>11
<1>13. \A u \in Pages : entries[u] = IF u \in N THEN Full(OwnFrame(p, u))
                                     ELSE EntryIn(p, u, tab)
  OBVIOUS
<1> HIDE DEF entries, N, tab, new
<1>14. /\ dtab' = [dtab EXCEPT ![p] = tab]
       /\ pte' \in [Procs -> [Pages -> [frame : Frames, w : BOOLEAN]]]
       /\ zeroPte' \in [DataPages -> [frame : Frames, w : BOOLEAN]]
       /\ \A q \in Procs, u \in Pages :
            pte'[q][u] = IF q = p /\ ~(u \in DataPages /\ tab = "zero")
                         THEN entries[u] ELSE pte[q][u]
       /\ \A u \in DataPages :
            zeroPte'[u] = IF tab = "zero" THEN entries[u] ELSE zeroPte[u]
  BY <1>0, <1>9, <1>12, EntriesSet
<1>15. zeroPte' = zeroPte
  <2>1. \A u \in DataPages : zeroPte'[u] = zeroPte[u]
    <3>1. ASSUME NEW u \in DataPages, tab = "zero"
          PROVE  entries[u] = zeroPte[u]
      <4>1. u \in Pages /\ u \notin N
        BY <1>4, <1>5, <1>7, <3>1, PageNames
      <4> QED BY <1>13, <3>1, <4>1 DEF EntryIn
    <3> QED BY <1>14, <3>1
  <2> QED BY <1>0, <1>14, <2>1 DEF TypeOK
<1>16. \A q \in Procs, u \in Pages :
         pte'[q][u] = IF q = p /\ u \in N THEN Full(OwnFrame(p, u))
                      ELSE pte[q][u]
  <2>1. \A u \in N : ~(u \in DataPages /\ tab = "zero")
    BY <1>4, <1>5, <1>7, PageNames
  <2> QED BY <1>13, <1>14, <2>1 DEF EntryIn
<1>17. path' = [path EXCEPT ![p][Table(v)] = TRUE]
  <2>1. \/ path' = [path EXCEPT ![p]["data"] = TRUE] /\ v \in DataPages
        \/ path' = path
    BY DEF map_user_address
  <2>2. path = [path EXCEPT ![p][Table(v)] = TRUE]
    <3>1. path[p][Table(v)] = TRUE
      BY <1>0, <1>1, TablesOfPages DEF TypeOK
    <3>2. path[p] = [path[p] EXCEPT ![Table(v)] = TRUE]
      BY <1>0, <3>1 DEF TypeOK
    <3> QED BY <1>0, <3>2 DEF TypeOK
  <2> QED BY <2>1, <2>2, TableOf, PageNames
<1>18. ASSUME NEW q \in Procs, NEW u \in Pages
       PROVE  Entry(q, u)' = IF q = p /\ u \in N THEN Full(OwnFrame(p, u))
                             ELSE Entry(q, u)
  <2>1. dtab'[q] = IF q = p THEN tab ELSE dtab[q]
    BY <1>0, <1>14 DEF TypeOK
  <2>2. pte'[q][u] = IF q = p /\ u \in N THEN Full(OwnFrame(p, u))
                     ELSE pte[q][u]
    BY <1>16
  <2>3. u \in N => ~(u \in DataPages /\ tab = "zero")
    BY <1>4, <1>5, <1>7, PageNames
  <2>4. tab = "zero" <=> dtab[p] = "zero"
    BY <1>2, <1>5
  <2> QED BY <1>15, <2>1, <2>2, <2>3, <2>4 DEF Entry, EntryIn
<1>19. N \in SUBSET Pages /\ Filled(p, v, N)
  BY <1>7, <1>16, <1>18, Zenon DEF Filled
<1> QED
  BY <1>1, <1>2, <1>4, <1>5, <1>6, <1>14, <1>15, <1>17, <1>19

LEMMA MapInv ==
  ASSUME IInv, NEW p \in live, NEW v \in Pages, ~Writable(p, v),
         ~cow[p][Region(v)], map_user_address(p, v),
         UNCHANGED <<live, heapAt, stackAt, corrupt>>
  PROVE  IInv'
<1> USE DEF NoFrame, FirstFree
<1>0. /\ TypeOK /\ Blocks /\ Origins /\ Guards /\ Kinds
      /\ WritableIsExclusive
  BY DEF IInv
<1>1. /\ p \in Procs /\ live \subseteq Procs
      /\ live' = live /\ heapAt' = heapAt /\ stackAt' = stackAt
  BY <1>0 DEF TypeOK
<1>2. /\ v \in DataPages \cup {"stackbelow"}
      /\ next' \in Nat /\ next <= next' /\ next' <= MaxFrames
      /\ UNCHANGED <<user, content, cow, work, zeroPte>>
      /\ dtab[p] # "zero" \/ v \notin DataPages
      /\ dtab' = [dtab EXCEPT ![p] = IF v \in DataPages THEN "own" ELSE dtab[p]]
      /\ pte' \in [Procs -> [Pages -> [frame : Frames, w : BOOLEAN]]]
      /\ path' = [path EXCEPT ![p][Table(v)] = TRUE]
      /\ path[p][Table(v)]
  BY MapEffect
<1>n. PICK N \in SUBSET Pages : Filled(p, v, N)
  BY MapEffect
<1>3. /\ v \in N /\ N \subseteq Pages
      /\ IF v \in DataPages THEN N \subseteq DataPages ELSE N = {v}
      /\ \A q \in Procs, u \in Pages :
           /\ pte'[q][u] = IF q = p /\ u \in N THEN Full(OwnFrame(p, u))
                           ELSE pte[q][u]
           /\ Entry(q, u)' = IF q = p /\ u \in N THEN Full(OwnFrame(p, u))
                             ELSE Entry(q, u)
  BY <1>n, Zenon DEF Filled
<1>4. ASSUME NEW u \in N
      PROVE  /\ Full(OwnFrame(p, u)).frame = OwnFrame(p, u)
             /\ Full(OwnFrame(p, u)).w
             /\ u \in Pages /\ OwnFrame(p, u)' = OwnFrame(p, u)
             /\ u \in DataPages \cup {"stackbelow"}
             /\ u = "stackbelow" => v = "stackbelow"
  <2>1. OwnFrame(p, u)' = OwnFrame(p, u)
    BY <1>1, <1>3, OwnFrames, PageNames
  <2> QED BY <1>2, <1>3, <2>1, PageNames DEF Full
<1>5. \A q \in Procs :
        dtab'[q] = IF q = p /\ v \in DataPages THEN "own" ELSE dtab[q]
  BY <1>0, <1>1, <1>2 DEF TypeOK
<1>6. /\ \A u \in N \cap DataPages : Stray(p, u)'
      /\ \A q \in Procs, u \in Pages :
           ~(q = p /\ u \in N) => (Stray(q, u)' <=> Stray(q, u))
  <2>1. ASSUME NEW u \in N \cap DataPages
        PROVE  Stray(p, u)'
    <3>1. Entry(p, u)' = Full(OwnFrame(p, u))
      BY <1>1, <1>3
    <3>2. Entry(p, u)'.frame = OwnFrame(p, u)
      BY <1>4, <3>1
    <3> QED BY <3>2, StrayPages
  <2>2. ASSUME NEW q \in Procs, NEW u \in Pages, ~(q = p /\ u \in N)
        PROVE  Stray(q, u)' <=> Stray(q, u)
    <3>1. Entry(q, u)' = Entry(q, u)
      BY <1>3, <2>2
    <3> QED BY <3>1, StrayPages
  <2> QED BY <2>1, <2>2
<1>7. \A q \in Procs, t \in Tables : path'[q][t] <=> path[q][t]
  BY <1>0, <1>1, <1>2, TablesOfPages DEF TypeOK
<1>8. TypeOK'
  <2>1. pte' \in [Procs -> [Pages -> [frame : Frames, w : BOOLEAN]]]
    BY <1>2
  <2>2. path' \in [Procs -> [Tables -> BOOLEAN]]
    BY <1>0, <1>2 DEF TypeOK
  <2>3. /\ dtab' \in [Procs -> {"none", "own", "zero"}]
        /\ next' \in 0..(MaxFrames + 1)
    BY <1>0, <1>1, <1>2, MaxFramesAssumption DEF TypeOK
  <2>4. /\ live' \subseteq Procs /\ heapAt' \in [Procs -> Frames]
        /\ stackAt' \in [Procs -> Frames] /\ corrupt' \in BOOLEAN
        /\ user' \subseteq Frames /\ cow' \in [Procs -> [Regions -> BOOLEAN]]
        /\ content' \in [user' \cup {NoFrame} \cup DataFrames -> Values]
        /\ zeroPte' \in [DataPages -> [frame : Frames, w : BOOLEAN]]
        /\ work' \in 0..MaxWork
    BY <1>0, <1>2, Zenon DEF TypeOK
  <2> QED BY <2>1, <2>2, <2>3, <2>4, Zenon DEF TypeOK
<1>9. Blocks'
  <2>1. /\ \A f \in user' : FirstFree <= f /\ f < next'
        /\ \A q \in Procs : stackAt'[q] + 5 <= next'
    BY <1>0, <1>1, <1>2 DEF Blocks, TypeOK, Frames
  <2> QED BY <1>0, <1>1, <1>2, <2>1 DEF Blocks
<1>10. Origins'
  <2>1. ASSUME NEW q \in live', NEW u \in Pages
        PROVE  Mapped(u, pte[q][u].frame, OwnFrame(q, u))'
    <3>1. q \in Procs /\ OwnFrame(q, u)' = OwnFrame(q, u)
      BY <1>1 DEF OwnFrame
    <3>2. CASE q = p /\ u \in N
      <4>1. pte'[q][u].frame = OwnFrame(q, u)'
        BY <1>1, <1>3, <1>4, <3>1, <3>2
      <4> QED BY <1>4, <3>2, <4>1 DEF Mapped
    <3>3. CASE ~(q = p /\ u \in N)
      <4>1. Mapped(u, pte[q][u].frame, OwnFrame(q, u))
        BY <1>0, <1>1 DEF Origins
      <4>2. pte'[q][u] = pte[q][u] /\ user' = user
        BY <1>2, <1>3, <3>1, <3>3
      <4> QED BY <3>1, <4>1, <4>2, Zenon DEF Mapped
    <3> QED BY <3>2, <3>3
  <2>2. \A q \in Procs \ live', u \in Pages : pte'[q][u] = Absent
    BY <1>0, <1>1, <1>3 DEF Origins
  <2>3. \A q \in Procs, u \in DataPages : dtab'[q] # "own" => pte'[q][u] = Absent
    <3> SUFFICES ASSUME NEW q \in Procs, NEW u \in DataPages,
                        dtab'[q] # "own"
                 PROVE  pte'[q][u] = Absent
      OBVIOUS
    <3>1. dtab[q] # "own" /\ ~(q = p /\ v \in DataPages) /\ u \in Pages
      BY <1>5, PageNames
    <3>2. ~(q = p /\ u \in N)
      BY <1>2, <1>3, <3>1, PageNames
    <3> QED BY <1>0, <1>3, <3>1, <3>2 DEF Origins
  <2>4. Mapped("data", zeroPte["data"].frame, DataFrame)'
        /\ zeroPte'["datanext"] = Absent
    BY <1>0, <1>2 DEF Origins, Mapped
  <2> QED BY <2>1, <2>2, <2>3, <2>4 DEF Origins
<1>11. Guards'
  <2>1. \A q \in Procs, u \in Pages : pte'[q][u].w => path'[q][Table(u)]
    <3> SUFFICES ASSUME NEW q \in Procs, NEW u \in Pages, pte'[q][u].w
                 PROVE  path[q][Table(u)]
      BY <1>7, TablesOfPages
    <3>1. CASE q = p /\ u \in N
      <4>1. Table(u) = Table(v)
        BY <1>2, <1>3, <1>4, <3>1, PageNames, TableOf
      <4> QED BY <1>2, <3>1, <4>1
    <3>2. CASE ~(q = p /\ u \in N)
      BY <1>0, <1>3, <3>2 DEF Guards
    <3> QED BY <3>1, <3>2
  <2>2. \A q \in Procs : q \notin live' => dtab'[q] = "none"
    BY <1>0, <1>1, <1>5 DEF Guards
  <2>3. ASSUME NEW q \in live', NEW u \in Pages, ~cow'[q][Region(u)]
        PROVE  /\ path'[q][Table(u)]
               /\ pte'[q][u].frame # NoFrame => pte'[q][u].w
    <3>1. q \in live /\ q \in Procs /\ ~cow[q][Region(u)]
      BY <1>1, <1>2, <2>3
    <3> QED BY <1>0, <1>3, <1>4, <1>7, <3>1, TablesOfPages DEF Guards
  <2>4. \A q \in live' : dtab'[q] = "zero" => cow'[q]["low"]
    BY <1>0, <1>1, <1>2, <1>5 DEF Guards
  <2> QED BY <2>1, <2>2, <2>3, <2>4 DEF Guards
<1>12. Kinds'
  <2> SUFFICES ASSUME NEW q \in live, NEW x \in live,
                      NEW a \in Pages, NEW b \in Pages,
                      Entry(q, a)'.frame \in user,
                      Entry(q, a)'.frame = Entry(x, b)'.frame,
                      ~Stray(q, a)', ~Stray(x, b)'
               PROVE  a = b
    BY <1>1, <1>2 DEF Kinds
  <2>1. q \in Procs /\ x \in Procs
    BY <1>1
  <2>2. \A u \in N : u \notin DataPages => OwnFrame(p, u) \notin user
    BY <1>0, <1>1, <1>4, OwnFrames DEF Blocks
  <2>3. ASSUME NEW y \in live, NEW u \in Pages, Entry(y, u)'.frame \in user,
               ~Stray(y, u)'
        PROVE  Entry(y, u)' = Entry(y, u) /\ ~Stray(y, u)
    <3>1. y \in Procs
      BY <1>1
    <3>2. ~(y = p /\ u \in N)
      BY <1>3, <1>4, <1>6, <2>2, <2>3, <3>1
    <3> QED BY <1>3, <1>6, <2>3, <3>1, <3>2
  <2> QED BY <1>0, <2>3 DEF Kinds
<1>13. ASSUME v = "stackbelow", NEW x \in live, NEW b \in Pages,
              <<x, b>> # <<p, v>>, Entry(x, b).frame = OwnFrame(p, v)
       PROVE  Stray(x, b)
  <2> DEFINE own == OwnFrame(p, v)
  <2>1. /\ x \in Procs /\ own = stackAt[p] - 1 /\ own > 1 /\ own \notin user
        /\ stackAt[p] \in Int /\ stackAt[x] \in Int
    BY <1>0, <1>1, <1>13, OwnFrames DEF Blocks, TypeOK, Frames
  <2> HIDE DEF own
  <2>2. /\ OwnFrame(x, "heapnext") # own /\ OwnFrame(x, "stacknext") # own
    BY <1>0, <1>1, <2>1, OwnFrames DEF Blocks, Behind, LoadFrames
  <2>3. b = "stackbelow" => OwnFrame(x, b) # own
    <3> SUFFICES ASSUME b = "stackbelow", OwnFrame(x, b) = own PROVE FALSE
      OBVIOUS
    <3>1. x # p /\ stackAt[x] = stackAt[p]
      BY <1>13, <2>1, OwnFrames
    <3>2. cow[p]["stack"]
      BY <1>0, <3>1 DEF Blocks, Regions
    <3> QED BY <1>13, <3>2, RegionOf
  <2>4. Entry(x, b).frame = own
    BY <1>13 DEF own
  <2>5. CASE Entry(x, b) = pte[x][b]
    <3>1. Mapped(b, own, OwnFrame(x, b))
      BY <1>0, <2>4, <2>5 DEF Origins
    <3>2. b \in DataPages
      BY <2>1, <2>2, <2>3, <3>1, PageNames DEF Mapped
    <3> QED BY <2>1, <2>4, <3>1, <3>2 DEF Mapped, Stray
  <2>6. CASE Entry(x, b) # pte[x][b]
    <3>1. b \in DataPages /\ zeroPte[b].frame = own
      BY <2>4, <2>6 DEF Entry, EntryIn
    <3>2. own = DataAt(b)
      BY <1>0, <2>1, <3>1, PageNames, DataPlaces DEF Origins, Mapped, Absent
    <3> QED BY <2>4, <3>1, <3>2, StrayPages
  <2> QED BY <2>5, <2>6
<1>14. WritableIsExclusive'
  <2> SUFFICES ASSUME NEW q \in live, NEW x \in live,
                      NEW a \in Pages, NEW b \in Pages,
                      <<q, a>> # <<x, b>>, Writable(q, a)',
                      Entry(q, a)'.frame = Entry(x, b)'.frame,
                      ~Stray(q, a)', ~Stray(x, b)'
               PROVE  a \in DataPages /\ b = a /\ dtab'[q] = "zero"
                        /\ dtab'[x] = "zero"
    BY <1>1 DEF WritableIsExclusive
  <2>1. q \in Procs /\ x \in Procs /\ Table(a) \in Tables
    BY <1>1, TablesOfPages
  <2>2. ASSUME NEW y \in live, NEW z \in live, NEW c \in Pages, NEW d \in Pages,
               <<y, c>> # <<z, d>>, Entry(y, c)'.frame = Entry(z, d)'.frame,
               ~Stray(y, c)', ~Stray(z, d)'
        PROVE  ~(y = p /\ c \in N)
    <3> SUFFICES ASSUME y = p, c \in N PROVE FALSE
      OBVIOUS
    <3>1. c = v /\ v = "stackbelow" /\ N = {v}
      BY <1>2, <1>3, <1>4, <1>6, <2>2
    <3>2. ~(z = p /\ d \in N)
      BY <2>2, <3>1
    <3>3. Entry(z, d)' = Entry(z, d) /\ ~Stray(z, d) /\ z \in Procs
      BY <1>1, <1>3, <1>6, <2>2, <3>2
    <3>4. Entry(z, d).frame = OwnFrame(p, v)
      BY <1>1, <1>3, <1>4, <2>2, <3>1, <3>3
    <3> QED BY <1>13, <2>2, <3>1, <3>3, <3>4
  <2>3. ~(q = p /\ a \in N) /\ ~(x = p /\ b \in N)
    BY <2>2
  <2>4. /\ Writable(q, a) /\ Entry(q, a).frame = Entry(x, b).frame
        /\ ~Stray(q, a) /\ ~Stray(x, b)
    <3>1. Entry(q, a)' = Entry(q, a) /\ Entry(x, b)' = Entry(x, b)
      BY <1>3, <2>1, <2>3
    <3> QED BY <1>6, <1>7, <2>1, <2>3, <3>1 DEF Writable, Present
  <2>5. a \in DataPages /\ b = a /\ dtab[q] = "zero" /\ dtab[x] = "zero"
    BY <1>0, <2>4 DEF WritableIsExclusive
  <2> QED BY <1>2, <1>5, <2>1, <2>5
<1> QED
  BY <1>8, <1>9, <1>10, <1>11, <1>12, <1>14 DEF IInv

(* A store changes what one frame holds, and nothing in the tables.        *)
LEMMA StoreInv ==
  ASSUME IInv, NEW p \in Procs, NEW v \in Pages, NEW x \in Values,
         Write(p, v, x)
  PROVE  IInv'
<1>0. /\ TypeOK /\ Blocks /\ Origins /\ Guards /\ Kinds
      /\ WritableIsExclusive
  BY DEF IInv
<1>1. UNCHANGED <<next, user, live, pte, path, cow, dtab, zeroPte, heapAt,
                  stackAt, work>>
  BY DEF Write, tables, places
<1>2. TypeOK'
  <2>1. content' \in [user \cup {NoFrame} \cup DataFrames -> Values]
    BY <1>0 DEF TypeOK, Write
  <2>2. corrupt' \in BOOLEAN
    BY <1>0, Zenon DEF TypeOK, Write
  <2> QED BY <1>0, <1>1, <2>1, <2>2, Zenon DEF TypeOK
<1>3. Blocks' /\ Guards'
  BY <1>0, <1>1 DEF Blocks, Guards
<1>4. Origins'
  BY <1>0, <1>1 DEF Origins, Mapped, OwnFrame
<1>5. Kinds' /\ WritableIsExclusive'
  BY <1>0, <1>1
  DEF Kinds, WritableIsExclusive, Entry, EntryIn, Writable, Present, Stray,
      OwnFrame
<1> QED
  BY <1>2, <1>3, <1>4, <1>5 DEF IInv

(* execvpe: the process gets the tables of a new load.                     *)
LEMMA ExecEffect ==
  ASSUME IInv, NEW p \in Procs, NEW stale \in BOOLEAN, do_execvpe(p, stale)
  PROVE  /\ p \in live
         /\ next \in Nat /\ next' = next + 17 /\ next' <= MaxFrames
         /\ user' = user \cup {next + 3, next + 7, next + 12}
         /\ live' = live /\ corrupt' = corrupt
         /\ heapAt' = [heapAt EXCEPT ![p] = next + 7]
         /\ stackAt' = [stackAt EXCEPT ![p] = next + 12]
         /\ dtab' = [dtab EXCEPT ![p] = "none"]
         /\ \A q \in Procs, v \in Pages :
              pte'[q][v] = IF q = p THEN LoadedTable(next)[v] ELSE pte[q][v]
         /\ \A q \in Procs, t \in Tables : path'[q][t] <=> q = p \/ path[q][t]
         /\ \A q \in Procs, r \in Regions : cow'[q][r] <=> q # p /\ cow[q][r]
         /\ \A v \in DataPages : zeroPte'[v] = zeroPte[v]
                                  \/ (zeroPte'[v] = Absent /\ dtab[p] = "zero")
         /\ \A q \in Procs, v \in Pages :
              q # p => \/ Entry(q, v)' = Entry(q, v)
                       \/ Entry(q, v)' = Absent /\ v \in DataPages
         /\ \A v \in Pages : Entry(p, v)' = LoadedTable(next)[v]
<1>0. TypeOK /\ p \in live
  BY DEF IInv, do_execvpe
<1>1. /\ next \in Nat /\ next' = next + 17 /\ next' <= MaxFrames
      /\ user' = user \cup {next + 3, next + 7, next + 12}
      /\ heapAt' = [heapAt EXCEPT ![p] = next + 7]
      /\ stackAt' = [stackAt EXCEPT ![p] = next + 12]
  BY <1>0
  DEF do_execvpe, TypeOK, LoadFrames, Given, TextOf, HeapOf, StackOf
<1>2. /\ dtab' = [dtab EXCEPT ![p] = "none"]
      /\ pte' = [pte EXCEPT ![p] = LoadedTable(next)]
      /\ \A v \in DataPages :
           zeroPte'[v] = IF dtab[p] = "zero" THEN Absent ELSE zeroPte[v]
  BY DEF do_execvpe, NewTables
<1>3. /\ \A q \in Procs, t \in Tables : path'[q][t] <=> q = p \/ path[q][t]
      /\ \A q \in Procs, r \in Regions : cow'[q][r] <=> q # p /\ cow[q][r]
  BY <1>0 DEF do_execvpe, TypeOK
<1>4. \A q \in Procs, v \in Pages :
        pte'[q][v] = IF q = p THEN LoadedTable(next)[v] ELSE pte[q][v]
  BY <1>0, <1>2 DEF TypeOK
<1>5. \A q \in Procs : dtab'[q] = IF q = p THEN "none" ELSE dtab[q]
  BY <1>0, <1>2 DEF TypeOK
<1>6. ASSUME NEW q \in Procs, NEW v \in Pages, q # p
      PROVE  \/ Entry(q, v)' = Entry(q, v)
             \/ Entry(q, v)' = Absent /\ v \in DataPages
  BY <1>2, <1>4, <1>5, <1>6 DEF Entry, EntryIn
<1>7. \A v \in Pages : Entry(p, v)' = LoadedTable(next)[v]
  BY <1>4, <1>5 DEF Entry, EntryIn
<1>8. live' = live /\ corrupt' = corrupt
  BY Zenon DEF do_execvpe
<1> QED
  BY <1>0, <1>1, <1>2, <1>3, <1>4, <1>6, <1>7, <1>8

LEMMA ExecInv ==
  ASSUME IInv, NEW p \in Procs, NEW stale \in BOOLEAN, do_execvpe(p, stale)
  PROVE  IInv'
<1> USE DEF NoFrame, FirstFree
<1>0. /\ TypeOK /\ Blocks /\ Origins /\ Guards /\ Kinds
      /\ WritableIsExclusive
  BY DEF IInv
<1>1. /\ p \in live /\ live \subseteq Procs /\ live' = live
      /\ next \in Nat /\ next' = next + 17 /\ next' <= MaxFrames
      /\ user' = user \cup {next + 3, next + 7, next + 12}
      /\ dtab' = [dtab EXCEPT ![p] = "none"]
      /\ \A q \in Procs, v \in Pages :
           pte'[q][v] = IF q = p THEN LoadedTable(next)[v] ELSE pte[q][v]
      /\ \A q \in Procs, t \in Tables : path'[q][t] <=> q = p \/ path[q][t]
      /\ \A q \in Procs, r \in Regions : cow'[q][r] <=> q # p /\ cow[q][r]
      /\ \A v \in DataPages : zeroPte'[v] = zeroPte[v]
                               \/ (zeroPte'[v] = Absent /\ dtab[p] = "zero")
  BY <1>0, ExecEffect DEF TypeOK
<1>2. /\ \A q \in Procs, v \in Pages :
           q # p => \/ Entry(q, v)' = Entry(q, v)
                    \/ Entry(q, v)' = Absent /\ v \in DataPages
      /\ \A v \in Pages : Entry(p, v)' = LoadedTable(next)[v]
  BY ExecEffect
<1>3. \A q \in Procs :
        /\ heapAt'[q] = IF q = p THEN next + 7 ELSE heapAt[q]
        /\ stackAt'[q] = IF q = p THEN next + 12 ELSE stackAt[q]
        /\ dtab'[q] = IF q = p THEN "none" ELSE dtab[q]
  BY <1>0, ExecEffect DEF TypeOK
<1>4. \A v \in Pages :
        /\ LoadedTable(next)[v].frame =
             IF v = "text" THEN next + 3 ELSE IF v = "heap" THEN next + 7
             ELSE IF v = "heapnext" THEN next + 8
             ELSE IF v = "stack" THEN next + 12
             ELSE IF v = "stacknext" THEN next + 13 ELSE NoFrame
        /\ LoadedTable(next)[v].w <=> v \notin DataPages \cup {"stackbelow"}
  BY <1>1, LoadedFrames
<1>5. TypeOK'
  <2>1. pte' \in [Procs -> [Pages -> [frame : Frames, w : BOOLEAN]]]
    <3>1. \A v \in Pages : LoadedTable(next)[v] \in [frame : Frames, w : BOOLEAN]
      BY <1>1, <1>4, LoadedFrames, MaxFramesAssumption DEF Frames
    <3>2. LoadedTable(next) \in [Pages -> [frame : Frames, w : BOOLEAN]]
      BY <3>1, LoadedEntries
    <3>3. pte' = [pte EXCEPT ![p] = LoadedTable(next)]
      BY DEF do_execvpe, NewTables
    <3> QED BY <1>0, <3>2, <3>3 DEF TypeOK
  <2>2. content' \in [user' \cup {NoFrame} \cup DataFrames -> Values]
    <3>1. /\ DOMAIN content = user \cup {NoFrame} \cup DataFrames
          /\ \A f \in DOMAIN content : content[f] \in Values
      BY <1>0 DEF TypeOK
    <3>2. user' = user \cup Given(next)
      BY DEF do_execvpe
    <3>3. DOMAIN content \cup Given(next) = user' \cup {NoFrame} \cup DataFrames
      BY <3>1, <3>2
    <3> DEFINE text == IF stale THEN pte[p]["text"].frame ELSE TextOf(next)
    <3>4. content' = [f \in DOMAIN content \cup Given(next) |->
                        IF f = text THEN Image
                        ELSE IF f \in Given(next) THEN Zero ELSE content[f]]
      BY DEF do_execvpe
    <3> HIDE DEF text
    <3> QED BY <3>1, <3>3, <3>4, ValuesAssumption
  <2>3. path' \in [Procs -> [Tables -> BOOLEAN]]
        /\ cow' \in [Procs -> [Regions -> BOOLEAN]]
    BY <1>0 DEF do_execvpe, TypeOK
  <2>4. /\ dtab' \in [Procs -> {"none", "own", "zero"}]
        /\ next' \in 0..(MaxFrames + 1) /\ live' \subseteq Procs
    BY <1>0, <1>1, MaxFramesAssumption DEF TypeOK
  <2>9. /\ next + 3 \in Frames /\ next + 7 \in Frames /\ next + 12 \in Frames
    BY <1>1, MaxFramesAssumption DEF Frames
  <2>5. /\ heapAt' \in [Procs -> Frames] /\ stackAt' \in [Procs -> Frames]
        /\ user' \subseteq Frames
    <3>1. /\ heapAt' = [heapAt EXCEPT ![p] = next + 7]
          /\ stackAt' = [stackAt EXCEPT ![p] = next + 12]
      BY ExecEffect
    <3> QED BY <1>0, <1>1, <2>9, <3>1 DEF TypeOK
  <2>6. work' \in 0..MaxWork
    BY <1>0, MaxWorkAssumption DEF TypeOK, do_execvpe
  <2>7. zeroPte' \in [DataPages -> [frame : Frames, w : BOOLEAN]]
    <3>1. Absent \in [frame : Frames, w : BOOLEAN]
      BY MaxFramesAssumption DEF Absent, Frames
    <3>2. \A v \in DataPages : zeroPte'[v] \in [frame : Frames, w : BOOLEAN]
      BY <1>0, <1>1, <3>1 DEF TypeOK
    <3>3. zeroPte' = [v \in DataPages |-> zeroPte'[v]]
      BY DEF do_execvpe
    <3> QED BY <3>2, <3>3
  <2>8. corrupt' \in BOOLEAN
    BY <1>0, Zenon DEF TypeOK, do_execvpe
  <2> QED BY <2>1, <2>2, <2>3, <2>4, <2>5, <2>6, <2>7, <2>8, Zenon DEF TypeOK
<1>6. Blocks'
  <2>1. \A f \in user' : FirstFree <= f /\ f < next'
    BY <1>0, <1>1 DEF Blocks, TypeOK, Frames
  <2>2. ASSUME NEW q \in Procs
        PROVE  /\ heapAt'[q] = stackAt'[q] - 5
               /\ FirstFree + 12 <= stackAt'[q] /\ stackAt'[q] + 5 <= next'
               /\ {Behind(heapAt'[q]), Behind(stackAt'[q]), stackAt'[q] - 1}
                    \cap user' = {}
    <3>1. CASE q = p
      <4>1. next + 8 \notin user /\ next + 13 \notin user /\ next + 11 \notin user
        BY <1>0, <1>1 DEF Blocks
      <4>2. next >= 14
        BY <1>0, <1>1 DEF Blocks, TypeOK, Frames
      <4> QED BY <1>1, <1>3, <3>1, <4>1, <4>2 DEF Behind
    <3>2. CASE q # p
      <4>1. heapAt[q] \in Int /\ stackAt[q] \in Int
        BY <1>0 DEF TypeOK, Frames
      <4> QED BY <1>0, <1>1, <1>3, <3>2, <4>1 DEF Blocks, Behind
    <3> QED BY <3>1, <3>2
  <2>3. \A q, x \in Procs :
          \/ stackAt'[q] = stackAt'[x]
          \/ stackAt'[q] + LoadFrames <= stackAt'[x]
          \/ stackAt'[x] + LoadFrames <= stackAt'[q]
    <3>1. \A q \in Procs : stackAt[q] + LoadFrames <= next + 12
      BY <1>0, <1>1 DEF Blocks, TypeOK, Frames, LoadFrames
    <3>2. \A q \in Procs : stackAt[q] \in Int
      BY <1>0 DEF TypeOK, Frames
    <3> QED BY <1>0, <1>1, <1>3, <3>1, <3>2 DEF Blocks, LoadFrames
  <2>4. ASSUME NEW q \in live', NEW x \in live', q # x,
               stackAt'[q] = stackAt'[x], NEW r \in Regions
        PROVE  cow'[q][r]
    <3>1. q \in Procs /\ x \in Procs /\ q \in live /\ x \in live
      BY <1>1
    <3>2. \A y \in Procs : stackAt[y] # next + 12
      BY <1>0, <1>1 DEF Blocks, TypeOK, Frames
    <3>3. q # p /\ x # p
      BY <1>3, <2>4, <3>1, <3>2
    <3> QED BY <1>0, <1>1, <1>3, <2>4, <3>1, <3>3 DEF Blocks
  <2> QED BY <2>1, <2>2, <2>3, <2>4 DEF Blocks
<1>7. Origins'
  <2>1. ASSUME NEW q \in live', NEW v \in Pages
        PROVE  Mapped(v, pte[q][v].frame, OwnFrame(q, v))'
    <3>1. CASE q = p
      <4>1. /\ OwnFrame(p, "heapnext")' = next + 8
            /\ OwnFrame(p, "stacknext")' = next + 13
        BY <1>1, <1>3, OwnFrames DEF Behind
      <4>2. pte'[p][v].frame = LoadedTable(next)[v].frame
        BY <1>1
      <4> QED BY <1>1, <1>4, <3>1, <4>1, <4>2, PageNames DEF Mapped
    <3>2. CASE q # p
      <4>1. q \in Procs /\ OwnFrame(q, v)' = OwnFrame(q, v)
        BY <1>1, <1>3, <3>2, OwnFrames, PageNames
      <4> QED BY <1>0, <1>1, <3>2, <4>1 DEF Origins, Mapped
    <3> QED BY <3>1, <3>2
  <2>2. \A q \in Procs \ live', v \in Pages : pte'[q][v] = Absent
    BY <1>0, <1>1 DEF Origins
  <2>3. \A q \in Procs, v \in DataPages : dtab'[q] # "own" => pte'[q][v] = Absent
    BY <1>0, <1>1, <1>3, PageNames, LoadedEntries DEF Origins
  <2>4. Mapped("data", zeroPte["data"].frame, DataFrame)'
        /\ zeroPte'["datanext"] = Absent
    BY <1>0, <1>1, PageNames DEF Origins, Mapped, Absent
  <2> QED BY <2>1, <2>2, <2>3, <2>4 DEF Origins
<1>8. Guards'
  <2>1. \A q \in Procs, v \in Pages : pte'[q][v].w => path'[q][Table(v)]
    BY <1>0, <1>1, TablesOfPages DEF Guards
  <2>2. \A q \in Procs : q \notin live' => dtab'[q] = "none"
    BY <1>0, <1>1, <1>3 DEF Guards
  <2>3. ASSUME NEW q \in live', NEW v \in Pages, ~cow'[q][Region(v)]
        PROVE  /\ path'[q][Table(v)]
               /\ pte'[q][v].frame # NoFrame => pte'[q][v].w
    <3>1. CASE q = p
      BY <1>1, <1>4, <3>1, TablesOfPages, PageNames
    <3>2. CASE q # p
      BY <1>0, <1>1, <2>3, <3>2, TablesOfPages DEF Guards
    <3> QED BY <3>1, <3>2
  <2>4. \A q \in live' : dtab'[q] = "zero" => cow'[q]["low"]
    BY <1>0, <1>1, <1>3 DEF Guards, Regions
  <2> QED BY <2>1, <2>2, <2>3, <2>4 DEF Guards
<1>9. /\ \A q \in Procs, v \in Pages :
           /\ Entry(q, v).frame < next \/ Stray(q, v)
           /\ q # p => \/ /\ Entry(q, v)' = Entry(q, v)
                          /\ Stray(q, v)' <=> Stray(q, v)
                       \/ Entry(q, v)'.frame = 0 /\ v \in DataPages
      /\ \A v \in Pages : /\ Entry(p, v)'.frame \in Nat
                          /\ \/ Entry(p, v)'.frame = 0
                             \/ Entry(p, v)'.frame > next
      /\ \A v, u \in Pages :
           Entry(p, v)'.frame = Entry(p, u)'.frame /\ Entry(p, v)'.frame # 0
             => v = u
      /\ 0 \notin user
  BY <1>0, <1>1, <1>2, <1>4, FramesBelow, StrayPages DEF Absent, Blocks
<1>10. Kinds'
  <2> SUFFICES ASSUME NEW q \in live, NEW x \in live,
                      NEW a \in Pages, NEW b \in Pages,
                      Entry(q, a)'.frame \in user',
                      Entry(q, a)'.frame = Entry(x, b)'.frame,
                      ~Stray(q, a)', ~Stray(x, b)'
               PROVE  a = b
    BY <1>1 DEF Kinds
  <2>1. q \in Procs /\ x \in Procs /\ Entry(q, a)'.frame # 0
    BY <1>1, <1>9
  <2>2. CASE q = p \/ x = p
    BY <1>1, <1>9, <2>1, <2>2
  <2>3. CASE q # p /\ x # p
    BY <1>0, <1>1, <1>9, <2>1, <2>3 DEF Kinds
  <2> QED BY <2>2, <2>3
<1>11. WritableIsExclusive'
  <2> SUFFICES ASSUME NEW q \in live, NEW x \in live,
                      NEW a \in Pages, NEW b \in Pages,
                      <<q, a>> # <<x, b>>, Writable(q, a)',
                      Entry(q, a)'.frame = Entry(x, b)'.frame,
                      ~Stray(q, a)', ~Stray(x, b)'
               PROVE  a \in DataPages /\ b = a /\ dtab'[q] = "zero"
                        /\ dtab'[x] = "zero"
    BY <1>1 DEF WritableIsExclusive
  <2>1. q \in Procs /\ x \in Procs /\ Entry(q, a)'.frame # 0
    BY <1>1 DEF Writable, Present
  <2>2. CASE q = p \/ x = p
    BY <1>1, <1>9, <2>1, <2>2
  <2>3. CASE q # p /\ x # p
    <3>1. Writable(q, a) /\ Entry(q, a).frame = Entry(x, b).frame
          /\ ~Stray(q, a) /\ ~Stray(x, b)
      BY <1>1, <1>9, <2>1, <2>3, TablesOfPages DEF Writable, Present
    <3> QED BY <1>0, <1>3, <2>1, <2>3, <3>1 DEF WritableIsExclusive
  <2> QED BY <2>2, <2>3
<1> QED
  BY <1>5, <1>6, <1>7, <1>8, <1>10, <1>11 DEF IInv

-----------------------------------------------------------------------------
LEMMA Invariance == IInv /\ [Next]_vars => IInv'
<1> SUFFICES ASSUME IInv, [Next]_vars PROVE IInv'
  OBVIOUS
<1>1. ASSUME NEW p \in Procs, NEW c \in Procs, sys_fork(p, c)
      PROVE  IInv'
  BY <1>1, ForkInv
<1>2. ASSUME NEW p \in Procs, NEW v \in Touched, Fault(p, v)
      PROVE  IInv'
  <2>1. p \in live /\ v \in Pages \ {"datanext"} /\ ~Writable(p, v)
    BY <1>2, TouchedAssumption DEF Fault
  <2>2. CASE cow[p][Region(v)]
    BY <1>2, <2>1, <2>2, CopyInv DEF Fault
  <2>3. CASE ~cow[p][Region(v)]
    BY <1>2, <2>1, <2>3, MapInv DEF Fault
  <2> QED BY <2>2, <2>3
<1>3. ASSUME NEW p \in Procs, NEW v \in Touched, NEW x \in Values,
             UserStore(p, v, x) \/ KernelStore(p, v, x)
      PROVE  IInv'
  <2>1. v \in Pages /\ Write(p, v, x)
    BY <1>3, TouchedAssumption DEF UserStore, KernelStore
  <2> QED BY <2>1, StoreInv
<1>4. ASSUME NEW p \in Procs, NEW stale \in BOOLEAN, do_execvpe(p, stale)
      PROVE  IInv'
  BY <1>4, ExecInv
<1>5. CASE UNCHANGED vars
  BY <1>5
  DEF vars, IInv, TypeOK, Blocks, Origins, Mapped, OwnFrame, Guards, Kinds,
      WritableIsExclusive, Entry, EntryIn, Writable, Present, Stray
<1> QED
  BY <1>1, <1>2, <1>3, <1>4, <1>5 DEF Next, Halted

(* The inductive invariant, whatever forks, faults, stores and execs there *)
(* are.                                                                    *)
THEOREM Inductive == Spec => []IInv
BY InitInv, Invariance, PTL DEF Spec

(* The tables always hold frames of the machine, and what user pages hold  *)
(* is always recorded: sys_fork, interrupt4 and do_execvpe keep the types  *)
(* of all they change.                                                     *)
THEOREM TypeCorrect == Spec => []TypeOK
<1>1. IInv => TypeOK
  BY DEF IInv
<1> QED BY <1>1, Inductive, PTL

(* copy_page and duplicate_pt together give nobody the right to write what *)
(* another process has mapped.                                             *)
THEOREM WritersAreAlone == Spec => []WritableIsExclusive
<1>1. IInv => WritableIsExclusive
  BY DEF IInv
<1> QED BY <1>1, Inductive, PTL

(* The loop of map_user_address that runs once too often, and the frames   *)
(* interrupt4 takes from the addresses of the data and of a page below the *)
(* stack, are the only ways to frames not handed out for the page.         *)
THEOREM ForeignFramesAreNamed == Spec => []ForeignFrames
<1>1. IInv => ForeignFrames
  <2> SUFFICES ASSUME IInv, NEW p \in live, NEW v \in Pages, Present(p, v)
               PROVE  \/ /\ v \in Beside \cup DataPages \cup {"stackbelow"}
                         /\ Entry(p, v).frame = OwnFrame(p, v)
                      \/ /\ Entry(p, v).frame \in user
                         /\ \A q \in live, u \in Pages :
                              Entry(q, u).frame = Entry(p, v).frame
                                => u = v \/ Stray(q, u)
    BY DEF ForeignFrames
  <2>1. Origins /\ Kinds
    BY DEF IInv
  <2>2. Mapped(v, Entry(p, v).frame, OwnFrame(p, v))
    <3>1. \/ Entry(p, v) = pte[p][v]
          \/ v \in DataPages /\ Entry(p, v) = zeroPte[v]
      BY DEF Entry, EntryIn
    <3>2. v \in DataPages => Mapped(v, zeroPte[v].frame, OwnFrame(p, v))
      BY <2>1, OwnFrames, PageNames DEF Origins, Mapped, Absent
    <3> QED BY <2>1, <3>1, <3>2 DEF Origins
  <2>3. CASE Entry(p, v).frame \in user /\ ~Stray(p, v)
    BY <2>1, <2>3 DEF Kinds
  <2>4. CASE Stray(p, v)
    BY <2>4 DEF Stray
  <2>5. CASE Entry(p, v).frame \notin user
    BY <2>2, <2>5 DEF Mapped, Present
  <2> QED BY <2>3, <2>4, <2>5
<1> QED BY <1>1, Inductive, PTL

(* interrupt4 never meets a page that is mapped read-only in a region      *)
(* without its COW bit, where map_user_address would leave it as it is.    *)
THEOREM FaultsAreSettled == Spec => []FaultResolves
<1>1. IInv => FaultResolves
  <2> SUFFICES ASSUME IInv, NEW p \in live, NEW v \in Pages,
                      ~Writable(p, v), ~cow[p][Region(v)]
               PROVE  ~Present(p, v) /\ path[p][Table(v)]
    BY DEF FaultResolves
  <2>1. Guards
    BY DEF IInv
  <2>2. Entry(p, v) = pte[p][v]
    BY <2>1, RegionOf, PageNames DEF Guards, Entry, EntryIn
  <2> QED BY <2>1, <2>2 DEF Guards, Writable, Present
<1> QED BY <1>1, Inductive, PTL

-----------------------------------------------------------------------------
(* The refinement: the memory of PrivateMemory under the mapping.          *)
Seen == [p \in Procs |-> [v \in Loaded |-> View(p, v)]]
Shared == [p \in Procs |-> [v \in Loaded |-> Sharers(p, v)]]
Owned == [p \in Procs |-> [v \in Loaded |-> Writable(p, v)]]
Exposed ==
  [p \in Procs |-> [v \in Loaded |-> Entry(p, v).frame \in DataFrames]]

(* The pages of a loaded program have frames of the user; a process not    *)
(* yet created has none.                                                   *)
LEMMA LoadedPages ==
  ASSUME IInv, NEW q \in Procs, NEW v \in Loaded
  PROVE  /\ v \in Pages /\ v \notin DataPages /\ ~Stray(q, v)
         /\ Entry(q, v) = pte[q][v]
         /\ Entry(q, v).frame \in DOMAIN content
         /\ q \in live => Entry(q, v).frame \in user
         /\ q \notin live => Entry(q, v).frame = NoFrame /\ ~Writable(q, v)
         /\ Entry(q, v).frame < next
         /\ NoFrame \notin user
         /\ View(q, v) = content[Entry(q, v).frame]
<1> USE DEF NoFrame
<1>0. TypeOK /\ Blocks /\ Origins
  BY DEF IInv
<1>1. v \in Pages /\ v \notin DataPages \cup Beside /\ v # "stackbelow"
  BY PageNames
<1>2. Entry(q, v) = pte[q][v]
  BY <1>1 DEF Entry, EntryIn
<1>3. q \in live => Entry(q, v).frame \in user
  BY <1>0, <1>1, <1>2 DEF Origins, Mapped
<1>4. q \notin live => Entry(q, v).frame = 0 /\ ~Writable(q, v)
  BY <1>0, <1>1, <1>2 DEF Origins, Absent, Writable, Present
<1>5. DOMAIN content = user \cup {0} \cup DataFrames
  BY <1>0 DEF TypeOK
<1>6. 0 \notin user /\ ~Stray(q, v)
  BY <1>0, <1>1 DEF Blocks, FirstFree, Stray
<1>7. Entry(q, v).frame < next
  BY <1>1, <1>6, FramesBelow
<1> QED
  BY <1>1, <1>2, <1>3, <1>4, <1>5, <1>6, <1>7 DEF View, Contents

(* A step that no process notices is a stuttering step of PrivateMemory.   *)
LEMMA Unnoticed ==
  ASSUME live' = live,
         \A q \in Procs, v \in Loaded :
           /\ View(q, v)' = View(q, v)
           /\ Entry(q, v)'.frame = Entry(q, v).frame
           /\ Writable(q, v)' <=> Writable(q, v),
         live \subseteq Procs
  PROVE  UNCHANGED Memory!vars
<1>1. Seen' = Seen
  BY DEF Seen
<1>2. Shared' = Shared
  BY DEF Shared, Sharers
<1>3. Owned' = Owned
  <2>1. \A q \in Procs, v \in Loaded : Writable(q, v)' = Writable(q, v)
    BY Zenon DEF Writable
  <2> QED BY <2>1, Zenon DEF Owned
<1>4. Exposed' = Exposed
  BY Zenon DEF Exposed
<1> QED
  BY <1>1, <1>2, <1>3, <1>4, Zenon DEF Memory!vars, Seen, Shared, Owned, Exposed

(* The first program has its memory for itself.                            *)
LEMMA RefinesInit == Init => Memory!Init
<1> SUFFICES ASSUME Init PROVE Memory!Init
  OBVIOUS
<1>0. IInv /\ TypeOK
  BY InitInv DEF IInv
<1>1. live = {InitProc} /\ live \in SUBSET Procs
  BY ProcsAssumption DEF Init
<1>2. Seen \in [Procs -> [Loaded -> Values]]
  <2>1. \A q \in Procs, v \in Loaded : View(q, v) \in Values
    BY <1>0, LoadedPages DEF TypeOK
  <2> QED BY <2>1 DEF Seen
<1>3. Shared = [p \in Procs |-> [v \in Loaded |-> {p} \cap live]]
  BY <1>1 DEF Shared, Sharers
<1>4. Owned = [p \in Procs |-> [v \in Loaded |-> p \in live]]
  <2>1. ASSUME NEW p \in Procs, NEW v \in Loaded
        PROVE  Writable(p, v) = (p \in live)
    <3>1. Writable(p, v) <=> p \in live
      <4>1. /\ path[InitProc][Table(v)] /\ pte[InitProc][v].w
            /\ pte[InitProc][v].frame # NoFrame
        BY ProcsAssumption, TablesOfPages, PageNames, LoadedFrames
        DEF Init, FirstFree, NoFrame, Unset
      <4>2. /\ Entry(p, v) = pte[p][v]
            /\ p \notin live => ~Writable(p, v)
        BY <1>0, LoadedPages
      <4> QED BY <1>1, <4>1, <4>2 DEF Writable, Present
    <3> QED BY <3>1 DEF Writable
  <2> QED BY <2>1, Zenon DEF Owned
<1>5. Exposed \in [Procs -> [Loaded -> BOOLEAN]]
  <2>1. \A p \in Procs, v \in Loaded : (Entry(p, v).frame \in DataFrames) \in BOOLEAN
    OBVIOUS
  <2> QED BY <2>1, Zenon DEF Exposed
<1> QED
  BY <1>1, <1>2, <1>3, <1>4, <1>5, Zenon
  DEF Memory!Init, Seen, Shared, Owned, Exposed

(* Fork hands down what the parent sees.                                   *)
LEMMA RefinesFork ==
  ASSUME IInv, NEW p \in Procs, NEW c \in Procs, sys_fork(p, c)
  PROVE  Memory!Fork(p, c)
<1>0. /\ IInv' /\ TypeOK /\ p \in live /\ c \notin live /\ p # c
      /\ live' = live \cup {c} /\ content' = content
  BY ForkInv DEF IInv, sys_fork
<1>1. /\ \A q \in Procs, v \in Loaded :
           Entry(q, v)'.frame = Entry(IF q = c THEN p ELSE q, v).frame
  <2> SUFFICES ASSUME NEW q \in Procs, NEW v \in Loaded
               PROVE  pte'[q][v].frame = pte[IF q = c THEN p ELSE q][v].frame
    BY <1>0, LoadedPages DEF Entry, EntryIn
  <2>1. pte'[q][v] = IF q = p THEN ReadOnly(pte[p][v])
                     ELSE IF q = c THEN ReadOnly(pte[p][v]) ELSE pte[q][v]
    BY <1>0, LoadedPages DEF sys_fork, SharedTables, TypeOK
  <2>2. pte[p][v] \in [frame : Frames, w : BOOLEAN]
    BY <1>0, LoadedPages DEF TypeOK
  <2> QED BY <2>1, <2>2, ReadOnlyEntry
<1>2. ASSUME NEW q \in Procs, NEW v \in Loaded
      PROVE  View(q, v)' = View(IF q = c THEN p ELSE q, v)
  BY <1>0, <1>1 DEF View, Contents
<1>3. Seen' = [Seen EXCEPT ![c] = Seen[p]]
  BY <1>2 DEF Seen
<1>4. Shared' = [q \in Procs |-> [v \in Loaded |->
                  IF q \in Shared[p][v] \cup {c} THEN Shared[p][v] \cup {c}
                  ELSE Shared[q][v]]]
  <2>1. ASSUME NEW q \in Procs, NEW v \in Loaded
        PROVE  Sharers(q, v)' =
                 IF q \in Sharers(p, v) \cup {c} THEN Sharers(p, v) \cup {c}
                 ELSE Sharers(q, v)
    <3>1. live \subseteq Procs
      BY <1>0 DEF TypeOK
    <3>2. \A x \in live :
            Entry(x, v)'.frame = Entry(x, v).frame
      BY <1>0, <1>1, <3>1
    <3>3. Entry(c, v)'.frame = Entry(p, v).frame
      BY <1>1
    <3>4. CASE q = c
      <4>1. Sharers(c, v)' = {x \in live : Entry(x, v).frame = Entry(p, v).frame}
                               \cup {c}
        BY <1>0, <3>2, <3>3 DEF Sharers
      <4> QED BY <1>0, <3>4, <4>1 DEF Sharers
    <3>5. CASE q \in Sharers(p, v)
      <4>1. q \in live /\ Entry(q, v).frame = Entry(p, v).frame
        BY <3>5 DEF Sharers
      <4>2. Sharers(q, v)' = {x \in live : Entry(x, v).frame = Entry(p, v).frame}
                               \cup {c}
        BY <1>0, <3>2, <3>3, <4>1 DEF Sharers
      <4> QED BY <1>0, <3>5, <4>2 DEF Sharers
    <3>6. CASE q # c /\ q \notin Sharers(p, v)
      <4>1. CASE q \in live
        BY <1>0, <3>2, <3>3, <3>6, <4>1 DEF Sharers
      <4>2. CASE q \notin live
        BY <1>0, <3>6, <4>2 DEF Sharers
      <4> QED BY <4>1, <4>2
    <3> QED BY <3>4, <3>5, <3>6
  <2> QED BY <2>1, Zenon DEF Shared
<1>5. Owned' = [Owned EXCEPT ![p] = [v \in Loaded |-> FALSE],
                             ![c] = [v \in Loaded |-> FALSE]]
  <2>1. ASSUME NEW q \in Procs, NEW v \in Loaded
        PROVE  Writable(q, v)' = IF q \in {p, c} THEN FALSE ELSE Writable(q, v)
    <3>1. v \in Pages /\ Table(v) \in Tables
      BY LoadedPages, TablesOfPages
    <3>2. path'[q][Table(v)] <=> q \notin {p, c} /\ path[q][Table(v)]
      BY <1>0, <3>1 DEF sys_fork, TypeOK
    <3>3. CASE q \in {p, c}
      BY <3>2, <3>3 DEF Writable
    <3>4. CASE q \notin {p, c}
      <4>1. Entry(q, v)' = Entry(q, v)
        <5>1. pte'[q][v] = pte[q][v]
          BY <1>0, <3>4 DEF sys_fork, SharedTables, TypeOK
        <5> QED BY <1>0, <5>1, LoadedPages DEF Entry, EntryIn
      <4> QED BY <3>2, <3>4, <4>1 DEF Writable, Present
    <3> QED BY <3>3, <3>4
  <2> QED BY <1>0, <2>1 DEF Owned
<1>6. Exposed' = [Exposed EXCEPT ![c] = Exposed[p]]
  <2>1. ASSUME NEW q \in Procs, NEW v \in Loaded
        PROVE  (Entry(q, v)'.frame \in DataFrames) =
                 (Entry(IF q = c THEN p ELSE q, v).frame \in DataFrames)
    <3>1. Entry(q, v)'.frame = Entry(IF q = c THEN p ELSE q, v).frame
      BY <1>1
    <3> QED BY <3>1, Zenon
  <2>2. Exposed' = [q \in Procs |-> [v \in Loaded |->
                      Entry(IF q = c THEN p ELSE q, v).frame \in DataFrames]]
    BY <2>1, Zenon DEF Exposed
  <2>3. ASSUME NEW q \in Procs
        PROVE  Exposed'[q] = IF q = c THEN Exposed[p] ELSE Exposed[q]
    BY <2>2, <2>3, Zenon DEF Exposed
  <2>4. DOMAIN Exposed = Procs /\ DOMAIN Exposed' = Procs
        /\ Exposed' = [q \in Procs |-> Exposed'[q]]
        /\ Exposed = [q \in Procs |-> Exposed[q]]
    BY <2>2 DEF Exposed
  <2> HIDE DEF Exposed
  <2> QED BY <2>3, <2>4
<1> QED
  BY <1>0, <1>3, <1>4, <1>5, <1>6, Zenon
  DEF Memory!Fork, Seen, Shared, Owned, Exposed

(* What copy_page does to the pages of loaded programs: the process alone  *)
(* gets another frame, with the same contents, which it may write.         *)
LEMMA CopySeen ==
  ASSUME IInv, NEW p \in live, NEW v \in Pages \ {"datanext"},
         copy_page(p, v), NEW q \in Procs, NEW u \in Loaded
  PROVE  /\ Entry(q, u)' = IF q = p /\ u = v THEN Full(next) ELSE Entry(q, u)
         /\ Entry(q, u).frame # next
         /\ View(q, u)' = View(q, u)
         /\ Writable(q, u)' <=> Writable(q, u) \/ (q = p /\ u = v)
<1>0. TypeOK /\ Blocks /\ Guards /\ p \in Procs
  BY DEF IInv, TypeOK
<1>1. /\ u \in Pages /\ u \notin DataPages /\ Entry(q, u) = pte[q][u]
      /\ Entry(q, u).frame \in DOMAIN content
      /\ View(q, u) = content[Entry(q, u).frame]
      /\ Entry(q, u).frame < next
  BY <1>0, LoadedPages
<1>2. /\ next \in Nat /\ Entry(q, u).frame # next /\ next > 1
  BY <1>0, <1>1 DEF Blocks, TypeOK, FirstFree, Frames
<1>3. Entry(q, u)' = IF q = p /\ u = v THEN Full(next) ELSE Entry(q, u)
  BY <1>1, CopyEffect, PageNames
<1>4. \A f \in DOMAIN content :
        f # next => content'[f] = content[f] /\ f \in DOMAIN content'
  BY <1>2 DEF copy_page, CopyTarget
<1>5. q = p /\ u = v => next \in DOMAIN content' /\ content'[next] = View(p, v)
  BY <1>1 DEF copy_page, CopyTarget, View, Contents, Entry
<1>6. View(q, u)' = View(q, u)
  <2>1. CASE q = p /\ u = v
    BY <1>3, <1>5, <2>1 DEF View, Contents, Full
  <2>2. CASE ~(q = p /\ u = v)
    BY <1>1, <1>2, <1>3, <1>4, <2>2 DEF View, Contents
  <2> QED BY <2>1, <2>2
<1>7. Writable(q, u)' <=> Writable(q, u) \/ (q = p /\ u = v)
  <2>1. path'[q][Table(u)] <=> path[q][Table(u)] \/ (q = p /\ Table(u) = Table(v))
    BY <1>1, CopyEffect, TablesOfPages
  <2>2. CASE q = p /\ u = v
    BY <1>2, <1>3, <2>1, <2>2 DEF Writable, Present, Full, NoFrame
  <2>3. CASE ~(q = p /\ u = v)
    <3>1. Entry(q, u)' = Entry(q, u)
      BY <1>3, <2>3
    <3>2. Entry(q, u).w => path[q][Table(u)]
      BY <1>0, <1>1 DEF Guards
    <3> QED BY <2>1, <2>3, <3>1, <3>2 DEF Writable, Present
  <2> QED BY <2>2, <2>3
<1> QED
  BY <1>1, <1>2, <1>3, <1>6, <1>7

LEMMA RefinesCopy ==
  ASSUME IInv, NEW p \in live, NEW v \in Pages \ {"datanext"},
         copy_page(p, v), live' = live
  PROVE  IF v \in Loaded THEN Memory!Separate(p, v) ELSE UNCHANGED Memory!vars
<1>0. live \subseteq Procs /\ next \in Nat
  BY DEF IInv, TypeOK
<1>1. CASE v \notin Loaded
  <2>1. \A q \in Procs, u \in Loaded :
          /\ View(q, u)' = View(q, u)
          /\ Entry(q, u)'.frame = Entry(q, u).frame
          /\ Writable(q, u)' <=> Writable(q, u)
    BY <1>1, CopySeen
  <2> QED BY <1>0, <1>1, <2>1, Unnoticed
<1>2. CASE v \in Loaded
  <2>1. Seen' = Seen
    BY CopySeen DEF Seen
  <2>2. Shared' = [q \in Procs |-> [u \in Loaded |->
                     IF u \notin {v} THEN Shared[q][u]
                     ELSE IF q = p THEN {p} ELSE Shared[q][u] \ {p}]]
    <3>1. ASSUME NEW q \in Procs, NEW u \in Loaded
          PROVE  Sharers(q, u)' =
                   IF u # v THEN Sharers(q, u)
                   ELSE IF q = p THEN {p} ELSE Sharers(q, u) \ {p}
      <4>1. \A x \in live :
              /\ Entry(x, u)'.frame = IF x = p /\ u = v THEN next
                                      ELSE Entry(x, u).frame
              /\ Entry(x, u).frame # next
        BY <1>0, CopySeen DEF Full
      <4>2. CASE u # v
        BY <4>1, <4>2 DEF Sharers
      <4>3. CASE u = v /\ q = p
        BY <4>1, <4>3 DEF Sharers
      <4>4. CASE u = v /\ q # p
        BY <4>1, <4>4 DEF Sharers
      <4> QED BY <4>2, <4>3, <4>4
    <3> QED BY <3>1 DEF Shared
  <2>3. Owned' = [Owned EXCEPT ![p][v] = TRUE]
    <3>1. ASSUME NEW q \in Procs, NEW u \in Loaded
          PROVE  Writable(q, u)' = IF q = p /\ u = v THEN TRUE ELSE Writable(q, u)
      <4>1. Writable(q, u)' <=> Writable(q, u) \/ (q = p /\ u = v)
        BY CopySeen
      <4>2. CASE q = p /\ u = v
        BY <4>1, <4>2 DEF Writable
      <4>3. CASE ~(q = p /\ u = v)
        BY <4>1, <4>3 DEF Writable
      <4> QED BY <4>2, <4>3
    <3> QED BY <1>0, <1>2, <3>1 DEF Owned
  <2>4. \E e \in BOOLEAN : Exposed' = [Exposed EXCEPT ![p][v] = e]
    <3> DEFINE e == next \in DataFrames
    <3>1. ASSUME NEW q \in Procs, NEW u \in Loaded
          PROVE  (Entry(q, u)'.frame \in DataFrames) =
                   IF q = p /\ u = v THEN e ELSE Entry(q, u).frame \in DataFrames
      <4>1. Entry(q, u)'.frame = IF q = p /\ u = v THEN next
                                 ELSE Entry(q, u).frame
        BY CopySeen DEF Full
      <4> QED BY <4>1, Zenon
    <3>2. e \in BOOLEAN
      OBVIOUS
    <3> HIDE DEF e
    <3>3. Exposed' = [Exposed EXCEPT ![p][v] = e]
      BY <1>0, <1>2, <3>1 DEF Exposed
    <3> QED BY <3>2, <3>3
  <2> QED
    BY <1>2, <2>1, <2>2, <2>3, <2>4, Zenon
    DEF Memory!Separate, Memory!Without, Seen, Shared, Owned, Exposed
<1> QED BY <1>1, <1>2

(* The pages map_user_address adds are none of those the loader made.      *)
LEMMA RefinesMap ==
  ASSUME IInv, NEW p \in live, NEW v \in Pages, ~Writable(p, v),
         ~cow[p][Region(v)], map_user_address(p, v), live' = live
  PROVE  UNCHANGED Memory!vars
<1>0. TypeOK /\ live \subseteq Procs /\ p \in Procs
  BY DEF IInv, TypeOK
<1>1. ASSUME NEW q \in Procs, NEW u \in Loaded
      PROVE  /\ View(q, u)' = View(q, u)
             /\ Entry(q, u)'.frame = Entry(q, u).frame
             /\ Writable(q, u)' <=> Writable(q, u)
  <2>1. u \in Pages /\ u \notin DataPages \cup {"stackbelow"}
        /\ Table(u) \in Tables
    BY PageNames, TablesOfPages
  <2>2. Entry(q, u)' = Entry(q, u) /\ content' = content
    <3>1. PICK N \in SUBSET Pages : Filled(p, v, N)
      BY MapEffect
    <3>2. content' = content /\ v \in DataPages \cup {"stackbelow"}
      BY MapEffect
    <3>3. u \notin N
      BY <2>1, <3>1, <3>2 DEF Filled
    <3> QED BY <2>1, <3>1, <3>2, <3>3 DEF Filled
  <2>3. path'[q][Table(u)] <=> path[q][Table(u)]
    <3>1. /\ path' = [path EXCEPT ![p][Table(v)] = TRUE]
          /\ path[p][Table(v)]
      BY MapEffect
    <3> QED BY <1>0, <2>1, <3>1, TablesOfPages DEF TypeOK
  <2> QED BY <2>2, <2>3 DEF View, Contents, Writable, Present
<1> QED BY <1>0, <1>1, Unnoticed

(* A store reaches the processes that have the frame, all at the same      *)
(* page; a store of the process itself, no other one, unless it is a store *)
(* to its data and the frame has their address.                            *)
LEMMA RefinesStore ==
  ASSUME IInv, NEW p \in live, NEW v \in Pages, NEW x \in Values,
         WriteProtect => Writable(p, v), Present(p, v), Write(p, v, x)
  PROVE  \/ UNCHANGED Memory!vars
         \/ /\ v \in Loaded
            /\ Memory!Store(p, v, x) \/ Memory!KernelStore(p, v, x)
         \/ \E q \in Procs, u \in Loaded : Memory!StrayStore(q, u, x)
<1>0. TypeOK /\ Kinds /\ Blocks /\ WritableIsExclusive /\ live \subseteq Procs
      /\ p \in Procs
  BY DEF IInv, TypeOK
<1>1. /\ live' = live
      /\ \A q \in Procs, u \in Pages :
           /\ Entry(q, u)' = Entry(q, u)
           /\ Writable(q, u)' = Writable(q, u)
  BY DEF Write, tables, places, Entry, EntryIn, Writable, Present
<1> DEFINE f == Entry(p, v).frame
<1>2. ASSUME NEW q \in Procs, NEW u \in Loaded
      PROVE  /\ u \in Pages /\ ~Stray(q, u)
             /\ Entry(q, u).frame \in DOMAIN content
             /\ View(q, u) = content[Entry(q, u).frame]
             /\ q \in live => Entry(q, u).frame \in user
             /\ q \notin live => Entry(q, u).frame = NoFrame
             /\ f = Entry(q, u).frame => f \in user
  BY LoadedPages DEF Present
<1>3. /\ content' = [content EXCEPT ![f] = x] \/ content' = content
      /\ f \in user => content' = [content EXCEPT ![f] = x]
  BY DEF Write
<1>s. Shared' = Shared /\ Owned' = Owned /\ Exposed' = Exposed
  <2>1. Shared' = Shared
    BY <1>0, <1>1, <1>2 DEF Shared, Sharers
  <2>2. Owned' = Owned
    BY <1>1, <1>2, Zenon DEF Owned
  <2>3. Exposed' = Exposed
    BY <1>1, <1>2, Zenon DEF Exposed
  <2> QED BY <2>1, <2>2, <2>3
<1>4. CASE \A q \in Procs, u \in Loaded : Entry(q, u).frame # f
  <2>1. ASSUME NEW q \in Procs, NEW u \in Loaded
        PROVE  View(q, u)' = View(q, u)
    BY <1>1, <1>2, <1>3, <1>4 DEF View, Contents
  <2> QED BY <1>0, <1>1, <1>2, <2>1, Unnoticed
<1>5. ASSUME NEW q \in Procs, NEW u \in Loaded, Entry(q, u).frame = f
      PROVE  \/ v \in Loaded
                /\ (Memory!Store(p, v, x) \/ Memory!KernelStore(p, v, x))
             \/ Memory!StrayStore(q, u, x)
  <2>1. f \in user /\ q \in live /\ u \in Pages
    BY <1>0, <1>2, <1>5 DEF Blocks, NoFrame, FirstFree
  <2>2. ASSUME NEW y \in Procs, NEW w \in Loaded, Entry(y, w).frame = f
        PROVE  y \in live /\ w = u
    <3>1. y \in live /\ ~Stray(y, w) /\ w \in Pages /\ ~Stray(q, u)
      BY <1>0, <1>2, <2>1, <2>2 DEF Blocks, NoFrame, FirstFree
    <3> QED BY <1>0, <1>5, <2>1, <2>2, <3>1 DEF Kinds
  <2>3. ASSUME NEW y \in Procs, NEW w \in Loaded
        PROVE  View(y, w)' = IF y \in Sharers(q, u) /\ w = u THEN x
                             ELSE View(y, w)
    <3>1. View(y, w)' = IF Entry(y, w).frame = f THEN x ELSE View(y, w)
      BY <1>1, <1>2, <1>3, <2>1 DEF View, Contents
    <3>2. Entry(y, w).frame = f <=> y \in Sharers(q, u) /\ w = u
      BY <1>5, <2>1, <2>2 DEF Sharers
    <3> QED BY <3>1, <3>2
  <2>4. Seen' = [y \in Procs |-> IF y \in Sharers(q, u)
                                 THEN [Seen[y] EXCEPT ![u] = x] ELSE Seen[y]]
    BY <2>3 DEF Seen
  <2>5. Shared[q][u] = Sharers(q, u)
    BY DEF Shared
  <2>6. CASE Stray(p, v)
    <3>1. f \in DataFrames
      BY <2>6, StrayPages DEF DataFrames
    <3>2. Exposed[q][u]
      BY <1>5, <3>1 DEF Exposed
    <3> QED
      BY <1>1, <1>s, <2>1, <2>4, <2>5, <3>2, Zenon
      DEF Memory!StrayStore, Memory!Stored, Seen, Shared, Owned, Exposed
  <2>7. CASE ~Stray(p, v)
    <3>1. u = v
      BY <1>0, <1>2, <1>5, <2>1, <2>7 DEF Kinds
    <3>2. Sharers(p, v) = Sharers(q, u)
      BY <1>5, <2>1, <3>1 DEF Sharers
    <3>3. Shared[p][v] = Sharers(p, v) /\ Owned[p][v] = Writable(p, v)
      BY <1>0, <3>1, Zenon DEF Shared, Owned
    <3>4. CASE Writable(p, v)
      <4>1. Sharers(p, v) = {p}
        <5>1. ASSUME NEW y \in live, Entry(y, v).frame = f
              PROVE  y = p
          <6>1. y \in Procs /\ v \in Loaded /\ v \in Pages /\ v \notin DataPages
                /\ ~Stray(y, v)
            BY <1>0, <3>1, LoadedPages
          <6> QED BY <1>0, <2>7, <3>4, <5>1, <6>1 DEF WritableIsExclusive
        <5> QED BY <5>1 DEF Sharers
      <4>2. Seen' = [y \in Procs |-> IF y \in {p} THEN [Seen[y] EXCEPT ![v] = x]
                                     ELSE Seen[y]]
        BY <2>4, <3>1, <3>2, <4>1
      <4>3. Memory!Store(p, v, x)
        BY <1>1, <1>s, <3>3, <3>4, <4>2, Zenon
        DEF Memory!Store, Memory!Stored, Seen, Shared, Owned, Exposed
      <4> QED BY <3>1, <4>3
    <3>5. CASE ~Writable(p, v)
      <4>1. Seen' = [y \in Procs |-> IF y \in Shared[p][v]
                                     THEN [Seen[y] EXCEPT ![v] = x] ELSE Seen[y]]
        BY <2>4, <3>1, <3>2, <3>3
      <4>2. ~WriteProtect
        BY <3>5
      <4>3. Memory!KernelStore(p, v, x)
        BY <1>1, <1>s, <4>1, <4>2, Zenon
        DEF Memory!KernelStore, Memory!Stored, Seen, Shared, Owned, Exposed
      <4> QED BY <3>1, <4>3
    <3> QED BY <3>4, <3>5
  <2> QED BY <2>6, <2>7
<1> QED BY <1>4, <1>5

(* execvpe gives the process a memory of its own; of the memory of others  *)
(* it changes at most the text they share with it.                         *)
LEMMA RefinesExec ==
  ASSUME IInv, NEW p \in Procs, NEW stale \in BOOLEAN, do_execvpe(p, stale)
  PROVE  Memory!Exec(p, "text", Image)
<1>0. /\ IInv' /\ TypeOK /\ TypeOK' /\ Kinds /\ Blocks /\ p \in live
      /\ live' = live /\ live \subseteq Procs
  <2>1. IInv'
    BY ExecInv
  <2>2. TypeOK /\ TypeOK' /\ Kinds /\ Blocks
    BY <2>1 DEF IInv
  <2>3. p \in live /\ live' = live
    BY ExecEffect
  <2> QED BY <2>1, <2>2, <2>3 DEF TypeOK
<1>1. /\ next \in Nat /\ next > 1
      /\ NoFrame \notin user /\ "text" \in Loaded
      /\ \A f \in DOMAIN content : f \in DOMAIN content'
  <2>1. next \in Nat /\ next > 1
    BY <1>0 DEF TypeOK, Blocks, FirstFree, Frames
  <2>2. \A f \in DOMAIN content : f \in DOMAIN content'
    BY DEF do_execvpe
  <2>3. NoFrame \notin user
    BY <1>0 DEF Blocks, NoFrame, FirstFree
  <2> QED BY <2>1, <2>2, <2>3, PageNames
<1>2. ASSUME NEW q \in Procs, NEW u \in Loaded, q # p
      PROVE  /\ u \in Pages
             /\ Entry(q, u)' = Entry(q, u)
             /\ Entry(q, u).frame \in DOMAIN content
             /\ Entry(q, u).frame < next
             /\ View(q, u) = content[Entry(q, u).frame]
  BY <1>2, ExecEffect, LoadedPages
<1> DEFINE text == IF stale THEN pte[p]["text"].frame ELSE next + 3
<1>3. \A f \in DOMAIN content :
        f < next => content'[f] = IF f = text THEN Image ELSE content[f]
  <2>1. \A f \in Given(next) : f > next
    BY <1>1 DEF Given, TextOf, HeapOf, StackOf
  <2>2. \A f \in DOMAIN content :
          f < next => f \notin Given(next)
    <3>1. \A f \in DOMAIN content : f \in Int
      BY <1>0 DEF TypeOK, Frames, NoFrame, DataFrames, DataAt, DataPages
    <3> QED BY <1>1, <2>1, <3>1
  <2> QED BY <2>2 DEF do_execvpe, TextOf
<1>4. Seen' \in [Procs -> [Loaded -> Values]]
  <2>1. \A q \in Procs, u \in Loaded : View(q, u)' \in Values
    BY <1>0, ValuesAssumption DEF TypeOK, View, Contents
  <2> QED BY <2>1 DEF Seen
<1>5. \E S \in {{}, Shared[p]["text"]} : \A q \in Procs \ {p} :
        Seen'[q] = IF q \in S THEN [Seen[q] EXCEPT !["text"] = Image] ELSE Seen[q]
  <2>1. CASE ~stale
    <3>1. \A q \in Procs \ {p}, u \in Loaded : View(q, u)' = View(q, u)
      BY <1>1, <1>2, <1>3, <2>1 DEF View, Contents
    <3>2. \A q \in Procs \ {p} : Seen'[q] = Seen[q]
      BY <3>1 DEF Seen
    <3> QED BY <3>2
  <2>2. CASE stale
    <3>1. /\ Entry(p, "text").frame = text /\ text \in user
          /\ "text" \in Pages /\ \A u \in Loaded : u \in Pages
      BY <1>0, <1>1, <2>2, LoadedPages
    <3>2. ASSUME NEW q \in Procs \ {p}, NEW u \in Loaded
          PROVE  View(q, u)' = IF q \in Sharers(p, "text") /\ u = "text"
                               THEN Image ELSE View(q, u)
      <4>1. View(q, u)' = IF Entry(q, u).frame = text THEN Image ELSE View(q, u)
        BY <1>1, <1>2, <1>3 DEF View, Contents
      <4>2. Entry(q, u).frame = text => q \in live
        BY <1>1, <3>1, LoadedPages
      <4>3. Entry(q, u).frame = text => u = "text"
        <5>1. ~Stray(p, "text") /\ ~Stray(q, u)
          BY <1>0, <1>1, LoadedPages
        <5> QED BY <1>0, <3>1, <4>2, <5>1 DEF Kinds
      <4> QED BY <1>0, <3>1, <4>1, <4>2, <4>3 DEF Sharers
    <3>3. \A q \in Procs \ {p} :
            Seen'[q] = IF q \in Sharers(p, "text")
                       THEN [Seen[q] EXCEPT !["text"] = Image] ELSE Seen[q]
      BY <1>1, <3>2 DEF Seen
    <3>4. Shared[p]["text"] = Sharers(p, "text")
      BY <1>1 DEF Shared
    <3> QED BY <3>3, <3>4
  <2> QED BY <2>1, <2>2
<1>6. Shared' = [q \in Procs |-> [u \in Loaded |->
                   IF u \notin Loaded THEN Shared[q][u]
                   ELSE IF q = p THEN {p} ELSE Shared[q][u] \ {p}]]
  <2>1. ASSUME NEW q \in Procs, NEW u \in Loaded
        PROVE  Sharers(q, u)' = IF q = p THEN {p} ELSE Sharers(q, u) \ {p}
    <3>1. ASSUME NEW x \in live, x # p
          PROVE  /\ Entry(x, u)'.frame = Entry(x, u).frame
                 /\ Entry(x, u)'.frame # Entry(p, u)'.frame
      <4>1. x \in Procs /\ Entry(x, u).frame < next
        BY <1>0, <1>1, <1>2, <3>1
      <4>2. Entry(p, u)' = LoadedTable(next)[u] /\ u \in Pages
        BY ExecEffect, PageNames
      <4>3. Entry(p, u)'.frame \in Nat /\ Entry(p, u)'.frame > next
        BY <1>1, <4>2, LoadedFrames, PageNames
      <4> QED BY <1>1, <1>2, <3>1, <4>1, <4>3
    <3>2. CASE q = p
      BY <1>0, <3>1, <3>2 DEF Sharers
    <3>3. CASE q # p
      BY <1>0, <3>1, <3>3 DEF Sharers
    <3> QED BY <3>2, <3>3
  <2> QED BY <2>1 DEF Shared
<1>7. Owned' = [Owned EXCEPT ![p] = [u \in Loaded |-> TRUE]]
  <2>1. ASSUME NEW q \in Procs, NEW u \in Loaded
        PROVE  Writable(q, u)' = IF q = p THEN TRUE ELSE Writable(q, u)
    <3>1. u \in Pages /\ Table(u) \in Tables
      BY PageNames, TablesOfPages
    <3>2. path'[q][Table(u)] <=> q = p \/ path[q][Table(u)]
      BY <3>1, ExecEffect
    <3>3. CASE q = p
      <4>1. Entry(p, u)' = LoadedTable(next)[u]
        BY <3>1, ExecEffect
      <4>2. Entry(p, u)'.frame # NoFrame /\ Entry(p, u)'.w
        BY <1>1, <4>1, LoadedFrames, PageNames DEF NoFrame
      <4> QED BY <3>2, <3>3, <4>2 DEF Writable, Present
    <3>4. CASE q # p
      BY <1>2, <3>2, <3>4 DEF Writable, Present
    <3> QED BY <3>3, <3>4
  <2> QED BY <2>1 DEF Owned
<1>8. \E e \in [Loaded -> BOOLEAN] : Exposed' = [Exposed EXCEPT ![p] = e]
  <2> DEFINE e == [u \in Loaded |-> Entry(p, u)'.frame \in DataFrames]
  <2>1. e \in [Loaded -> BOOLEAN]
    OBVIOUS
  <2>2. ASSUME NEW q \in Procs
        PROVE  Exposed'[q] = IF q = p THEN e ELSE Exposed[q]
    <3>1. CASE q = p
      BY <3>1, Zenon DEF Exposed
    <3>2. CASE q # p
      <4>1. \A u \in Loaded : (Entry(q, u)'.frame \in DataFrames) =
                               (Entry(q, u).frame \in DataFrames)
        BY <1>2, <3>2, Zenon
      <4> QED BY <3>2, <4>1, Zenon DEF Exposed
    <3> QED BY <3>1, <3>2
  <2> HIDE DEF e
  <2>3. Exposed' = [Exposed EXCEPT ![p] = e]
    <3>1. /\ Exposed' = [q \in Procs |-> Exposed'[q]]
          /\ Exposed = [q \in Procs |-> Exposed[q]]
      BY DEF Exposed
    <3> QED BY <2>2, <3>1
  <2> QED BY <2>1, <2>3
<1> QED
  BY <1>0, <1>4, <1>5, <1>6, <1>7, <1>8, Zenon
  DEF Memory!Exec, Memory!Without, Memory!Stored, Seen, Shared, Owned, Exposed

(* Every step of the page tables is a step of PrivateMemory, or none.      *)
LEMMA RefinesNext == IInv /\ [Next]_vars => [Memory!Next]_(Memory!vars)
<1> SUFFICES ASSUME IInv, [Next]_vars
             PROVE  Memory!Next \/ UNCHANGED Memory!vars
  BY Zenon
<1>0. live \subseteq Procs
  BY DEF IInv, TypeOK
<1>1. ASSUME NEW p \in Procs, NEW c \in Procs, sys_fork(p, c)
      PROVE  Memory!Next
  BY <1>1, RefinesFork, Zenon DEF Memory!Next
<1>2. ASSUME NEW p \in Procs, NEW v \in Touched, Fault(p, v)
      PROVE  Memory!Next \/ UNCHANGED Memory!vars
  <2>1. /\ p \in live /\ v \in Pages \ {"datanext"}
        /\ ~Writable(p, v) /\ live' = live
    BY <1>2, TouchedAssumption DEF Fault
  <2>2. CASE cow[p][Region(v)]
    <3>1. IF v \in Loaded THEN Memory!Separate(p, v) ELSE UNCHANGED Memory!vars
      BY <1>2, <2>1, <2>2, RefinesCopy DEF Fault
    <3> QED BY <3>1, Zenon DEF Memory!Next
  <2>3. CASE ~cow[p][Region(v)]
    BY <1>2, <2>1, <2>3, RefinesMap DEF Fault
  <2> QED BY <2>2, <2>3
<1>3. ASSUME NEW p \in Procs, NEW v \in Touched, NEW x \in Values,
             UserStore(p, v, x) \/ KernelStore(p, v, x)
      PROVE  Memory!Next \/ UNCHANGED Memory!vars
  <2>1. p \in live /\ v \in Pages /\ Write(p, v, x) /\ Present(p, v)
        /\ (WriteProtect => Writable(p, v))
    BY <1>3, TouchedAssumption DEF UserStore, KernelStore, Writable
  <2>2. \/ UNCHANGED Memory!vars
        \/ /\ v \in Loaded
           /\ Memory!Store(p, v, x) \/ Memory!KernelStore(p, v, x)
        \/ \E q \in Procs, u \in Loaded : Memory!StrayStore(q, u, x)
    BY <2>1, RefinesStore
  <2> QED BY <2>2, Zenon DEF Memory!Next
<1>4. ASSUME NEW p \in Procs, NEW stale \in BOOLEAN, do_execvpe(p, stale)
      PROVE  Memory!Next
  <2>1. Memory!Exec(p, "text", Image) /\ "text" \in Loaded
    BY <1>4, RefinesExec, PageNames
  <2> QED BY <2>1, ValuesAssumption, Zenon DEF Memory!Next
<1>5. CASE UNCHANGED vars
  <2>1. /\ live' = live
        /\ \A q \in Procs, v \in Loaded :
             /\ View(q, v)' = View(q, v)
             /\ Entry(q, v)'.frame = Entry(q, v).frame
             /\ Writable(q, v)' <=> Writable(q, v)
    BY <1>5 DEF vars, View, Contents, Entry, EntryIn, Writable, Present
  <2> QED BY <1>0, <2>1, Unnoticed
<1> QED
  BY <1>1, <1>2, <1>3, <1>4, <1>5 DEF Next, Halted

(* The page tables implement PrivateMemory for text, heap and stack: what  *)
(* copy_page, map_user_address, the fork of the tables and execvpe do to   *)
(* frames and entries keeps the promise, for any number of processes.      *)
THEOREM MemoryIsPrivate == Spec => ImplementsPrivateMemory
BY RefinesInit, RefinesNext, Inductive, PTL
DEF Spec, ImplementsPrivateMemory, Memory!Spec
=============================================================================
