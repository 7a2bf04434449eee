-------------------------------- MODULE Heap --------------------------------
(***************************************************************************)
(* The heap of one process (do_malloc and do_free in process.c): one page  *)
(* cut into units of 16 bytes, the size of a malloc_header.  A block is a  *)
(* header unit and the units of its payload; free blocks are linked        *)
(* through their headers from mm->freelist.  Both calls run inside a       *)
(* system call with interrupts off, so each is one step.                   *)
(*                                                                         *)
(* The model follows a heap up to the first step after which the kernel's  *)
(* own headers can be overwritten by payloads or are not headers at all:   *)
(* state names that step, and no call is modelled after it.                *)
(***************************************************************************)
EXTENDS Integers, Sequences, SequencesExt, FiniteSetsExt

CONSTANTS
  UNITS,     \* units createheap puts on the free list (255 in the code)
  Sizes      \* bytes a program asks for

ASSUME UnitsAssumption == UNITS \in Nat \ {0}
ASSUME SizesAssumption == Sizes \subseteq Nat

VARIABLES
  hdr,        \* the headers: the fields size and next of every unit
  freelist,   \* mm->freelist
  live,       \* blocks handed out and not freed (history)
  state       \* "sound", or what the last call has done to the heap

vars == <<hdr, freelist, live, state>>

NULL == 0
Addr == 1..UNITS
Block == [addr : Addr, size : Addr]
Outcomes == {"sound", "exact fit of the first block", "merged on both sides",
             "end of list"}

-----------------------------------------------------------------------------
(* The units of the n units that begin at address a.                       *)
Span(a, n) == a..(a + n - 1)

(* The list that starts at address first, in the headers h.                *)
Chain(h, first) ==
  LET from[a \in {NULL} \cup Addr] ==
        IF a = NULL THEN <<>> ELSE <<a>> \o from[h[a].next]
  IN  from[first]

(* The free list from mm->freelist on: the nodes both loops visit.         *)
FreeChain == Chain(hdr, freelist)

FreeUnits == UNION {Span(a, hdr[a].size) : a \in Range(FreeChain)}
LiveUnits == UNION {Span(b.addr, b.size) : b \in live}

Unused == [size |-> 0, next |-> NULL]

(* Headers neither call will read before writing them are forgotten: those *)
(* of units in no block, of lost blocks, and the link of a block handed    *)
(* out.                                                                    *)
Relevant(h, first, blocks) ==
  [a \in Addr |->
     IF a \in Range(Chain(h, first)) THEN h[a]
     ELSE IF a \in {b.addr : b \in blocks} THEN [h[a] EXCEPT !.next = NULL]
     ELSE Unused]

(* Faulty: the header is not counted.                                      *)
PayloadStructs(size) == (size + 15) \div 16

(* num_of_structs: the payload in units, rounded up, and the header.       *)
NumOfStructs(size) == (size + 15) \div 16 + 1

(* createheap: the whole heap is one free block.                           *)
Init ==
  /\ hdr = [a \in Addr |-> IF a = 1 THEN [size |-> UNITS, next |-> NULL]
                           ELSE Unused]
  /\ freelist = 1
  /\ live = {}
  /\ state = "sound"

-----------------------------------------------------------------------------
(* Faulty: the remaining size is not written back.                         *)
SplitKeepingSize(cur, n) ==
  [hdr EXCEPT ![cur + hdr[cur].size - n].size = n]

(* A larger block gives its last n units away.                             *)
Split(cur, n) ==
  [hdr EXCEPT ![cur].size = hdr[cur].size - n,
              ![cur + hdr[cur].size - n].size = n]

(* A block of the right size is taken off the list - if it has a           *)
(* predecessor: for the first block prev = cur and nothing changes.        *)
Unlink(prev, cur) == [hdr EXCEPT ![prev].next = hdr[cur].next]

(* First fit.  The block before the one that served the request becomes    *)
(* the first of the list.  Without a fit the loop reads a header through   *)
(* the NULL pointer behind the last block: "create new heap" is only a     *)
(* comment.                                                                *)
do_malloc(size) ==
  LET n    == NumOfStructs(size)
      ch   == FreeChain
      fits == {i \in DOMAIN ch : hdr[ch[i]].size >= n}
  IN  /\ state = "sound"
      /\ \/ /\ fits = {}
            /\ state' = "end of list"
            /\ UNCHANGED <<hdr, freelist, live>>
         \/ /\ fits # {}
            /\ LET i     == Min(fits)
                   cur   == ch[i]
                   prev  == IF i = 1 THEN cur ELSE ch[i - 1]
                   exact == hdr[cur].size = n
               IN  /\ live' = live \cup
                        {[addr |-> cur + hdr[cur].size - n, size |-> n]}
                   /\ hdr' = Relevant(IF exact THEN Unlink(prev, cur)
                                      ELSE Split(cur, n), prev, live')
                   /\ freelist' = prev
                   /\ state' = IF exact /\ i = 1
                               THEN "exact fit of the first block" ELSE state

-----------------------------------------------------------------------------
(* Faulty: the place is not looked for.                                    *)
StopsAtFirst(block, cur) == block # cur

(* Where the loop of do_free stops: at the last node, or at the node       *)
(* before the place of the block.                                          *)
StopsAt(block, cur) ==
  \/ hdr[cur].next = NULL /\ block # cur
  \/ cur < block /\ block < hdr[cur].next

(* Faulty: what follows cur is cut off the list.                           *)
InsertAsLast(block, cur) ==
  [hdr EXCEPT ![cur].next = block, ![block].next = NULL]

(* The place found lies behind cur: append to cur or link behind it, after *)
(* the node that follows has been merged into the block.  When both merge, *)
(* cur keeps its link to a node that is now inside it.                     *)
InsertBehind(block, cur) ==
  LET next   == hdr[cur].next
      after  == next # NULL /\ block + hdr[block].size = next
      before == cur + hdr[cur].size = block
      size   == hdr[block].size + IF after THEN hdr[next].size ELSE 0
      link   == IF after THEN hdr[next].next ELSE next
  IN  [hdr EXCEPT
         ![block] = [size |-> size,
                     next |-> IF before /\ next = NULL THEN @.next ELSE link],
         ![cur] = IF before THEN [size |-> hdr[cur].size + size, next |-> next]
                  ELSE [size |-> hdr[cur].size, next |-> block]]

(* The block lies before the last node.  Its header is made to lead to the *)
(* list or to swallow it, but nothing leads to the block.                  *)
InsertBefore(block, cur) ==
  [hdr EXCEPT ![block] =
     IF block + hdr[block].size = cur
     THEN [size |-> hdr[block].size + hdr[cur].size, next |-> NULL]
     ELSE [@ EXCEPT !.next = cur]]

(* Both neighbours of the block are free and adjacent.                     *)
MergesBoth(block, cur) ==
  /\ cur < block /\ hdr[cur].next # NULL
  /\ cur + hdr[cur].size = block
  /\ block + hdr[block].size = hdr[cur].next

(* A program frees a block it holds.                                       *)
do_free(b) ==
  LET block == b.addr
      ch    == FreeChain
      cur   == ch[Min({j \in DOMAIN ch : StopsAt(block, ch[j])})]
  IN  /\ state = "sound"
      /\ live' = live \ {b}
      /\ hdr' = Relevant(IF cur < block THEN InsertBehind(block, cur)
                         ELSE InsertBefore(block, cur), freelist, live')
      /\ state' = IF MergesBoth(block, cur)
                  THEN "merged on both sides" ELSE state
      /\ UNCHANGED freelist

sys_malloc == \E size \in Sizes : do_malloc(size)
sys_free == \E b \in live : do_free(b)

Next == sys_malloc \/ sys_free

Spec == Init /\ [][Next]_vars

-----------------------------------------------------------------------------
(* Every header holds units and links of the heap, and every block handed  *)
(* out lies in the heap.                                                   *)
TypeOK ==
  /\ hdr \in [Addr -> [size : 0..UNITS, next : {NULL} \cup Addr]]
  /\ freelist \in Addr
  /\ live \subseteq Block
  /\ state \in Outcomes

(* No unit belongs to two blocks, free or handed out.                      *)
Disjoint ==
  LET ch == FreeChain
      Owners(u) ==
        {<<"free", i>> : i \in {j \in DOMAIN ch :
                                  u \in Span(ch[j], hdr[ch[j]].size)}}
        \cup {<<"live", b.addr, b.size>> :
                 b \in {c \in live : u \in Span(c.addr, c.size)}}
  IN  \A u \in Addr : \A p, q \in Owners(u) : p = q

(* do_malloc and do_free give a unit to two owners in exactly two cases:   *)
(* an exact fit of the first free block, which stays on the list, and a    *)
(* free between two adjacent free blocks, after which the upper one is     *)
(* both on the list and part of the lower one.  No other sequence of       *)
(* calls makes blocks overlap.                                             *)
OverlapHasTwoCauses ==
  Disjoint <=> state \in {"sound", "end of list"}

(* The free list runs through the heap in ascending order and every block  *)
(* of it lies within the heap, so the loops of do_malloc and do_free end.  *)
FreeListAscends ==
  LET ch == FreeChain
  IN  /\ \A i \in 2..Len(ch) : ch[i - 1] < ch[i]
      /\ \A i \in DOMAIN ch : Span(ch[i], hdr[ch[i]].size) \subseteq Addr

(* Units that are neither free nor handed out.                             *)
Lost == Addr \ (FreeUnits \cup LiveUnits)

(* A lost unit never comes back, and do_malloc and do_free lose units in   *)
(* two cases only: the freed block lies below the first free block, or the *)
(* request was served by the third free block or a later one (the list     *)
(* then starts at the block before it).                                    *)
LossesAreFinal ==
  [][ /\ Lost \subseteq Lost'
      /\ Lost # Lost' =>
           \/ freelist' # freelist
           \/ \E b \in live \ live' : b.addr < freelist ]_vars
=============================================================================
