--------------------------- MODULE PageAllocator ---------------------------
(***************************************************************************)
(* The physical page allocator (allocator.c) at the level of its list      *)
(* nodes.  One chain of nodes holds both kinds of slots: from head_free to *)
(* head_unalloc the free frames, behind it, up to head_end, the slots      *)
(* whose frames are in use.  Granting a frame moves its node from the head *)
(* to the end of the chain; freeing one fills the next slot behind         *)
(* head_unalloc.  Node 0 is the NULL pointer: bump_initial writes through  *)
(* it before init_after_paging has set head_end.                           *)
(***************************************************************************)
EXTENDS Integers, Sequences, FiniteSets, FiniteSetsExt, Functions

CONSTANTS
  K             \* frames between physfree and physend

(* The last node of a list of one would be lost when it is granted.        *)
ASSUME KAssumption == K \in Nat \ {0, 1, 2}

VARIABLES
  next, current,                      \* fields of the nodes
  head_free, head_end, head_unalloc,
  number_of_free_pages,
  paging,       \* init_after_paging has run
  kept,         \* frames of the first page tables, which nobody frees
  held,         \* other frames granted and not freed
  used,         \* frames granted at least once (history)
  broken,       \* kfree has followed a NULL pointer
  pending,      \* the frame clear_vmas is going to free once more
  twice,        \* a frame has been freed twice (history)
  clash         \* a frame has been granted to a second owner

heads == <<head_free, head_end, head_unalloc>>
vars == <<next, current, head_free, head_end, head_unalloc,
          number_of_free_pages, paging, kept, held, used, broken, pending,
          twice, clash>>

NULL == 0
Nodes == 1..K

(* initbump: the nodes themselves, 16 bytes each, occupy the first frames. *)
MetaFrames == (K * 16 + 4095) \div 4096
Frames == (MetaFrames + 1)..K

InitialFrame(i) == i

(* initbump: node i describes frame i and links to node i + 1; the nodes   *)
(* of the frames that hold the list are skipped.                           *)
Init ==
  /\ next = [i \in 0..K |-> IF i \in 1..(K - 1) THEN i + 1 ELSE NULL]
  /\ current = [i \in 0..K |-> InitialFrame(i)]
  /\ head_free = MetaFrames + 1
  /\ head_end = NULL
  /\ head_unalloc = NULL
  /\ number_of_free_pages = K - MetaFrames
  /\ paging = FALSE
  /\ kept = {}
  /\ held = {}
  /\ used = {}
  /\ broken = FALSE
  /\ pending = NULL
  /\ twice = FALSE
  /\ clash = FALSE

(* The nodes met on the way from head_free, and NULL behind the last.      *)
Chain ==
  LET node[i \in Nodes] ==
        LET before == node[i - 1]
        IN  IF i = 1 THEN head_free
            ELSE IF before = NULL THEN NULL ELSE next[before]
  IN  node

ChainLength == Cardinality({i \in Nodes : Chain[i] # NULL})

(* Faulty: head_end stays where it was.                                    *)
MoveKeepingEnd(r) ==
  LET t == r.head_free
  IN  [head_free |-> r.next[t],
       head_end |-> r.head_end,
       next |-> [[r.next EXCEPT ![r.head_end] = t] EXCEPT ![t] = NULL]]

(* One turn of the loop of bump: the first node becomes the last.          *)
Move(r) ==
  LET t == r.head_free
  IN  [head_free |-> r.next[t],
       head_end |-> t,
       next |-> [[r.next EXCEPT ![r.head_end] = t] EXCEPT ![t] = NULL]]

FirstFrames(n) == {current[Chain[i]] : i \in 1..n}

(* bump, bump_initial, bump_user and bump_physical differ only in the base *)
(* they add to the frame.  A request that is too large returns 0 and       *)
(* changes nothing.                                                        *)
Grant(n, granted) ==
  LET moved[i \in 0..K] ==
        IF i = 0
        THEN [head_free |-> head_free, head_end |-> head_end, next |-> next]
        ELSE Move(moved[i - 1])
  IN  /\ n <= number_of_free_pages
      /\ head_free' = moved[n].head_free
      /\ head_end' = moved[n].head_end
      /\ next' = moved[n].next
      /\ number_of_free_pages' = number_of_free_pages - n
      /\ used' = used \cup granted
      /\ UNCHANGED <<current, head_unalloc, paging, broken, pending, twice>>

(* The page tables of the kernel are granted before paging is set up; two  *)
(* frames are left over (bound).                                           *)
bump_initial ==
  /\ ~paging
  /\ number_of_free_pages > 2
  /\ Grant(1, FirstFrames(1))
  /\ kept' = kept \cup FirstFrames(1)
  /\ UNCHANGED <<held, clash>>

init_after_paging ==
  /\ ~paging
  /\ paging' = TRUE
  /\ head_end' = Chain[ChainLength]
  /\ head_unalloc' = Chain[ChainLength]
  /\ UNCHANGED <<next, current, head_free, number_of_free_pages, kept, held,
                 used, broken, pending, twice, clash>>

bump(n) ==
  /\ paging
  /\ ~broken /\ ~clash /\ pending = NULL
  /\ Grant(n, FirstFrames(n))
  /\ held' = held \cup FirstFrames(n)
  /\ clash' = (FirstFrames(n) \cap held # {} \/ Cardinality(FirstFrames(n)) < n)
  /\ UNCHANGED kept

(* Faulty: the slot is filled before head_unalloc is advanced.             *)
FillBeforeAdvance(f, slot) ==
  /\ current' = [current EXCEPT ![head_unalloc] = f]
  /\ head_unalloc' = slot
  /\ number_of_free_pages' = number_of_free_pages + 1
  /\ UNCHANGED <<next, head_free, head_end>>

(* Faulty: the freed frame is put in front.                                *)
FillFront(f, slot) ==
  /\ head_free' = slot
  /\ current' = [current EXCEPT ![slot] = f]
  /\ next' = [next EXCEPT ![head_unalloc] = next[slot], ![slot] = head_free]
  /\ number_of_free_pages' = number_of_free_pages + 1
  /\ head_end' = IF next[slot] = NULL THEN head_unalloc ELSE head_end
  /\ UNCHANGED head_unalloc

(* Faulty: head_unalloc is not advanced.                                   *)
FillWithoutAdvance(f, slot) ==
  /\ current' = [current EXCEPT ![slot] = f]
  /\ number_of_free_pages' = number_of_free_pages + 1
  /\ UNCHANGED <<next, heads>>

FillSlot(f, slot) ==
  /\ head_unalloc' = slot
  /\ current' = [current EXCEPT ![slot] = f]
  /\ number_of_free_pages' = number_of_free_pages + 1
  /\ UNCHANGED <<next, head_free, head_end>>

(* kfree, but for the unmapping of the page.                               *)
GiveBack(f) ==
  /\ paging
  /\ ~broken /\ ~clash
  /\ \/ /\ next[head_unalloc] # NULL
        /\ FillSlot(f, next[head_unalloc])
        /\ UNCHANGED broken
     \/ /\ next[head_unalloc] = NULL
        /\ broken' = TRUE
        /\ UNCHANGED <<next, current, heads, number_of_free_pages>>
  /\ UNCHANGED <<paging, kept, used, clash>>

(* A caller frees what it holds.                                           *)
kfree(f) ==
  /\ GiveBack(f)
  /\ held' = held \ {f}
  /\ UNCHANGED <<pending, twice>>

(* clear_vmas frees all areas of a process, and then the first one again.  *)
clear_vmas(f) ==
  /\ pending = NULL
  /\ GiveBack(f)
  /\ held' = held \ {f}
  /\ pending' = f
  /\ UNCHANGED twice

FreeAgain ==
  /\ pending # NULL
  /\ GiveBack(pending)
  /\ pending' = NULL
  /\ twice' = TRUE
  /\ UNCHANGED held

(* What a kernel does that followed the NULL pointer, or that keeps two    *)
(* structures in one page, is left open.                                   *)
Halted == (broken \/ clash) /\ UNCHANGED vars

Next ==
  \/ bump_initial
  \/ init_after_paging
  \/ \E n \in 1..K : bump(n)
  \/ \E f \in held : kfree(f) \/ clear_vmas(f)
  \/ FreeAgain
  \/ Halted

Spec == Init /\ [][Next]_vars

-----------------------------------------------------------------------------
(* Properties                                                              *)

(* Type correctness of the nodes and the three heads.                      *)
TypeOK ==
  /\ next \in [0..K -> 0..K]
  /\ current \in [0..K -> 0..K]
  /\ head_free \in Nodes /\ head_end \in 0..K /\ head_unalloc \in 0..K
  /\ number_of_free_pages \in 0..K
  /\ paging \in BOOLEAN /\ broken \in BOOLEAN
  /\ kept \subseteq Frames /\ held \subseteq Frames /\ used \subseteq Frames
  /\ pending \in Frames \cup {NULL} /\ twice \in BOOLEAN /\ clash \in BOOLEAN

FreeQueue == [i \in 1..number_of_free_pages |-> current[Chain[i]]]

(* The three pointers and the counter agree: counting from head_free, the  *)
(* last free node is head_unalloc, and the chain ends in head_end.         *)
HeadsAgree ==
  paging /\ ~broken =>
    /\ head_end = Chain[ChainLength]
    /\ head_unalloc = IF number_of_free_pages = 0 THEN head_end
                      ELSE Chain[number_of_free_pages]

(* No frame is lost, and as long as callers free what they hold none has   *)
(* two owners: each is either in one place of the free list or in the      *)
(* hands of one owner.  Once clear_vmas has freed a frame twice it can be  *)
(* granted twice, but never a frame of the first page tables.  kfree fails *)
(* only when the free list has been drained to nothing, or has no slot     *)
(* left because frames are on it twice.                                    *)
FramesConserved ==
  /\ ~broken =>
       /\ Range(FreeQueue) \cup held \cup kept = Frames
       /\ Range(FreeQueue) \cap kept = {}
       /\ ~twice =>
            IsInjective(FreeQueue) /\ Range(FreeQueue) \cap held = {} /\ ~clash
  /\ broken => number_of_free_pages = 0 \/ twice

(* A frame is handed out a second time only once every frame has been      *)
(* handed out, so memory is untouched as long as there is any left; and    *)
(* until then a request for several pages gets adjacent frames, as the     *)
(* callers assume, which are only told the first one.                      *)
FreshFirst ==
  [][LET granted == held' \ held
         first == current[head_free]
     IN  /\ granted \cap used # {} => Frames = used'
         /\ granted # {} /\ granted \cap used = {}
              => granted = first..(first + Cardinality(granted) - 1)]_vars

(* The list implements the bounded queue of PageQueue.                     *)
Queue == INSTANCE PageQueue WITH
           queue <- FreeQueue, capacity <- ChainLength,
           Frames <- 0..K, broken <- broken

ImplementsQueue == Queue!Spec
=============================================================================
