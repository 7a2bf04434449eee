---------------------------- MODULE CopyOnWrite ----------------------------
(***************************************************************************)
(* The user half of the page tables: loadelf fills it, fork shares its     *)
(* frames copy-on-write, the page fault handler interrupt4 copies or maps  *)
(* pages, execvpe starts over.  The pages are those of a loaded program    *)
(* and the ones beside them that the kernel maps along.  Each process has  *)
(* tables of its own, so an entry is pte[p][v]; three levels above it are  *)
(* kept as one bit path[p][t], the W bits on the way to table t, and the   *)
(* COW bit of the PML4 entry, cow[p][r].                                   *)
(*                                                                         *)
(* Frames are numbered and handed out in order, as on the first lap of the *)
(* allocator's list (PageAllocator): what is freed is not reused here.     *)
(* For an address of the heap, the stack or the data the handler takes the *)
(* low 32 bits of the address as the frame, in all of its four branches,   *)
(* so the areas (vm_area_struct) do not decide anything.  Heap and stack   *)
(* are placed so that this is the frame they were given; the address of    *)
(* the data, about 0x600000, is that of some physical page nobody asked    *)
(* the allocator for.  Whoever is handed out that page shares it with the  *)
(* data of every program.                                                  *)
(***************************************************************************)
EXTENDS Integers

CONSTANTS
  Procs, InitProc,   \* processes, and the one that user_process loads
  Values,            \* contents of a page
  Zero, Image,       \* of a page as the loader leaves it, and of a program
  WriteProtect,      \* CR0.WP, which main.c leaves as the boot loader set it
  Touched,           \* pages the programs store to
  DataFrame,         \* the frame numbered like the address of the data
  MaxFrames,         \* bound: frames of the machine
  MaxWork            \* bound: pages copied and programs loaded

ASSUME ProcsAssumption == InitProc \in Procs
ASSUME ValuesAssumption == Zero \in Values /\ Image \in Values
ASSUME WriteProtectAssumption == WriteProtect \in BOOLEAN
ASSUME MaxFramesAssumption == MaxFrames \in Nat /\ MaxFrames > 18
ASSUME DataAssumption == DataFrame \in 1..(MaxFrames - 1)
ASSUME MaxWorkAssumption == MaxWork \in Nat

VARIABLES
  next,              \* the first frame not handed out
  user,              \* the frames handed out for user pages
  content,           \* what the frames of the processes hold
  live,              \* processes that have been created
  pte, path, cow,    \* entries, W bits above them, COW bits of the PML4
  dtab,              \* the table of the data pages: "none", "own" or "zero"
  zeroPte,           \* the data entries in physical page 0, taken for a table
  heapAt, stackAt,   \* frames of the heap and stack page: their addresses
  corrupt,           \* a store has gone to a frame of the kernel
  work               \* pages copied and programs loaded

tables == <<pte, path, cow, dtab, zeroPte>>
places == <<heapAt, stackAt>>
vars == <<next, user, content, live, pte, path, cow, dtab, zeroPte, heapAt,
          stackAt, corrupt, work>>

NoFrame == 0
FirstFree == 2      \* the frames below are the kernel's from the start
Frames == 0..MaxFrames

Loaded == {"text", "heap", "stack"}          \* present from loadelf on
Beside == {"heapnext", "stacknext"}          \* mapped along with them
DataPages == {"data", "datanext"}            \* the data, and the page behind
Pages == Loaded \cup Beside \cup DataPages \cup {"stackbelow"}
ASSUME TouchedAssumption == Touched \subseteq Pages \ {"datanext"}

Tables == {"text", "data", "heap", "stack"}
Regions == {"low", "heap", "stack"}          \* entries of the PML4

Table(v) ==
  CASE v \in {"heap", "heapnext"} -> "heap"
    [] v \in {"stack", "stacknext", "stackbelow"} -> "stack"
    [] v \in DataPages -> "data"
    [] OTHER -> v

Region(v) == IF Table(v) \in {"text", "data"} THEN "low" ELSE Table(v)

(* The entry of page v of p when the data pages are in the table tab.      *)
EntryIn(p, v, tab) ==
  IF v \in DataPages /\ tab = "zero" THEN zeroPte[v] ELSE pte[p][v]

Entry(p, v) == EntryIn(p, v, dtab[p])
Present(p, v) == Entry(p, v).frame # NoFrame
Writable(p, v) == Present(p, v) /\ Entry(p, v).w /\ path[p][Table(v)]

(* What the kernel keeps in its own frames is not told apart.              *)
Contents(f) == IF f \in DOMAIN content THEN content[f] ELSE Zero
View(p, v) == Contents(Entry(p, v).frame)

Absent == [frame |-> NoFrame, w |-> FALSE]
Full(f) == [frame |-> f, w |-> TRUE]
ReadOnly(e) == [e EXCEPT !.w = FALSE]

-----------------------------------------------------------------------------
(* loadelf, with n the first free frame: the mm, vma and file structures,  *)
(* the text and its three tables, the heap and its vma, three tables when  *)
(* the first store to the heap faults, and the same for the stack.  The    *)
(* fault maps two pages (the loop runs while size >= 0), the second one on *)
(* the vma just allocated.  The loop over the program headers ends with    *)
(* the first segment, its counter having been used for the bytes copied:   *)
(* the data segment is not loaded.                                         *)
TextOf(n) == n + 3
HeapOf(n) == n + 7
StackOf(n) == n + 12
LoadFrames == 17

(* The second page a fault maps: it is one behind the page asked for.      *)
Behind(f) == f + 1

(* The frames numbered like the addresses of the data pages.               *)
DataAt(v) == IF v = "data" THEN DataFrame ELSE Behind(DataFrame)
DataFrames == {DataAt(v) : v \in DataPages}

(* Faulty: the text is mapped one frame too low.                           *)
LoadedTooLow(n) ==
  [v \in Pages |->
     CASE v = "text" -> Full(TextOf(n) - 1)
       [] v = "heap" -> Full(HeapOf(n))
       [] v = "heapnext" -> Full(Behind(HeapOf(n)))
       [] v = "stack" -> Full(StackOf(n))
       [] v = "stacknext" -> Full(Behind(StackOf(n)))
       [] OTHER -> Absent]

LoadedTable(n) ==
  [v \in Pages |->
     CASE v = "text" -> Full(TextOf(n))
       [] v = "heap" -> Full(HeapOf(n))
       [] v = "heapnext" -> Full(Behind(HeapOf(n)))
       [] v = "stack" -> Full(StackOf(n))
       [] v = "stacknext" -> Full(Behind(StackOf(n)))
       [] OTHER -> Absent]

Given(n) == {TextOf(n), HeapOf(n), StackOf(n)}

Unset(S) == [p \in Procs |-> [t \in S |-> FALSE]]

(* user_process: the first program is loaded into new tables.              *)
Init ==
  /\ next = FirstFree + LoadFrames
  /\ user = Given(FirstFree)
  /\ content = [f \in {NoFrame} \cup DataFrames \cup Given(FirstFree) |->
                  IF f = TextOf(FirstFree) THEN Image ELSE Zero]
  /\ live = {InitProc}
  /\ pte = [p \in Procs |-> IF p = InitProc THEN LoadedTable(FirstFree)
                            ELSE [v \in Pages |-> Absent]]
  /\ path = [Unset(Tables) EXCEPT ![InitProc] = [t \in Tables |-> TRUE]]
  /\ cow = Unset(Regions)
  /\ dtab = [p \in Procs |-> "none"]
  /\ zeroPte = [v \in DataPages |-> Absent]
  /\ heapAt = [p \in Procs |-> HeapOf(FirstFree)]
  /\ stackAt = [p \in Procs |-> StackOf(FirstFree)]
  /\ corrupt = FALSE
  /\ work = 0

-----------------------------------------------------------------------------
(* Frames fork takes: the PCB, the mm, the first vma, the vmas and the     *)
(* file copied by copy_process, the node in /proc, and the tables.         *)
ForkFrames(p) == 19 + (IF dtab[p] = "none" THEN 0 ELSE 1)

(* Faulty: the entries of the parent stay writable.                        *)
ShareForChildOnly(p, c) ==
  [pte EXCEPT ![c] = [v \in Pages |-> ReadOnly(Entry(p, v))]]

(* duplicate_pt and the levels above it: an entry loses its W bit in the   *)
(* source, and the child gets the same entry.                              *)
SharedTables(p, c) ==
  [pte EXCEPT ![p] = [v \in Pages |-> ReadOnly(pte[p][v])],
              ![c] = [v \in Pages |-> ReadOnly(Entry(p, v))]]

sys_fork(p, c) ==
  /\ p \in live /\ c \notin live
  /\ next + ForkFrames(p) <= MaxFrames
  /\ next' = next + ForkFrames(p)
  /\ live' = live \cup {c}
  /\ pte' = SharedTables(p, c)
  /\ zeroPte' = [v \in DataPages |-> IF dtab[p] = "zero"
                                     THEN ReadOnly(zeroPte[v]) ELSE zeroPte[v]]
  /\ path' = [path EXCEPT ![p] = [t \in Tables |-> FALSE],
                          ![c] = [t \in Tables |-> FALSE]]
  /\ cow' = [cow EXCEPT ![p] = [r \in Regions |-> TRUE],
                        ![c] = [r \in Regions |-> TRUE]]
  /\ dtab' = [dtab EXCEPT ![c] = IF dtab[p] = "none" THEN "none" ELSE "own"]
  /\ heapAt' = [heapAt EXCEPT ![c] = heapAt[p]]
  /\ stackAt' = [stackAt EXCEPT ![c] = stackAt[p]]
  /\ UNCHANGED <<user, content, corrupt, work>>

(* Puts the entries new in the place of p's, with the data's in table tab. *)
SetEntries(p, new, tab) ==
  LET InZero(u) == u \in DataPages /\ tab = "zero"
  IN  /\ dtab' = [dtab EXCEPT ![p] = tab]
      /\ pte' = [pte EXCEPT ![p] = [u \in Pages |->
                    IF InZero(u) THEN pte[p][u] ELSE new[u]]]
      /\ zeroPte' = [u \in DataPages |-> IF InZero(u) THEN new[u] ELSE zeroPte[u]]

(* Faulty: the copy goes to the frame the page already has.                *)
CopyInPlace(p, v) == IF Present(p, v) THEN Entry(p, v).frame ELSE next

CopyTarget(p, v) == next

(* Faulty: the COW bit is taken off once a page has been copied.           *)
CowCleared(p, v) == [cow EXCEPT ![p][Region(v)] = FALSE]

CowAfterCopy(p, v) == cow

(* copy_page: a new frame, and a temporary one through which the contents  *)
(* go.  An entry above that is missing is or-ed with 7 before it is        *)
(* tested, so a missing table is found in physical page 0.                 *)
copy_page(p, v) ==
  LET tab == IF v \in DataPages /\ dtab[p] = "none" THEN "zero" ELSE dtab[p]
      old == EntryIn(p, v, tab)
      used == IF old = Absent THEN 1 ELSE 2
      f == CopyTarget(p, v)
  IN  /\ next + used <= MaxFrames
      /\ work < MaxWork
      /\ work' = work + 1
      /\ next' = next + used
      /\ user' = user \cup {f}
      /\ content' = [g \in DOMAIN content \cup {f} |->
                       IF g = f THEN Contents(old.frame) ELSE content[g]]
      /\ SetEntries(p, [u \in Pages |-> IF u = v THEN Full(f)
                                        ELSE EntryIn(p, u, tab)], tab)
      /\ path' = [path EXCEPT ![p][Table(v)] = TRUE]
      /\ cow' = CowAfterCopy(p, v)

(* Faulty: the low half of the address is taken for a signed number.       *)
SignedFrame(p, v) == IF v \in DataPages THEN -1 ELSE stackAt[p]

(* The frame interrupt4 passes to map_user_address for page v.             *)
OwnFrame(p, v) ==
  CASE v \in DataPages -> DataAt(v)
    [] v = "heap" -> heapAt[p]
    [] v = "stack" -> stackAt[p]
    [] v = "heapnext" -> Behind(heapAt[p])
    [] v = "stacknext" -> Behind(stackAt[p])
    [] v = "stackbelow" -> stackAt[p] - 1
    [] OTHER -> NoFrame

(* The page behind v.  (Behind heapnext, stacknext and the text nothing is *)
(* mapped: they are there when the program is loaded and never fault in a  *)
(* region without its COW bit.)                                            *)
Following(v) ==
  CASE v = "heap" -> "heapnext"
    [] v = "stackbelow" -> "stack"
    [] v = "stack" -> "stacknext"
    [] v = "data" -> "datanext"
    [] OTHER -> v

(* map_user_address from the fault handler, called for one page: its loop  *)
(* maps that page and the one behind, leaving as it is what is present.    *)
map_user_address(p, v) ==
  LET new == v \in DataPages /\ dtab[p] = "none"
      tab == IF new THEN "own" ELSE dtab[p]
      taken == IF new THEN 1 ELSE 0
      Mapped(u) == /\ u \in {v, Following(v)}
                   /\ EntryIn(p, u, tab).frame = NoFrame
  IN  /\ next + taken <= MaxFrames
      /\ next' = next + taken
      /\ SetEntries(p, [u \in Pages |-> IF Mapped(u) THEN Full(OwnFrame(p, u))
                                        ELSE EntryIn(p, u, tab)], tab)
      /\ path' = IF new THEN [path EXCEPT ![p]["data"] = TRUE] ELSE path
      /\ UNCHANGED <<user, content, cow, work>>

(* interrupt4, for a store to page v or a load from it that misses.        *)
Fault(p, v) ==
  /\ p \in live /\ ~corrupt
  /\ ~Writable(p, v)
  /\ IF cow[p][Region(v)] THEN copy_page(p, v) ELSE map_user_address(p, v)
  /\ UNCHANGED <<live, heapAt, stackAt, corrupt>>

(* A store to a frame of the kernel, in use for its structures, ends what  *)
(* the model follows; one to a frame of the user or one still free does    *)
(* not.                                                                    *)
Write(p, v, x) ==
  LET f == Entry(p, v).frame
  IN  /\ IF f \in user \/ f >= next
         THEN content' = [content EXCEPT ![f] = x] /\ UNCHANGED corrupt
         ELSE corrupt' = TRUE /\ UNCHANGED content
      /\ UNCHANGED <<next, user, live, tables, places, work>>

UserStore(p, v, x) ==
  /\ p \in live /\ ~corrupt
  /\ Writable(p, v)
  /\ Write(p, v, x)

(* A store of the kernel into a page of the process it works for: a buffer *)
(* of read, a header of malloc.  Without WP the W bits do not hold it up.  *)
KernelStore(p, v, x) ==
  /\ p \in live /\ ~corrupt
  /\ Present(p, v)
  /\ WriteProtect => Writable(p, v)
  /\ Write(p, v, x)

-----------------------------------------------------------------------------
(* clear_uptentries and the loading behind it.                             *)
NewTables(p, n) == [pte EXCEPT ![p] = LoadedTable(n)]

(* do_execvpe.  The text is copied before the TLB is flushed: with the old *)
(* translation still in it (stale), the copy goes to the old text frame.   *)
(* clear_vmas only frees kernel structures.                                *)
do_execvpe(p, stale) ==
  LET text == IF stale THEN pte[p]["text"].frame ELSE TextOf(next)
  IN  /\ p \in live /\ ~corrupt
      /\ next + LoadFrames <= MaxFrames
      /\ work < MaxWork
      /\ work' = work + 1
      /\ next' = next + LoadFrames
      /\ user' = user \cup Given(next)
      /\ content' = [f \in DOMAIN content \cup Given(next) |->
                       IF f = text THEN Image
                       ELSE IF f \in Given(next) THEN Zero ELSE content[f]]
      /\ pte' = NewTables(p, next)
      /\ zeroPte' = [v \in DataPages |-> IF dtab[p] = "zero" THEN Absent
                                         ELSE zeroPte[v]]
      /\ path' = [path EXCEPT ![p] = [t \in Tables |-> TRUE]]
      /\ cow' = [cow EXCEPT ![p] = [r \in Regions |-> FALSE]]
      /\ dtab' = [dtab EXCEPT ![p] = "none"]
      /\ heapAt' = [heapAt EXCEPT ![p] = HeapOf(next)]
      /\ stackAt' = [stackAt EXCEPT ![p] = StackOf(next)]
      /\ UNCHANGED <<live, corrupt>>

(* What a kernel does whose structures were overwritten is left open.      *)
Halted == corrupt /\ UNCHANGED vars

Next ==
  \/ \E p, c \in Procs : ~corrupt /\ sys_fork(p, c)
  \/ \E p \in Procs, v \in Touched : Fault(p, v)
  \/ \E p \in Procs, v \in Touched, x \in Values :
        UserStore(p, v, x) \/ KernelStore(p, v, x)
  \/ \E p \in Procs, stale \in BOOLEAN : do_execvpe(p, stale)
  \/ Halted

Spec == Init /\ [][Next]_vars

-----------------------------------------------------------------------------
(* Properties                                                              *)

(* Type correctness of tables and frames.                                  *)
TypeOK ==
  /\ next \in 0..(MaxFrames + 1)
  /\ user \subseteq Frames
  /\ content \in [user \cup {NoFrame} \cup DataFrames -> Values]
  /\ live \subseteq Procs
  /\ pte \in [Procs -> [Pages -> [frame : Frames, w : BOOLEAN]]]
  /\ path \in [Procs -> [Tables -> BOOLEAN]]
  /\ cow \in [Procs -> [Regions -> BOOLEAN]]
  /\ dtab \in [Procs -> {"none", "own", "zero"}]
  /\ zeroPte \in [DataPages -> [frame : Frames, w : BOOLEAN]]
  /\ heapAt \in [Procs -> Frames] /\ stackAt \in [Procs -> Frames]
  /\ corrupt \in BOOLEAN
  /\ work \in 0..MaxWork

(* A data page of p that is the frame numbered like its address, whoever   *)
(* that frame belongs to.                                                  *)
Stray(p, v) == v \in DataPages /\ Entry(p, v).frame = OwnFrame(p, v)

(* A frame one process can write is not mapped by any other page of any    *)
(* process, whatever forks, copies and execs came before.  There are two   *)
(* exceptions: the frame is the one numbered like the address of the data, *)
(* and one of the pages got it for that; or they are the data pages of     *)
(* processes with the table in physical page 0, who share its entries.     *)
WritableIsExclusive ==
  \A p, q \in live, v, u \in Pages :
    (/\ <<p, v>> # <<q, u>>
     /\ Writable(p, v) /\ Entry(p, v).frame = Entry(q, u).frame)
      => \/ Stray(p, v) \/ Stray(q, u)
         \/ v \in DataPages /\ u = v /\ dtab[p] = "zero" /\ dtab[q] = "zero"

(* What a page shows is a frame handed out for that very page, of this or  *)
(* of an earlier process, unless it is one of the five pages that nothing  *)
(* was handed out for: those beside heap and stack are kernel structures   *)
(* of the same load, and the data page and the one behind it the frames of *)
(* the data's address, which are the kernel's, another process's or free.  *)
ForeignFrames ==
  \A p \in live, v \in Pages :
    Present(p, v) =>
      \/ /\ v \in Beside \cup DataPages \cup {"stackbelow"}
         /\ Entry(p, v).frame = OwnFrame(p, v)
      \/ /\ Entry(p, v).frame \in user
         /\ \A q \in live, u \in Pages :
              Entry(q, u).frame = Entry(p, v).frame => u = v \/ Stray(q, u)

(* interrupt4 can settle every fault: where the region has no COW bit, so  *)
(* that map_user_address is called, a page that cannot be written is one   *)
(* that is not mapped, below tables that are writable or still to be made. *)
(* A page mapped read-only would be left as it is, and its store would     *)
(* fault for ever.                                                         *)
FaultResolves ==
  \A p \in live, v \in Pages :
    ~Writable(p, v) /\ ~cow[p][Region(v)]
      => /\ ~Present(p, v)
         /\ path[p][Table(v)] \/ (v \in DataPages /\ dtab[p] = "none")

(* The tables implement PrivateMemory for the pages a program is loaded    *)
(* with: a process gets to write a page only by being the only one left    *)
(* that maps its frame, so its stores are never seen by another; fork      *)
(* hands down what the parent saw, a copy changes nothing anyone reads,    *)
(* exec leaves the others' memory alone but for the page being loaded.     *)
(* Only the kernel's stores, for want of WP, reach those who share, and    *)
(* only pages in a frame of the data's address change by others' data.     *)
Sharers(p, v) ==
  {q \in live : p \in live /\ Entry(q, v).frame = Entry(p, v).frame}

Memory == INSTANCE PrivateMemory WITH
            Pages <- Loaded,
            mem <- [p \in Procs |-> [v \in Loaded |-> View(p, v)]],
            shares <- [p \in Procs |-> [v \in Loaded |-> Sharers(p, v)]],
            own <- [p \in Procs |-> [v \in Loaded |-> Writable(p, v)]],
            exposed <- [p \in Procs |-> [v \in Loaded |->
                          Entry(p, v).frame \in DataFrames]]

ImplementsPrivateMemory == Memory!Spec
=============================================================================
