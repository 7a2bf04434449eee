----------------------------- MODULE KernelMap -----------------------------
(***************************************************************************)
(* The kernel's direct map (virtualmem.c) on top of the page allocator:    *)
(* physical page f is seen at KERNBASE + f once its entry is set.          *)
(* init_paging maps what is in use at boot, map_pagetables makes the       *)
(* tables, bump maps what it hands out, kfree unmaps it.  bump_user and    *)
(* bump_physical map nothing.                                              *)
(*                                                                         *)
(* map_address is not told how many pages to map: it maps from the page    *)
(* granted up to the next free one.  Behind the end of a table it takes a  *)
(* new one from bump, which calls map_address for it, and puts it in the   *)
(* place of the table that map_pagetables had made.  The directories above *)
(* the tables are made once and cover the memory of the model.             *)
(***************************************************************************)
EXTENDS PageAllocator

CONSTANTS
  T,            \* entries of a page table (512 in the code)
  Bases,        \* candidates for the number of pages below physfree
  MaxRequest    \* bound: pages asked for in one call for user memory

ASSUME TAssumption == T \in Nat \ {0, 1}
ASSUME BasesAssumption == Bases \subseteq Nat
ASSUME MaxRequestAssumption == MaxRequest \in Nat

VARIABLES
  base,         \* pages below physfree
  mapped,       \* physical pages whose entry is set
  tables,       \* tables that exist, by their place in the directory
  made,         \* frames of tables made by map_pagetables and map_address
  kernel,       \* frames of kernel structures, from bump
  fault         \* the kernel has used a page that is not mapped

mapvars == <<base, mapped, tables, made, kernel, fault>>
allvars == <<vars, mapvars>>

Page(f) == base + f                \* the physical page of frame f
TableOf(page) == page \div T
PagesOf(t) == (t * T)..(t * T + T - 1)
LastTable == TableOf(Page(K))
Ceiling(n) == (n + T - 1) \div T

KInit ==
  /\ Init
  /\ base \in Bases
  /\ mapped = {}
  /\ tables = {}
  /\ made = {}
  /\ kernel = {}
  /\ fault = FALSE

-----------------------------------------------------------------------------
(* map_address_initial, with d pages in use when it begins to map: one     *)
(* entry for each of them, for each further table, and one more.  The      *)
(* tables it takes on the way lie right behind the pages in use.           *)

(* Faulty: the loop runs while size > 0.                                   *)
InitialEntriesShort(d) == d + Ceiling(d) - 1

InitialEntries(d) == d + Ceiling(d)

(* pml4t_t, and a table of each of the three levels below it.              *)
FirstTables == 4
InUse == Page(MetaFrames + 1 + FirstTables)
EarlyTables == FirstTables + TableOf(InitialEntries(InUse) - 1)

EarlyTable ==
  /\ Cardinality(kept) < EarlyTables
  /\ bump_initial
  /\ UNCHANGED mapvars

(* The end of init_paging, and init_after_paging behind it.                *)
init_paging ==
  /\ Cardinality(kept) = EarlyTables
  /\ init_after_paging
  /\ mapped' = 0..(InitialEntries(InUse) - 1)
  /\ tables' = 0..TableOf(InitialEntries(InUse) - 1)
  /\ UNCHANGED <<base, made, kernel, fault>>

-----------------------------------------------------------------------------
(* The page at the head of the free list once n have been taken off it:    *)
(* get_unallocated().  Behind the free nodes come the slots in use, each   *)
(* with the number it held when it was taken.                              *)
Head_free(n) == Page(current[Chain[(n % ChainLength) + 1]])

(* Entries to set, from the distance to the next free page; with a         *)
(* negative one size is negative and the loop does not run.                *)
Entries(d) == IF d > 0 THEN d + Ceiling(d) - 1 ELSE 0

RECURSIVE map_address(_)

(* A table for the pages from page on.  It is mapped by the old table of   *)
(* its place before it replaces that, and all that table mapped is lost;   *)
(* what is written to it later is written through the TLB.                 *)
NewTable(s, page) ==
  LET r == map_address([s EXCEPT !.taken = @ + 1])
  IN  IF s.fault \/ s.taken = number_of_free_pages
      THEN [s EXCEPT !.fault = TRUE]
      ELSE [r EXCEPT !.mapped = @ \ PagesOf(TableOf(page)),
                     !.fault = @ \/ Head_free(s.taken) \notin r.mapped]

(* map_address for the page taken off the list last.                       *)
map_address(s) ==
  LET first == Head_free(s.taken - 1)
      n == Entries(Head_free(s.taken) - first)
      after[i \in 0..n] ==
        IF i = 0 THEN s
        ELSE LET page == first + i - 1
                 t == IF i > 1 /\ page % T = 0 THEN NewTable(after[i - 1], page)
                      ELSE after[i - 1]
             IN  [t EXCEPT !.mapped = @ \cup {page}]
  IN  after[n]

(* A page taken off the list and mapped.                                   *)
Taken == map_address([taken |-> 1, mapped |-> mapped, fault |-> FALSE])

TakeAndMap ==
  /\ bump(Taken.taken)
  /\ mapped' = Taken.mapped
  /\ fault' = (Taken.fault \/ Head_free(0) \notin Taken.mapped)

Frame(n) == current[Chain[n]]
Running == ~fault
Booted == tables = 0..LastTable

(* map_pagetables: one turn of its loops that finds no table.              *)
map_pagetables ==
  /\ Running /\ paging /\ ~Booted
  /\ TakeAndMap
  /\ tables' = tables \cup {Min((0..LastTable) \ tables)}
  /\ made' = made \cup FirstFrames(Taken.taken)
  /\ UNCHANGED <<base, kernel>>

(* bump for a structure of the kernel: they all fit in one page.           *)
bump_kernel ==
  /\ Running /\ Booted
  /\ TakeAndMap
  /\ kernel' = kernel \cup {Frame(1)}
  /\ made' = made \cup (FirstFrames(Taken.taken) \ {Frame(1)})
  /\ UNCHANGED <<base, tables>>

(* bump_user, and bump_physical for the pages of a program: nothing is     *)
(* mapped, and nothing is ever freed.                                      *)
bump_user(n) ==
  /\ Running /\ Booted
  /\ bump(n)
  /\ UNCHANGED mapvars

(* 0 is returned for want of pages; no caller tests for it.                *)
BumpFails(n) ==
  /\ Running /\ Booted /\ ~broken /\ ~clash /\ pending = NULL
  /\ number_of_free_pages < n
  /\ fault' = TRUE
  /\ UNCHANGED <<vars, base, mapped, tables, made, kernel>>

(* kfree unmaps the page: unmap_page.                                      *)
Unmapped(f) ==
  /\ Running
  /\ mapped' = mapped \ {Page(f)}
  /\ kernel' = kernel \ {f}
  /\ UNCHANGED <<base, tables, made, fault>>

KHalted == (broken \/ clash \/ fault) /\ UNCHANGED allvars

KNext ==
  \/ EarlyTable
  \/ init_paging
  \/ map_pagetables
  \/ bump_kernel
  \/ \E n \in 1..MaxRequest : bump_user(n) \/ BumpFails(n)
  \/ \E f \in kernel : Unmapped(f) /\ (kfree(f) \/ clear_vmas(f))
  \/ FreeAgain /\ Unmapped(pending)
  \/ KHalted

KSpec == KInit /\ [][KNext]_allvars

-----------------------------------------------------------------------------
(* Properties                                                              *)

(* Type correctness of the list and the direct map.                        *)
KTypeOK ==
  /\ TypeOK
  /\ base \in Bases
  /\ mapped \subseteq 0..(base + 2 * K)
  /\ tables \subseteq 0..LastTable
  /\ made \subseteq held
  /\ kernel \subseteq held
  /\ fault \in BOOLEAN

(* As long as there is memory that was never handed out, every page the    *)
(* kernel holds is mapped, its page tables included, the next page to be   *)
(* handed out has a table, and no access of the kernel has failed unless a *)
(* request was larger than what was left.  The count of                    *)
(* map_address_initial is just enough for that at boot, whatever the size  *)
(* of the kernel, and map_address maps just what is granted.               *)
DirectMapComplete ==
  paging /\ used # Frames =>
    /\ {Page(f) : f \in kept \cup made \cup kernel} \subseteq mapped
    /\ TableOf(Head_free(0)) \in tables
    /\ fault => number_of_free_pages < MaxRequest
=============================================================================
