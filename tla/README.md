# A TLA+ development of the oswp2 kernel

oswp2 is a small x86-64 teaching kernel: one CPU, preemptive processes with
fork, waitpid, execvpe, exit and kill, copy-on-write paging, a page allocator,
a read-only file system in a tar image with a `/proc` directory, a terminal and
a shell. This directory models its core in TLA+, checks it with TLC and proves
the central invariants with TLAPS. Source lines below are relative to `src/`.

## Inventory

| Component | State it keeps | Operations | What is hard, what makes it correct |
|---|---|---|---|
| Scheduler and process table (`sys/contextswitch.c`, `sys/main.c`) | `threadlist`, `blockedlist`, `currentthread`, PCB fields `state`, `is_wait`, `ppid`, `totalslice`, `elapsed` | `create_thread`, `schedule`, `thread_on_completion`, boot threads | hand-written list surgery between preemptions; lists must stay lists, one thread owns the CPU, nobody ready starves |
| Process system calls (`sys/syscall.c`, `sys/process.c`) | `processcount`, `/proc` entries | `fork`, `waitpid`, `exit`, `kill`, `sleep`, `read` from the keyboard, `execvpe` | a wait that races the end of the child, a kill in any state of the victim, slices that are split and handed back |
| Interrupts and PIC (`sys/idt.c`, `sys/pic.c`) | interrupt mask, IRQ in service | timer, keyboard, page fault, system call gate | the acknowledge comes after `schedule()`, from another thread's code |
| Clock (`sys/idt.c`, `sys_sleep`) | `tcount` and the displayed fields | `interrupt0`, `handletime`, `gettcount`, `sys_sleep` | two counters that must not drift; a loop that compares ticks for equality |
| Page allocator (`sys/allocator.c`) | one chain of nodes, `head_free`, `head_end`, `head_unalloc`, counter | `initbump`, `init_after_paging`, `bump*`, `kfree` | free frames and empty slots share the chain; exhaustion; order of reuse |
| Virtual memory (`sys/virtualmem.c`, `interrupt4`) | page tables per process, kernel direct map | mapping, duplication, copy on write, unmapping | mapping sizes taken from the allocator's state, shared tables |
| Program loading (`sys/tarfs.c`, `do_execvpe`) | vma lists, `mm` | `loadelf`, `clear_vmas`, `clear_uptentries` | double frees, leaked segments |
| User heap (`do_malloc`, `do_free`) | free list of blocks | malloc, free | exact fits, coalescing, no fit |
| File system (`sys/fs.c`) | node tree, one table of 25 descriptors | open, read, close, opendir, readdir, closedir, unlink, lookup | one table for all processes, offsets, full table |
| Terminal (`sys/kscanf.c`, `check_for_ip`) | line buffer, modifier flags | key interrupt, readers | readers race the interrupt and each other |
| Shell, programs, libc (`bin/`, `libc/`) | none in the kernel | users of the system calls | - |
| GDT, console output, PCI/AHCI | - | set-up, I/O; `checkbus()` is commented out | not protocols |

Interaction. All kernel code shares global variables on one CPU. A system call
enters through `interrupt_syscall`, which turns interrupts off, runs the call,
calls `schedule()` and only then returns to user mode; the timer interrupt
calls `schedule()` when the slice of the running thread is used up.
`schedule()` ends in `switch_to`, which turns interrupts on, so a thread is
suspended either inside `schedule()` or by the timer. The calls that wait
(`sys_sleep`, keyboard reads) spin with interrupts on; `sys_waitpid` calls
`schedule()` itself. fork takes frames from the allocator and shares page
tables; exit and kill free none.

As built, the timer does not fire: `init_pic` writes the mask 0xfd (sys/pic.c:44),
which opens the keyboard line only. The scheduler, the slices and the clock are
written for a timer, and the handler is installed, so the mask is a constant of
the model (`TimerLine`). The behaviours with the line masked are those
behaviours of the open line in which the timer never fires, so every safety
property checked or proved with `TimerLine = TRUE` holds for the kernel as
built too.

## Modules

| Module | Models |
|---|---|
| `Scheduler` | process table, scheduler, timer preemption, process system calls |
| `SchedulerProofs`, `ListLemmas` | proofs about `Scheduler` (lists, CPU, waiting, `/proc`, PIC, slices); facts about sequences and sums |
| `Clock`, `ClockProofs` | tick counter, displayed time, `sys_sleep`; its proofs |
| `PageAllocator`, `PageAllocatorProofs` | allocator.c at the level of list nodes; its proofs |
| `PageQueue` | what the allocator promises: a bounded FIFO queue of frames |
| `KernelMap` | the kernel's direct map on top of `PageAllocator`, from boot on |
| `CopyOnWrite`, `CopyOnWriteProofs` | user page tables: loading, fork, page faults, exec; proofs |
| `PrivateMemory` | what `CopyOnWrite` promises a process about its memory |
| `FileSystem`, `FileSystemProofs` | tree of the archive, lookup, descriptors, directory streams, unlink; proofs |
| `Heap`, `HeapProofs` | `do_malloc` and `do_free` on the headers of one heap page; proofs |
| `Terminal`, `TerminalProofs` | keyboard interrupt, line buffer, the reader `check_for_ip`; proofs |
| `MCScheduler`, `MCClock`, `MCKernelMap`, `MCHeap`, `MCTerminal`, `MCCopyOnWrite`, `MCFileSystem` | instances for TLC |

### Scheduler

State: the two PCB lists are sequences of threads, the PCB fields are functions
from threads, and `pc` says in which code a thread is suspended (what the
kernel stack and the saved registers hold in the code). The kernel threads are
`MAIN`, `FUN1`, `IDLE`; a process is named by its pid. `eoi[t]` records whether
the code in which `t` was suspended acknowledges the PIC after its return from
`schedule()`, `isr` whether IRQ0 is in service, during which the PIC raises no
further timer interrupt.

Atomicity: a system call body runs with interrupts off and is one step together
with the `schedule()` at the end of `interrupt_syscall`. Waiting calls are
split where the code turns interrupts on. Code of kernel threads runs with
interrupts on; each call of `create_thread` or `schedule()` in it is one step,
and the timer may come between any two. `user_process` and the
`thread_on_completion` that ends `fun1` are single steps, although a tick
could interrupt them half-way; during boot no other thread touches the data
they change.

`Schedule(tl, st, ack, svc)` is `schedule()` followed by `switch_to`:
`NextThread` is its search, `Outgoing` the state the caller is left in. A
search that finds nothing falls back on `mainthread`, which is also what the
code does after everything else has ended. `thread_on_completion` gives the
slice back (`GiveBackSlice`, with the re-read of a PCB that pays itself), finds
the place for the waiting parent (`WakePosition`) and cuts `blockedlist` behind
the parent it found (`DropThrough`, faithful to `blockedlist = temp_list`).
`RemoveProcEntry` is the removal in `sys_kill`: the name it looks for has the
digits of the pid in reverse order, and without a match the last entry goes.
The code does this in base 10, so that it goes wrong from pid 10 on; the base
is the constant `Radix`, and in base 2 the same code goes wrong at pid 2.
`StaleWords` is what `copy_process` finds in the fields it does not set:
`{0}` for memory never used, anything for reused pages. `sys_execvpe` leaves
all of this state alone: it enters ring 3 from `do_execvpe`, past the
`schedule()` and the acknowledge of the other calls.

User programs are arbitrary: a process in ring 3 may make any call, fault or be
interrupted at any time. Not modelled: kill with pid 0 or with a pid never
handed out (the latter only gives up the CPU, as `OtherSyscall`), the current
directory that `sys_chdir` copies to the parent, waitpid with a pid not handed
out.

### Clock

`interrupt0` counts `tcount` and, in `handletime`, the fields it displays. A
second carries into the minutes on the *next* tick, as the code tests
`scount == 60` before it counts the new second; the display shows 60 seconds
for that tick. `sys_sleep` polls; when it gets
the CPU to do so is up to the scheduler, so `Poll` may come at any time. A
second is counted in a poll that finds exactly 18 ticks passed; a sleeper that
has no poll in that tick has missed it (`Missed`) and stays in its loop.
`SleepEnds` says that a sleep ends unless this happens, and that it never ends
if it does.

### PageAllocator and PageQueue

Nodes are numbers, 0 is NULL, and the NULL node exists because `bump_initial`
writes through `head_end` before `init_after_paging` has set it. `Grant` is the
loop of the four `bump` functions, which differ in the base they add to the
frame. Two history variables, `held` and `used`, record who owns a frame and
which were ever granted. `kfree` steps to the slot behind `head_unalloc`; after
a drain there is none, and what the kernel does then is left open (`broken`).
Callers free what they hold, once (`kfree`), but for `clear_vmas`, which
execvpe calls: it frees the areas of the process and then the first of them
again (`FreeAgain`, sys/process.c:285). From then on a frame can be on the list
twice (`twice`); when it is granted to a second owner (`clash`) the model stops.
`FramesConserved` says what holds before and after.

`PageQueue` is the abstract specification: frames come out of a queue in order
and go back at its end, requests are granted whole or not at all.
`PageAllocator` implements it under the mapping queue = frames of the first
`number_of_free_pages` nodes from `head_free`, capacity = length of the chain.

`PageAllocator` has a specification of its own; the run checks its properties
in the composition with `KernelMap`.

### KernelMap

Extends `PageAllocator` with the direct map: physical page `f` is usable by the
kernel at `KERNBASE + f` once its entry is set. `EarlyTable` and `init_paging`
are the boot (`map_address_initial`), `map_pagetables` makes a table for every
part of memory, `bump_kernel` is `bump` with the `map_address` in it,
`bump_user` stands for the two variants that map nothing, `Unmapped` is
`unmap_page` in `kfree`. `map_address` is not told what to map: it maps from
the page granted to the next free one, and takes a new table from `bump`, which
calls it again, whenever it crosses into the next one. That recursion and its
effects (a new table replaces one that exists; nothing is mapped when the next
free page is lower) are modelled entry by entry. Tables have `T` entries
instead of 512; the two levels above are made once and are left out. `fault`
marks an access to a page that is not mapped, or a request refused, whose 0 no
caller tests for; what follows is left open.

### CopyOnWrite and PrivateMemory

The state is the user half of the page tables of each process: an entry per
page (`pte`: frame and W bit), the W bits above it as one bit per table
(`path`), the COW bit of the PML4 entry (`cow`), on which alone `interrupt4`
decides between `copy_page` and `map_user_address`. The pages are the ones of a
loaded program (text, heap, stack), the data segment, and the pages beside heap
and stack that the kernel maps along, since the loop of `map_user_address` runs
once too often (sys/virtualmem.c:315). Frames are handed out in order, counted
as `loadelf`, `createheap`, `copy_process` and `duplicate_page_table` take
them, because what lies behind the heap page is decided by that order: the vma
structure. Two effects follow from the code and are kept: `loadelf` leaves its
loop after the first segment, so data pages come from faults; and
`copy_page` sets the bits of a missing directory entry before testing it, so
that physical page 0 serves as a page table (`dtab = "zero"`, `zeroPte`).

A fault of a data page maps the physical page that the low 32 bits of its
address name, about 0x600000 (sys/idt.c:385), the constant `DataFrame`, and the
extra turn of the loop the one with the next number (`Behind`, page
`datanext`). Nobody asked the allocator for either. Such a frame
is one of the kernel, one handed out for a page of some process, or one still
free, which may become either later; all programs that have not forked
show the same one. A store to a frame of the user or a free one changes what
all its pages show. One to a frame in use by the kernel sets `corrupt` and ends
what the model follows (`Halted`), as a store to the pages beside heap and stack
does. Stores to `datanext` are left out, the data of a program being taken to fit on
one page; that it is mapped, and with whom it is shared, is kept.

`WriteProtect` is CR0.WP, which the kernel does not set: its own stores pass
read-only entries (`KernelStore`). execvpe copies the text before it flushes
the TLB; whether the old translation is still there is a choice (`stale`).
Contents of pages are abstract values; what the loader itself puts on heap and
stack (list header, arguments) is not told apart. Freed frames are not reused
here, which is the first lap of the allocator; reuse is in `KernelMap`.

`PrivateMemory` is the promise for text, heap and stack. A process may store
only to pages that are its own, and a page becomes its own only when it shares
it with nobody; fork shares everything and makes nothing anybody's own; getting
a page for oneself changes nothing that is read. The kernel's stores are
specified as what they are: they reach all who share. So are those to data that
hit a page which happens to have a frame of the data address (`StrayStore`, for
pages that are `exposed`). Both are steps the promise admits because the code
takes them; what it excludes is that anything else changes what a process
reads. Mapping: `mem` is the
content seen through the tables, `shares` the processes with the same frame,
`own` the pages the tables let a process write.

### FileSystem

Inodes are numbered in the order of creation, lists of a directory hold names
and inode numbers; `nfiles` is `num_sub_files`, kept apart from the list because
`sys_unlink` lowers it even when it removes nothing. `load_tarfs` is one step
per header. Names are whole components (those of directories end in a slash,
as in the code); buffers for names of nine characters are assumed to suffice.
`HeadersAssumption` is what an archive made by `find` and `tar` from a directory
(Makefile:60) looks like: each file has one header, names of directories end in
a slash, no name is empty, and only directories have anything below them. The
order of the headers is left open. System calls run with interrupts off and are
one step; two processes make them in any order. A process has at most one file
and one stream open. It opens directories as directories, uses what it opened
and closes it once, or ends without closing, which frees nothing.

`file_descriptors` is one table for all. A directory without entries has no
place to keep its descriptor in: `do_opendir` allocates 0 bytes, and what
`readdir` and `closedir` later take for the descriptor is whatever lies there
(any `g`). Steps of the kernel outside its data (`file_descriptors[-1]`, a list
that is NULL) set `wild` and end the behaviour. The history variables `gone`,
`strayed`, `mixed` and `lost` let the properties name the cases in which the
code loses track. `sys_closedir` leaves out the loop that wipes the entries of
the stream (sys/fs.c:229): nobody reads them afterwards. That loop ends at the
first empty name. A block full of entries has none, so it looks behind the
block, and if the header or page there does not begin with a zero byte it is
wiped as well; `do_malloc` does not set the first word of that header, so this
depends on what the heap was used for before. The kfree(NULL) of an unlink that
finds nothing is not followed up.

### Heap

Addresses count units of 16 bytes, the size of a header; 0 is NULL. `hdr` holds
the `size` and `next` of the headers, `live` the blocks programs hold. Headers
that no call reads again (of units inside a block, of lost blocks) are dropped
from the state by `Relevant`. `InsertBehind` is the first and the third branch
of the loop in `do_free`, `InsertBefore` the second; the branch for an empty
free list (sys/process.c:227) cannot be taken, because `do_malloc` always
leaves a block in `freelist`. Programs free blocks they hold, once.

Two steps of the code give a unit to two owners: an exact fit of the first free
block leaves it on the list (sys/process.c:204), and a block freed between two
adjacent free ones leaves the upper one both on the list and inside the lower
one (sys/process.c:256). From then on payloads may overwrite headers; the model
stops there and `state` says why. It also stops when no block fits: the loop of
`do_malloc` then reads a header through NULL, since the branch with the comment
"create new heap" (sys/process.c:215) is empty. `OverlapHasTwoCauses` is an
equivalence: in these two cases blocks do overlap, and in no other.

### Terminal

`mem` is the memory around the buffer, with byte 0 the first of `terminal_buf`,
because a backspace on an empty line writes below it. `kscanf` runs with
interrupts off, one step per key. `check_for_ip` runs with interrupts on and is
split into its scan, test, copy and the three parts of `reset_terminal`; the
scan, the copy and the wipe are each one step. The wipe addresses the bytes
through `address_of_buf`, which a key can move meanwhile: the build may read
the pointer once or on every turn, and the model allows both. Keys are
classes: letters, enter, backspace, the modifiers, and `dead` for all keys
without a character, which discard the line. There is one reader, as the
keyboard is the only open interrupt line and `check_for_ip` does not call
`schedule()`; two readers, possible with the timer open, are not modelled.

`text` is what the user has typed and nobody has read. Three events make the
buffer differ from it (`Causes`): a key while the reader takes the line, a
backspace on an empty line, and a control character, whose caret `size` does
not count. `LineIntact` says that nothing else does, and that a discard by
`kscanf` repairs all three.

`ReadsWholeText` leaves out one case, which the proof brought to light: the
length the reader counted may come from a spoiled line (with carets, longer
than `size`) that a key discards before the test. If it is more than the buffer
holds, the test looks at a byte behind the buffer, and that byte is a newline
when an enter has been the key that filled the buffer: the reader then takes
zeros. Hence the condition `len <= SIZE`; up to that length a discarded line is
never taken. The case takes seven keys, more than the run presses; the condition
is justified by the proof, which is for any number of keys, and TLC finds the
counterexample without it at 7 keys of the kinds letter, enter, dead and
control.

## Runs

Passing runs:

- `Scheduler_timer`: 3 processes, slices of 2 ticks, timer open, fresh memory,
  pids in base 2; 1.8 million states. Three processes are the least with a child
  that waits while its parent waits, two siblings, and a kill of a third party;
  two ticks distinguish a slice used up from one that is not, and halve to 1 and
  0. In base 2 the pids are 1, 10 and 11: a kill of the second finds no entry 01
  and takes the last one, the entry of the third, as base 10 does with pid 10
  when there are eleven. Checks `TypeOK`, `ListsWellFormed`, `OneRunning`,
  `BlockedAreWaiting`, `SliceBudget`, `ProcShowsAll`, `PicStuckOnlyAtBoot`, and
  the action properties `GoneIsForever`, `WaitSound`, `ExitWakesWaiter`.
  `WaitSound` needs fresh memory: with a stale `is_wait` in a reused PCB the end
  of a sibling can wake the parent. It is about parents that are blocked; a
  waitpid for a child that is itself blocked returns at once
  (sys/syscall.c:168), which no property forbids. `ProcShowsAll` does not forbid
  the wrong entry either: it bounds the damage, to one entry for each process
  gone whose pid reads differently backwards. `KernelMap` shows with
  `FreshFirst` that PCBs are fresh until all of memory has been handed out once.
- `Scheduler_live`: 2 processes, reused memory, with fairness: `NoStarvation`.
- `Clock`: one sleeper, sleeps of up to 2 seconds, 1100 ticks, which is a minute
  and its carry: `ClockExact`, `SleepExact`, `SleepEnds`. The carries into hours
  and days are left to the proofs, which cover any number of ticks. Sleeps begin
  in the first 40 ticks (`MaxStart`), two seconds with every offset, so that the
  ticks behind them suffice for every sleep to end or to have missed its tick.
- `KernelMap`: 13 frames (one holds the list), tables of 4 entries, 2 or 3
  pages below the free memory, requests of 1 or 2 pages: up to five tables, some
  of them taken at boot and behind it, crossings into the next table at every
  offset, drains, second laps, double frees and refusals all happen. Checks
  `HeadsAgree`, `FramesConserved`, `FreshFirst`, the refinement
  `ImplementsQueue`, and `KTypeOK` and `DirectMapComplete`. The latter ends
  with the last fresh page: that page, and those granted again on the second
  lap below it, are returned unmapped (sys/virtualmem.c:213), and no property
  holds of them.
- `CopyOnWrite`: 3 processes, 2 values, stores to the heap, the page behind it
  and the data; 61 frames and 3 copies or loads, enough for two forks with
  copies on both sides, a fork of a fork, and exec before and after. The frame
  of the data address is 56. Boot, a fork and an exec take the frames up to 54;
  then a copy takes 55 for the page and 56 for the kernel's temporary, a copy
  behind a new table for data takes 56 for the page, a second fork takes both
  for the kernel, and while nothing comes 56 is free. All of these happen. The
  stack is a second heap to this code and is loaded, shared and compared, but
  not stored to. Checks `WritableIsExclusive`, `ForeignFrames`, `FaultResolves`
  and the refinement `ImplementsPrivateMemory`. `ForeignFrames` lists the five
  pages that may show a frame nobody got for them (two beside heap and stack,
  one below the stack, two of the data) and which frame each shows. Symmetry:
  the processes created by fork.
- `FileSystem`: 2 archives (a file before the header of its directory; an empty
  directory and one without a header), 2 processes, 5 slots, two of them behind
  the standard ones, 5 calls: the table fills up, streams and files take each
  other's slots, unlinks fall between opendir and readdir. Checks
  `LookupExact`, `TableExact`, `OverrunBounded`, `ReaddirComplete`. Symmetry: the
  processes.
- `Heap`: 10 units, requests of 0, 16 and 17 bytes (1, 2 and 3 units): room for
  three free blocks with blocks in use between them, exact fits and splits at
  every place of the list, merges below, above and on both sides, both leaks.
  Checks `OverlapHasTwoCauses`, `FreeListAscends`, `LossesAreFinal`.
- `Terminal_line`: a buffer of 2 bytes and 5 keys of every kind, so that it is
  filled, discarded and used again, or read twice; the bytes below it are 0
  from some place on. Checks `LineIntact`, `ReadsWholeText`, `OnlyErasedBelow`
  and the liveness property `LineIsTaken`.

Runs that show a disagreement between the code and what its comments or
messages say (details under "findings" in PROJECT.json):

- `Scheduler_exit`: with the timer masked a process that ends keeps the CPU.
- `Scheduler_lost`: a waiter is cut off `blockedlist` and no longer found
  (needs 4 processes).
- `Scheduler_ended`: waitpid for a child that has ended blocks for ever.
- `Terminal_keys`: a key pressed while a line is being taken is lost.

`CHECK_DEADLOCK FALSE` is set for the heap only, which the model leaves after
its first overlap or failed request.

Fairness (`Scheduler!Fairness`): the timer interrupt is weakly fair, because
the hardware raises it again as long as it is enabled and acknowledged; kernel
threads and the tail of a system call are weakly fair, because a thread that
has the CPU executes. Nothing is assumed of user programs or the keyboard.
`NoStarvation` excludes one case, a timer tick lost during boot: when the first
run of a thread follows a tick, nobody acknowledges it until the next system
call, and a thread that ends before that spins with the timer blocked.
`PicStuckOnlyAtBoot` says that this is the only such case. `Clock` assumes that
ticks keep coming and that a sleeper polls again and again, which is what
`NoStarvation` gives it; in which ticks it polls is left open. `Terminal` assumes
weak fairness of the reader, which has the CPU; keys need not come.

## Proofs

`SchedulerProofs` proves for every base and every number of processes whose pids
have two digits in it (the buffers for names of `/proc` entries hold two; in base
10 that is 99 processes), every slice, either state of the
timer line and every content of reused memory:

- `TypeCorrect`, `ListsStaySound`, `CpuIsOwned`, `BlockedWait` (invariants) and
  `GoneStaysGone` (an action property);
- `Inductive`: they follow from `IInv`, the conjunction of `TypeOK`,
  `SoundLists`, `BootOrder`, `CpuOwner` and `Waiters`.

Why the strengthening is needed: that fork inserts a PCB which is not yet
listed follows from "only pids handed out are listed", which for process 1, the
idle thread and fun1 depends on how far the boot code has got (`BootOrder`).
That kill never unlinks the running thread, and that the thread which ends is
the running one, needs that a thread in user code has a pid (`UserHasPid`, from
`BootOrder`) and that the running thread is listed (`CpuOwner`). That a zombie
is never scheduled needs the equivalence of state ZOMBIE with the place
"completed" for everyone but mainthread (`CpuOwner`). That nobody blocks on
itself needs that parents are older than children (`Waiters`). One lemma per
action shows that the action preserves the invariant; `ScheduleKeepsOwner` and
`ScheduleInv` do it once for all calls of `schedule()`.

`ClockProofs` proves `TypeCorrect`, `ClockNeverDrifts` (with the inductive
`WholeDays`: `tcount` is a whole number of days plus the displayed ticks),
`SleepIsExact` (with `SleepLoop`: the last tick counted from is the start plus
18 ticks per second counted) and `MissedForEver` (once a sleeper has missed its
tick it has for ever, which is the second half of `SleepEnds`), for any set of
sleepers and any bounds.

Further theorems of `SchedulerProofs` add to `IInv` what the system calls rely
on:

- `TimerStopsOnlyAtBoot` follows from `PicReady`: a process suspended inside a
  system call acknowledges the PIC when it is resumed, and a running one has no
  interrupt in service, process 1 before its first fork excepted.
- `LinksHold`, `WaitIsSound` and `ExitWakes` follow from `WaitLinks`: a blocked
  parent and the child it waits for point to each other, and a mark `is_wait`
  on a child that still runs means that its parent, if listed, is blocked on
  that very child. fork does not set `is_wait`, so this needs that no page for
  a PCB holds the value 1 there (`1 \notin StaleWords`, a hypothesis of the three
  theorems); `FreshFramesFirst` below gives it for the first lap of the
  allocator. Without it `WaitSound` is false.
- `ProcIsComplete` follows from `ProcNames` (every entry is a pid handed out, so
  a new one is not there yet) and a count: a kill takes one entry away, and when
  it is another process's, the victim joins the processes gone whose pid reads
  differently backwards.
- `SlicesWithinBudget` follows from what each step does to the sum of the slices
  of the processes that have not ended, and needs no proviso on reused memory.
  `ListLemmas` shows that the sum over a finite set exists, that any element can
  be taken out of it first, and that it is monotone. fork halves a slice between
  parent and child. A process that ends hands its slice to at most one process
  that has not ended, an older one, and to nobody twice, although
  `thread_on_completion` re-reads a PCB it has paid; what fun1 hands back
  reaches no process, since its `ppid` stays 0. Process 1 starts with the whole
  budget when no other process exists.

`PageAllocatorProofs` proves, for any number of frames above two, about
`PageAllocator`'s own specification what the run checks in the composition with
`KernelMap`: `HeadsAlwaysAgree`, `NoFrameIsLost`, `FreshFramesFirst` and the
refinement `ListIsQueue`. The list surgery is proved on a sequence of nodes
without duplicates that the links describe (`Linked`); one lemma shows that
granting a frame rotates this sequence, another that freeing one fills the next
slot. The invariant adds to `TypeOK` and `FramesConserved`: the chain and where
the three heads are on it (`Listed`), that nothing is held before paging is on
(`Boot`), the number of slots, counted against the frames of the first page
tables (`Owners`), and that the frames never granted are in front of the queue
in ascending order (`Fresh`). A list of one node would be lost when that node is
granted; three frames leave two nodes after the frame that holds the list.

`CopyOnWriteProofs` proves `WritersAreAlone`, `ForeignFramesAreNamed`,
`FaultsAreSettled` and the refinement `MemoryIsPrivate` for any set of
processes, any number of frames, loads and copies, with and without CR0.WP.
`WritableIsExclusive` is not inductive alone. Frames must be known to be taken
once, the ones beside heap and stack to belong to the kernel, and processes with
the same stack frame to descend from one load by fork, with all COW bits set
since (`Blocks`); a frame in a table must be traced to where it came from
(`Origins`); W bits must be below writable tables, and where no COW bit is set
everything present is writable (`Guards`); and one frame must never serve as two
different pages (`Kinds`). The frames of the data address are in none of these
orders: any page of any process may be given one of them, so every part excepts
pages that show one because of the data address (`Stray`), and nothing else. For
the refinement every step is mapped: a fork to Fork, a copy or a mapping to a
change of ownership that alters nothing that is read (Separate), a store to a
store of the owner, of the kernel or a stray one, exec to Exec.

`FileSystemProofs` proves `TypeCorrect`, `TableIsExact`, `OverrunIsBounded` and
`ListingsAreComplete` for any archive, any set of processes, more than three
slots, and any requests and number of calls. The path walk of `load_tarfs` and
`find_file` are recursive functions; that they exist, and that the invariant of
a loop holds at its end, is proved once for all loops given as a function of the
turns (`LoopRuns`). With it
`WalkKeeps` shows that every header leaves a tree in which entries refer to
nodes, and `FindFileTyped` that a search ends in a node or NULL. The invariant
says further that no call comes before the archive is loaded (`Loading`), that
only files are read and how far (`Offsets`), that a stream with entries has its
descriptor and misses only what was unlinked (`Entries`), and whose slot is
whose (`Exact`, stated pairwise; the count of `TableExact` follows).

`LookupIsExact` rests on a second invariant, `Mirrors`, which relates the tree to
the archive. Every node can be given a path of its own, the one its entries lead
along (`Located`); the headers loaded so far are all there, but for the files
unlinked (`Complete`); nothing unlinked is there (`Without`); and until a name was
unlinked that is not there, `num_sub_files` counts all files (`Counted`). Then
`find_file`, which is a search over the rows of these lists, finds a node only
at the path asked for (`FindSound`) and finds what is there (`FindComplete`).
`load_tarfs` keeps the invariant component by component: a directory it creates
has a new path, because every directory but the root is an entry of another and
the walk has just found none of that name; a file has one because its header is
the only one with that path. `sys_unlink` takes out exactly the entry of its
path, or, when there is none, lowers the count. This is where
`HeadersAssumption` is used.

`HeapProofs` proves `TypeCorrect`, `ListAscends`, `OverlapsAreTwo` and
`LossesStay` for a heap of any size and any sizes asked for. The invariant:
links lead upwards (`Ascends`), so that the recursive walk of the free list
exists and ends; free blocks lie within the heap (`InHeap`); as long as the heap
is sound, free and live blocks are apart and live blocks keep their size in
their header (`Sound`); and what the two fatal steps leave, namely a live block
that is also the head of the list, or two free blocks that overlap (`Overlaps`),
which gives the other direction of the equivalence. The surgery is proved on the
set of free blocks, which is the only set that the links connect as a list:
cutting a block off a larger one, taking one out, growing one, merging two and
linking a new one are lemmas about that set, and every branch of `do_malloc` and
`do_free` is a case of them.

`TerminalProofs` proves `TypeCorrect`, `LineStaysIntact`, `ReadsAreWhole` and
`OnlyZerosBelow` for a buffer of any size, any number of keys, any keyboard and any
sizes asked for. The invariant: the pointer is within what the keys so far can
reach, and all bytes behind are zero, so that the count of the reader ends
(`Reach`); the buffer is the text (`Intact`); a reader about to take a line has
counted all of it (`Counted`); what is left while the buffer is being reset
(`Reset`); and the pointer lies below the buffer only when `size` is negative,
which makes `kscanf` write nothing (`Below`). `Counted` is what interleaving
could break: a key between count and test can complete the condition the test
looks for only by putting the newline where the counted line ends.

Assumptions: the named ASSUMEs on the constants, which every run of the module
evaluates, and the hypothesis on `StaleWords` named above.

Model-checked only:

- liveness (`NoStarvation`, `ExitYields`, `LineIsTaken`, `SleepEnds`), which is
  outside the prover's reach;
- `KTypeOK` and `DirectMapComplete` of `KernelMap`: `map_address` and the
  request for a new table call each other, which is modelled by a recursive
  operator, and the prover has no arithmetic in a module that uses one.

## Plan

Everything in the inventory that keeps state and follows a protocol is
modelled, and every invariant and safety action property of the runs is proved,
except the two of `KernelMap`. To prove those, the recursion of `map_address` has
to be stated as a recursive function of the entries still to map. Liveness stays
with TLC.

## Not modelled

- C library and user programs, the shell included: the models let a process
  make any call the kernel offers in any order.
- GDT, TSS and `init_idt`: set once at boot. Console output: formatting only.
- PCI and AHCI: dead code, `checkbus()` is commented out (sys/main.c:66).
- Bytes: the contents of ELF files (the copy loop of `loadelf` also scales its
  source offset by the size of the ELF header, sys/tarfs.c:103), the arguments
  and the environment of execvpe, names too long for their buffers.
- `/dev` and `write`, which print; the working directory; kill with pid 0; pids of
  three digits, which overrun the buffers for their names; two readers of the
  terminal at once; what `closedir` wipes behind a stream's block.
