----------------------------- MODULE Scheduler -----------------------------
(***************************************************************************)
(* The process table and the scheduler of the kernel: the two PCB lists    *)
(* threadlist and blockedlist, schedule(), the timer interrupt with its    *)
(* time slices, and the system calls that create, block, end and remove    *)
(* processes.  One CPU: exactly one thread, currentthread, takes steps.    *)
(*                                                                         *)
(* A system call body runs with interrupts off (idt.c:239) and is one      *)
(* atomic action together with the schedule() that ends interrupt_syscall; *)
(* the places where a call waits with interrupts on (fd 0, sys_sleep) or   *)
(* calls schedule() itself (sys_waitpid) split it into two actions.        *)
(***************************************************************************)
EXTENDS Integers, Sequences, SequencesExt, FiniteSetsExt, Functions

CONSTANTS
  MaxProc,      \* bound: the largest pid handed out
  Radix,        \* of the numerals in the names of /proc: 10 in the code
  MAXSLICE,     \* clock ticks in the slice of the first process
  TimerLine,    \* is IRQ0 open in the mask of the interrupt controller?
  StaleWords    \* what a word of a new, uncleared PCB page may hold

ASSUME MaxProcAssumption == MaxProc \in Nat \ {0}
ASSUME NamesAssumption == Radix \in Nat \ {0, 1} /\ MaxProc < Radix * Radix
ASSUME SliceAssumption == MAXSLICE \in Nat
ASSUME TimerLineAssumption == TimerLine \in BOOLEAN
ASSUME StaleAssumption == StaleWords \subseteq Int /\ StaleWords # {}

VARIABLES
  threadlist,     \* sequence of PCBs, head first
  blockedlist,    \* sequence of PCBs blocked in waitpid, newest first
  currentthread,
  state,          \* PCB field, per thread
  is_wait,        \* PCB field: the parent is waiting for this one
  ppid,           \* PCB field
  totalslice,     \* PCB field
  elapsed,        \* PCB field
  processcount,   \* pids handed out so far
  procdir,        \* entries of /proc, in order, named by pid
  pc,             \* where in its code each thread is
  waitfor,        \* argument of the waitpid a thread is in
  eoi,            \* resuming this thread ends in an acknowledge of the PIC
  isr             \* IRQ0 is in service: raised and not acknowledged

lists == <<threadlist, blockedlist>>
pcb == <<state, is_wait, ppid, totalslice, elapsed>>
pic == <<eoi, isr>>
vars == <<threadlist, blockedlist, currentthread, state, is_wait, ppid,
          totalslice, elapsed, processcount, procdir, pc, waitfor, eoi, isr>>

-----------------------------------------------------------------------------
(* Threads.  The kernel threads have no process number; user_process runs  *)
(* on the thread that becomes process 1, and every later process is known  *)
(* by the pid that copy_process gives it.                                  *)

MAIN == -3
FUN1 == -2
IDLE == -1
Procs == 1..MaxProc
Threads == {MAIN, FUN1, IDLE} \cup Procs

RUNNING == "RUNNING"
SLEEPING == "SLEEPING"
ZOMBIE == "ZOMBIE"
BLOCKED == "BLOCKED"
States == {RUNNING, SLEEPING, ZOMBIE, BLOCKED}

(* The places a thread can be suspended or interrupted in.                 *)
Places == {"context_switch", "main_schedule", "main_loop",
           "fun1", "fun1_user", "fun1_schedule", "fun1_return",
           "idle_func", "user_process", "user",
           "waitpid_return", "read", "sleep", "confirm", "completed"}

(* The pid field: assigned from processcount when the process is made;     *)
(* before that, and in kernel threads, the zero of an untouched page.      *)
Pid(t) == IF t > 0 /\ t <= processcount THEN t ELSE 0

(* The name of a /proc entry: the digits of a pid (the buffers of          *)
(* add_to_proc_list hold two).                                             *)
Digits(n) == IF n < Radix THEN <<n>> ELSE <<n \div Radix, n % Radix>>

-----------------------------------------------------------------------------
(* schedule()                                                              *)

(* Faulty: every search starts at the head of the list.                    *)
NextFromHead(tl, st, me) ==
  LET ready == {i \in DOMAIN tl : st[tl[i]] = SLEEPING}
  IN  IF ready # {} THEN tl[Min(ready)] ELSE MAIN

(* The thread schedule() picks: the first SLEEPING one behind me, else the *)
(* first SLEEPING one of the list, else mainthread.  A BLOCKED caller has  *)
(* no place in the list and starts from the head.                          *)
NextThread(tl, st, me) ==
  LET ready == {i \in DOMAIN tl : st[tl[i]] = SLEEPING}
      later == {i \in ready : \E j \in 1..(i - 1) :
                                 tl[j] = me /\ st[me] # BLOCKED}
  IN  IF later # {} THEN tl[Min(later)]
      ELSE IF ready # {} THEN tl[Min(ready)] ELSE MAIN

(* Faulty: the outgoing thread is not touched.                             *)
OutgoingUntouched(st, me) == st[me]

(* Faulty: the test for ZOMBIE is missing.                                 *)
OutgoingSleeps(st, me) == IF me = MAIN THEN ZOMBIE ELSE SLEEPING

(* The state the outgoing thread is left in.                               *)
Outgoing(st, me) ==
  IF me = MAIN \/ st[me] = ZOMBIE THEN ZOMBIE ELSE SLEEPING

(* schedule() and switch_to(): hand the CPU to the next thread.  ack says  *)
(* whether the caller will acknowledge the PIC once it is resumed, svc     *)
(* whether IRQ0 is in service now.                                         *)
Schedule(tl, st, ack, svc) ==
  LET me == currentthread
      next == NextThread(tl, st, me)
  IN  /\ state' = [[st EXCEPT ![me] = Outgoing(st, me)]
                       EXCEPT ![next] = RUNNING]
      /\ currentthread' = next
      /\ eoi' = [eoi EXCEPT ![me] = ack]
      /\ isr' = (svc /\ ~eoi'[next])

(* Faulty: interrupt_syscall returns without an EOI.                       *)
ReturnWithoutEoi(tl) ==
  /\ pc' = [pc EXCEPT ![currentthread] = "user"]
  /\ Schedule(tl, state, FALSE, isr)

(* The end of interrupt_syscall: schedule(), and on resumption the EOI and *)
(* the return to user mode.                                                *)
ReturnToUser(tl) ==
  /\ pc' = [pc EXCEPT ![currentthread] = "user"]
  /\ Schedule(tl, state, TRUE, isr)

At(place) == pc[currentthread] = place

-----------------------------------------------------------------------------
(* Booting: mainthread, fun1, the idle thread and the first process.       *)

create_thread(t) ==
  /\ threadlist' = Append(threadlist, t)
  /\ state' = [state EXCEPT ![t] = SLEEPING]
  /\ totalslice' = [totalslice EXCEPT ![t] = 1]

Init ==
  /\ threadlist = <<MAIN>>
  /\ blockedlist = <<>>
  /\ currentthread = MAIN
  /\ state = [t \in Threads |-> IF t = MAIN THEN RUNNING ELSE SLEEPING]
  /\ is_wait = [t \in Threads |-> 0]
  /\ ppid = [t \in Threads |-> 0]
  /\ totalslice = [t \in Threads |-> IF t = MAIN THEN 1 ELSE 0]
  /\ elapsed = [t \in Threads |-> 0]
  /\ processcount = 0
  /\ procdir = <<>>
  /\ pc = [t \in Threads |-> CASE t = MAIN -> "context_switch"
                               [] t = FUN1 -> "fun1"
                               [] t = IDLE -> "idle_func"
                               [] t = 1 -> "user_process"
                               [] OTHER -> "waitpid_return"]
  /\ waitfor = [t \in Threads |-> 0]
  /\ eoi = [t \in Threads |-> FALSE]
  /\ isr = FALSE

(* A kernel thread makes thread t and goes on to the given place.          *)
Create(from, t, to) ==
  /\ At(from)
  /\ create_thread(t)
  /\ pc' = [pc EXCEPT ![currentthread] = to]
  /\ UNCHANGED <<blockedlist, currentthread, is_wait, ppid, elapsed,
                 processcount, procdir, waitfor, pic>>

(* A kernel thread calls schedule() and goes on to the given place once it *)
(* is resumed; nobody acknowledges the PIC on the way back.                *)
CallSchedule(from, to) ==
  /\ At(from)
  /\ pc' = [pc EXCEPT ![currentthread] = to]
  /\ Schedule(threadlist, state, FALSE, isr)
  /\ UNCHANGED <<lists, is_wait, ppid, totalslice, elapsed, processcount,
                 procdir, waitfor>>

ContextSwitch == \/ Create("context_switch", FUN1, "main_schedule")
                 \/ CallSchedule("main_schedule", "main_loop")

Fun1 == \/ Create("fun1", IDLE, "fun1_user")
        \/ Create("fun1_user", 1, "fun1_schedule")
        \/ CallSchedule("fun1_schedule", "fun1_return")

IdleFunc == CallSchedule("idle_func", "idle_func")

(* user_process(): the running thread becomes process 1 and enters ring 3. *)
UserProcess ==
  /\ At("user_process")
  /\ processcount' = 1
  /\ ppid' = [ppid EXCEPT ![currentthread] = 0]
  /\ totalslice' = [totalslice EXCEPT ![currentthread] = MAXSLICE]
  /\ procdir' = Append(procdir, 1)
  /\ pc' = [pc EXCEPT ![currentthread] = "user"]
  /\ UNCHANGED <<lists, currentthread, state, is_wait, elapsed, waitfor, pic>>

-----------------------------------------------------------------------------
(* Interrupts                                                              *)

(* interrupt0: charge the tick to the running thread and reschedule when   *)
(* its slice is used up.  The acknowledge comes after schedule(), in       *)
(* whatever the next thread was doing.                                     *)
TimerInterrupt ==
  LET me == currentthread
      ticks == elapsed[me] + 1
  IN  /\ TimerLine
      /\ ~isr
      /\ \/ /\ ticks >= totalslice[me]
            /\ elapsed' = [elapsed EXCEPT ![me] = 0]
            /\ Schedule(threadlist, state, TRUE, TRUE)
         \/ /\ ticks < totalslice[me]
            /\ elapsed' = [elapsed EXCEPT ![me] = ticks]
            /\ UNCHANGED <<currentthread, state, pic>>
      /\ UNCHANGED <<lists, is_wait, ppid, totalslice, processcount, procdir,
                     pc, waitfor>>

(* interrupt4: a page fault that is resolved changes no process state, but *)
(* its handler acknowledges the PIC on the way out.                        *)
PageFault ==
  /\ At("user")
  /\ isr
  /\ isr' = FALSE
  /\ UNCHANGED <<lists, currentthread, pcb, processcount, procdir, pc,
                 waitfor, eoi>>

-----------------------------------------------------------------------------
(* thread_on_completion(): the end of a process                            *)

(* Faulty: the slice is taken from the parent.                             *)
TakeSlice(me) ==
  [t \in Threads |-> IF Pid(t) = ppid[me] /\ t # me
                     THEN totalslice[t] - totalslice[me] ELSE totalslice[t]]

(* The slice of the finished thread me goes to every listed PCB whose pid  *)
(* is me's ppid.  The amount is re-read from me's PCB each time, so once a *)
(* thread without pid has paid itself, those behind it get the double.     *)
GiveBackSlice(me) ==
  LET order == threadlist \o blockedlist
      heir(t) == Pid(t) = ppid[me]
      paid(i) == heir(me) /\ \E j \in 1..(i - 1) : order[j] = me
      gain(i) == IF paid(i) THEN 2 * totalslice[me] ELSE totalslice[me]
  IN  [t \in Threads |->
         IF heir(t) /\ Contains(order, t)
         THEN totalslice[t] + gain(SelectInSeq(order, LAMBDA u : u = t))
         ELSE totalslice[t]]

(* Faulty: any child that ends wakes its parent.                           *)
WakeAlways(me, st) ==
  IF ppid[me] = 0 THEN 0 ELSE SelectInSeq(threadlist, LAMBDA t : t = me)

(* Faulty: no wake-up while there is another child.                        *)
WakeOnlyLastChild(me, st) ==
  IF \/ ppid[me] = 0
     \/ is_wait[me] # 1
     \/ \E t \in Range(threadlist) :
          st[t] # ZOMBIE /\ t # me /\ ppid[t] = ppid[me]
  THEN 0 ELSE SelectInSeq(threadlist, LAMBDA t : t = me)

(* Where in threadlist a waiting parent of me is put back: behind me, or   *)
(* behind a live sibling nobody waits for; 0 when the parent stays.        *)
WakePosition(me, st) ==
  LET sibling == SelectInSeq(threadlist, LAMBDA t :
                   st[t] # ZOMBIE /\ t # me /\ ppid[t] = ppid[me])
      own == SelectInSeq(threadlist, LAMBDA t : t = me)
  IN  IF ppid[me] = 0 \/ is_wait[me] # 1 THEN 0
      ELSE IF sibling = 0 THEN own
      ELSE IF is_wait[threadlist[sibling]] # 1 THEN sibling ELSE 0

(* Faulty: the new blockedlist starts with the parent itself.              *)
DropBefore(s, b) == SubSeq(s, b, Len(s))

(* The new blockedlist starts behind the parent that was found at b.       *)
DropThrough(s, b) == SubSeq(s, b + 1, Len(s))

thread_on_completion ==
  LET me == currentthread
      st == [state EXCEPT ![me] = ZOMBIE]
      at == WakePosition(me, st)
      b == SelectInSeq(blockedlist, LAMBDA t : Pid(t) = ppid[me])
  IN  /\ state' = st
      /\ totalslice' = GiveBackSlice(me)
      /\ \/ /\ at # 0
            /\ b # 0
            /\ threadlist' = InsertAt(threadlist, at + 1, blockedlist[b])
            /\ blockedlist' = DropThrough(blockedlist, b)
         \/ /\ at = 0 \/ b = 0
            /\ UNCHANGED lists
      /\ pc' = [pc EXCEPT ![me] = "completed"]
      /\ UNCHANGED <<currentthread, is_wait, ppid, elapsed, processcount,
                     procdir, waitfor, pic>>

(* fun1 returns into thread_on_completion; a process gets there by         *)
(* sys_exit, by a fatal exception, or by killing itself.                   *)
Exit == (At("user") \/ At("fun1_return")) /\ thread_on_completion

(* The loops of start(), thread_on_completion and sys_sleep, which only an *)
(* interrupt gets the CPU out of.                                          *)
Spin ==
  (At("main_loop") \/ At("completed") \/ At("sleep")) /\ UNCHANGED vars

-----------------------------------------------------------------------------
(* System calls                                                            *)

(* Faulty: the parent keeps its whole slice.                               *)
HalveChildOnly(ts, me, child) == [ts EXCEPT ![child] = ts[me] \div 2]

(* copy_process: parent and child get half of the parent's slice each.     *)
HalveSlice(ts, me, child) ==
  [ts EXCEPT ![me] = ts[me] \div 2, ![child] = ts[me] \div 2]

(* sys_fork: the child is linked in right behind its parent, and starts in *)
(* the tail of the system call.  copy_process leaves is_wait and elapsed   *)
(* of the new PCB as it finds them.                                        *)
sys_fork ==
  LET me == currentthread
      child == processcount + 1
      at == SelectInSeq(threadlist, LAMBDA t : t = me)
      tl == InsertAt(threadlist, at + 1, child)
  IN  /\ At("user")
      /\ child <= MaxProc
      /\ processcount' = child
      /\ threadlist' = tl
      /\ ppid' = [ppid EXCEPT ![child] = Pid(me)]
      /\ totalslice' = HalveSlice(totalslice, me, child)
      /\ \E w \in StaleWords : is_wait' = [is_wait EXCEPT ![child] = w]
      /\ \E w \in StaleWords : elapsed' = [elapsed EXCEPT ![child] = w]
      /\ procdir' = Append(procdir, child)
      /\ ReturnToUser(tl)
      /\ UNCHANGED <<blockedlist, waitfor>>

(* sys_waitpid(p): mark the child, move the caller from threadlist to the  *)
(* front of blockedlist, schedule().  With no such child on threadlist the *)
(* caller only gives up the CPU.                                           *)
sys_waitpid(p) ==
  LET me == currentthread
      found == ppid[p] = Pid(me) /\ Contains(threadlist, p)
      tl == RemoveFirst(threadlist, me)
      st == [state EXCEPT ![me] = BLOCKED]
  IN  /\ At("user")
      /\ p <= processcount
      /\ waitfor' = [waitfor EXCEPT ![me] = p]
      /\ pc' = [pc EXCEPT ![me] = "waitpid_return"]
      /\ \/ /\ found
            /\ is_wait' = [is_wait EXCEPT ![p] = 1]
            /\ threadlist' = tl
            /\ blockedlist' = <<me>> \o blockedlist
            /\ Schedule(tl, st, FALSE, isr)
         \/ /\ ~found
            /\ Schedule(threadlist, st, FALSE, isr)
            /\ UNCHANGED <<lists, is_wait>>
      /\ UNCHANGED <<ppid, totalslice, elapsed, processcount, procdir>>

(* The tail of interrupt_syscall, for a caller resumed inside sys_waitpid  *)
(* and for a child on its first run.                                       *)
WaitpidReturn ==
  /\ At("waitpid_return")
  /\ waitfor' = [waitfor EXCEPT ![currentthread] = 0]
  /\ ReturnToUser(threadlist)
  /\ UNCHANGED <<lists, is_wait, ppid, totalslice, elapsed, processcount,
                 procdir>>

(* A call that changes no process: getpid, write, open, malloc, chdir...   *)
OtherSyscall ==
  /\ At("user")
  /\ ReturnToUser(threadlist)
  /\ UNCHANGED <<lists, is_wait, ppid, totalslice, elapsed, processcount,
                 procdir, waitfor>>

(* sys_execvpe does not return: it enters ring 3 from do_execvpe, with no  *)
(* call of schedule() and no acknowledge on the way.                       *)
sys_execvpe == At("user") /\ UNCHANGED vars

(* The calls that wait in a loop with interrupts on.                       *)
StartSpin(place) ==
  /\ At("user")
  /\ pc' = [pc EXCEPT ![currentthread] = place]
  /\ UNCHANGED <<lists, currentthread, pcb, processcount, procdir, waitfor,
                 pic>>

EndSpin(place) ==
  /\ At(place)
  /\ ReturnToUser(threadlist)
  /\ UNCHANGED <<lists, is_wait, ppid, totalslice, elapsed, processcount,
                 procdir, waitfor>>

sys_read == StartSpin("read") \/ EndSpin("read")
sys_sleep == StartSpin("sleep") \/ (TimerLine /\ EndSpin("sleep"))

(* Faulty: the last entry goes, whatever its name.                         *)
RemoveLastEntry(p) == Front(procdir)

(* The /proc entry sys_kill takes away: the one named by the digits of p   *)
(* in reverse order; the last one when there is none of that name.         *)
RemoveProcEntry(p) ==
  LET i == SelectInSeq(procdir, LAMBDA e : Digits(e) = Reverse(Digits(p)))
  IN  IF i # 0 THEN RemoveAt(procdir, i) ELSE Front(procdir)

(* Signal 9 to p: a victim is only unlinked from its list and from /proc.  *)
Terminate(p) ==
  \/ /\ p = Pid(currentthread)
     /\ thread_on_completion
  \/ /\ p # Pid(currentthread)
     /\ \/ /\ Contains(threadlist, p)
           /\ threadlist' = RemoveFirst(threadlist, p)
           /\ procdir' = RemoveProcEntry(p)
           /\ UNCHANGED blockedlist
        \/ /\ Contains(blockedlist, p)
           /\ blockedlist' = RemoveFirst(blockedlist, p)
           /\ procdir' = RemoveProcEntry(p)
           /\ UNCHANGED threadlist
        \/ /\ ~Contains(threadlist, p) /\ ~Contains(blockedlist, p)
           /\ UNCHANGED <<lists, procdir>>
     /\ ReturnToUser(threadlist')
     /\ UNCHANGED <<is_wait, ppid, totalslice, elapsed, processcount, waitfor>>

(* sys_kill(p, 9): process 2, the shell, is only killed after a            *)
(* confirmation read from the keyboard.                                    *)
sys_kill(p) ==
  /\ p <= processcount
  /\ \/ At("user") /\ p # 2 /\ Terminate(p)
     \/ p = 2 /\ StartSpin("confirm")
     \/ p = 2 /\ At("confirm") /\ Terminate(p)
     \/ p = 2 /\ EndSpin("confirm")

-----------------------------------------------------------------------------
Kernel == ContextSwitch \/ Fun1 \/ IdleFunc \/ UserProcess \/ WaitpidReturn
            \/ (At("fun1_return") /\ thread_on_completion)

Next ==
  \/ ContextSwitch
  \/ Fun1
  \/ IdleFunc
  \/ UserProcess
  \/ TimerInterrupt
  \/ PageFault
  \/ Exit
  \/ Spin
  \/ sys_fork
  \/ \E p \in Procs : sys_waitpid(p)
  \/ WaitpidReturn
  \/ OtherSyscall
  \/ sys_execvpe
  \/ sys_read
  \/ sys_sleep
  \/ \E p \in Procs : sys_kill(p)

Spec == Init /\ [][Next]_vars

(* The hardware keeps raising the timer line, and a kernel thread or the   *)
(* tail of a system call that has the CPU goes on; nothing is assumed of   *)
(* user programs or of the keyboard.                                       *)
Fairness == WF_vars(TimerInterrupt) /\ WF_vars(Kernel)

FairSpec == Spec /\ Fairness

-----------------------------------------------------------------------------
(* Properties                                                              *)

(* Type correctness of the PCB fields, the lists and the PIC bits.         *)
TypeOK ==
  /\ threadlist \in Seq(Threads)
  /\ blockedlist \in Seq(Threads)
  /\ currentthread \in Threads
  /\ state \in [Threads -> States]
  /\ is_wait \in [Threads -> Int]
  /\ ppid \in [Threads -> 0..MaxProc]
  /\ totalslice \in [Threads -> Nat]
  /\ elapsed \in [Threads -> Int]
  /\ processcount \in 0..MaxProc
  /\ procdir \in Seq(Procs)
  /\ pc \in [Threads -> Places]
  /\ waitfor \in [Threads -> 0..MaxProc]
  /\ eoi \in [Threads -> BOOLEAN]
  /\ isr \in BOOLEAN

(* The links the code rewrites by hand never put a PCB on a list twice or  *)
(* on both lists, and mainthread, which schedule() falls back on and which *)
(* every removal loop relies on as a predecessor, stays the head.          *)
ListsWellFormed ==
  /\ IsInjective(threadlist \o blockedlist)
  /\ threadlist # <<>> /\ Head(threadlist) = MAIN

(* The thread that has the CPU is on threadlist and is the only listed one *)
(* in state RUNNING; it stops being RUNNING only in the final loop of      *)
(* thread_on_completion.  No state BLOCKED outlives the call of schedule() *)
(* in sys_waitpid.  thread_on_completion and user_process find the current *)
(* process as the first RUNNING one of threadlist, so they depend on it.   *)
OneRunning ==
  /\ Contains(threadlist, currentthread)
  /\ \A t \in Threads :
       /\ state[t] # BLOCKED
       /\ state[t] = RUNNING <=> (t = currentthread /\ ~At("completed"))

(* Only a caller of sys_waitpid that waits for another process is on       *)
(* blockedlist.                                                            *)
BlockedAreWaiting ==
  \A t \in Range(blockedlist) :
    /\ pc[t] = "waitpid_return"
    /\ waitfor[t] \in 1..processcount \ {t}
    /\ state[t] = SLEEPING

Listed(p) == Contains(threadlist, p) \/ Contains(blockedlist, p)

Live == {p \in 1..processcount : Listed(p) /\ state[p] # ZOMBIE}

(* The slices that copy_process halves and thread_on_completion hands back *)
(* never add up to more than the MAXSLICE ticks process 1 started with.    *)
SliceBudget == SumFunctionOnSet(totalslice, Live) <= MAXSLICE

Unshown == {p \in 1..processcount : Listed(p) /\ p \notin Range(procdir)}

Misread ==
  {p \in 1..processcount : ~Listed(p) /\ Digits(p) # Reverse(Digits(p))}

(* /proc shows no process twice, and it misses no more of the listed ones  *)
(* than there are processes gone whose pid is another one, or none, when   *)
(* read backwards: a sys_kill whose reversed name (10 becomes 01) is the   *)
(* victim's own hits no other entry, any other costs at most one.          *)
ProcShowsAll ==
  /\ IsInjective(procdir)
  /\ Cardinality(Unshown) <= Cardinality(Misread)

(* A thread can loop in thread_on_completion with the timer interrupt left *)
(* unacknowledged, which stops preemption for good, only during boot: it   *)
(* is fun1, or process 1 before its first fork.                             *)
PicStuckOnlyAtBoot ==
  isr /\ At("completed") => currentthread = FUN1 \/ processcount = 1

Gone(p) == p <= processcount /\ (state[p] = ZOMBIE \/ ~Listed(p))

(* A process that has ended, or that was unlinked from the lists, never    *)
(* gets back: not on a list, not out of ZOMBIE, and not onto the CPU.      *)
GoneIsForever ==
  [][\A p \in Procs : Gone(p) =>
        /\ Gone(p)'
        /\ currentthread' = p => currentthread = p]_vars

(* A process blocked in waitpid is put back on threadlist only when the    *)
(* process it waits for has ended.                                         *)
WaitSound ==
  [][\A q \in Range(blockedlist) :
        Contains(threadlist', q) => state'[waitfor[q]] = ZOMBIE]_vars

(* The step in which a process ends puts its parent back on threadlist if  *)
(* the parent is blocked waiting for it.                                   *)
ExitWakesWaiter ==
  [][\A p \in Procs :
        (/\ state[p] # ZOMBIE /\ state'[p] = ZOMBIE
         /\ Contains(blockedlist, ppid[p]) /\ waitfor[ppid[p]] = p)
        => Contains(threadlist', ppid[p])]_vars

(* A process that is ready on threadlist runs again or leaves the list,    *)
(* whatever the others do, unless the timer was lost during boot.          *)
NoStarvation ==
  \A p \in Procs :
    (Contains(threadlist, p) /\ state[p] = SLEEPING)
      ~> \/ currentthread = p
         \/ ~Contains(threadlist, p)
         \/ isr /\ At("completed")

(* Claim of the kernel's messages (idt.c:347): a process that is closed    *)
(* makes room for the others.                                              *)
ExitYields ==
  \A p \in Procs : (currentthread = p /\ At("completed")) ~> currentthread # p

(* Claim behind the message of sys_kill (syscall.c:365): a process that    *)
(* /proc shows is one the kernel can find.                                 *)
ProcEntriesListed == \A p \in Range(procdir) : Listed(p)

(* Claim of sbush.c:8, for a shell that waits for its command: a process   *)
(* is not left blocked on a child that has already ended.                  *)
NoWaitOnEnded ==
  \A q \in Range(blockedlist) : state[waitfor[q]] # ZOMBIE
=============================================================================
