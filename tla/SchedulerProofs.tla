-------------------------- MODULE SchedulerProofs --------------------------
(***************************************************************************)
(* Proofs about the scheduler, for any number of processes, any slice, any *)
(* content of fresh pages, with and without the timer.  First that lists   *)
(* stay sound and one thread owns the CPU; then what the system calls do   *)
(* on top of that: the timer interrupt is acknowledged, a wait ends when   *)
(* the child ends and not before, /proc misses only what kill misread, the *)
(* slices stay within the budget of the first process.                     *)
(***************************************************************************)
EXTENDS Scheduler, ListLemmas

USE MaxProcAssumption, SliceAssumption, TimerLineAssumption, StaleAssumption

-----------------------------------------------------------------------------
(* The operators the actions are built from                                *)

(* What schedule() picks: mainthread or a SLEEPING thread of the list.     *)
LEMMA NextThreadReady ==
  ASSUME NEW tl \in Seq(Threads), NEW st, NEW me
  PROVE  LET next == NextThread(tl, st, me)
         IN  \/ next = MAIN
             \/ next \in Range(tl) /\ st[next] = SLEEPING
<1> DEFINE ready == {i \in DOMAIN tl : st[tl[i]] = SLEEPING}
           later == {i \in ready : \E j \in 1..(i - 1) :
                                      tl[j] = me /\ st[me] # BLOCKED}
<1>1. DOMAIN tl = 1..Len(tl)
  OBVIOUS
<1>2. ready \in SUBSET Nat /\ later \subseteq ready
  BY <1>1
<1>3. ready # {} => Min(ready) \in ready
  BY <1>2, MinOfNat
<1>4. later # {} => Min(later) \in ready
  BY <1>2, MinOfNat
<1>5. \A i \in ready : tl[i] \in Range(tl) /\ st[tl[i]] = SLEEPING
  BY <1>1 DEF Range
<1>6. NextThread(tl, st, me) = IF later # {} THEN tl[Min(later)]
                               ELSE IF ready # {} THEN tl[Min(ready)] ELSE MAIN
  BY DEF NextThread
<1> HIDE DEF ready, later
<1> QED
  BY <1>3, <1>4, <1>5, <1>6

(* What a call of schedule() leaves behind.                                *)
LEMMA ScheduleEffect ==
  ASSUME NEW tl \in Seq(Threads), NEW st \in [Threads -> States],
         NEW ack \in BOOLEAN, NEW svc \in BOOLEAN,
         currentthread \in Threads, eoi \in [Threads -> BOOLEAN],
         Schedule(tl, st, ack, svc)
  PROVE  /\ currentthread' \in Threads
         /\ \/ currentthread' = MAIN
            \/ currentthread' \in Range(tl) /\ st[currentthread'] = SLEEPING
         /\ state' \in [Threads -> States]
         /\ state'[currentthread'] = RUNNING
         /\ \A t \in Threads :
              t # currentthread' =>
                state'[t] = IF t = currentthread THEN Outgoing(st, t) ELSE st[t]
         /\ eoi' \in [Threads -> BOOLEAN]
         /\ isr' \in BOOLEAN
<1> DEFINE next == NextThread(tl, st, currentthread)
<1>1. /\ state' = [[st EXCEPT ![currentthread] = Outgoing(st, currentthread)]
                       EXCEPT ![next] = RUNNING]
      /\ currentthread' = next
      /\ eoi' = [eoi EXCEPT ![currentthread] = ack]
      /\ isr' = (svc /\ ~eoi'[next])
  BY DEF Schedule
<1>2. next = MAIN \/ (next \in Range(tl) /\ st[next] = SLEEPING)
  BY NextThreadReady
<1>3. next \in Threads
  BY <1>2, RangeOfSeq DEF Threads
<1>4. Outgoing(st, currentthread) \in States
  BY DEF Outgoing, States
<1> HIDE DEF next
<1>5. state' \in [Threads -> States] /\ state'[next] = RUNNING
  BY <1>1, <1>3, <1>4 DEF States
<1>6. \A t \in Threads : t # next =>
        state'[t] = IF t = currentthread THEN Outgoing(st, t) ELSE st[t]
  BY <1>1, <1>3, <1>4
<1>7. eoi' \in [Threads -> BOOLEAN]
  BY <1>1
<1>8. isr' \in BOOLEAN
  BY <1>1
<1> QED
  BY <1>1, <1>2, <1>3, <1>5, <1>6, <1>7, <1>8

(* The slices thread_on_completion hands back leave slices that are        *)
(* naturals.                                                               *)
LEMMA GiveBackSliceType ==
  ASSUME NEW me \in Threads, TypeOK
  PROVE  GiveBackSlice(me) \in [Threads -> Nat]
<1> DEFINE order == threadlist \o blockedlist
           paid(i) == Pid(me) = ppid[me] /\ \E j \in 1..(i - 1) : order[j] = me
           gain(i) == IF paid(i) THEN 2 * totalslice[me] ELSE totalslice[me]
           amount(t) == gain(SelectInSeq(order, LAMBDA u : u = t))
<1>1. totalslice \in [Threads -> Nat]
  BY DEF TypeOK
<1>2. \A t \in Threads : amount(t) \in Nat
  <2>1. \A i : gain(i) \in Nat
    BY <1>1
  <2> HIDE DEF gain
  <2> QED BY <2>1, Zenon
<1>3. GiveBackSlice(me) = [t \in Threads |->
         IF Pid(t) = ppid[me] /\ Contains(order, t)
         THEN totalslice[t] + amount(t) ELSE totalslice[t]]
  BY DEF GiveBackSlice
<1> HIDE DEF amount
<1> QED
  BY <1>1, <1>2, <1>3

(* A parent that thread_on_completion wakes goes behind a listed thread.   *)
LEMMA WakePositionRange ==
  ASSUME NEW me \in Threads, NEW st, threadlist \in Seq(Threads)
  PROVE  WakePosition(me, st) \in 0..Len(threadlist)
<1> DEFINE S == {i \in 1..Len(threadlist) :
                  /\ st[threadlist[i]] # ZOMBIE /\ threadlist[i] # me
                  /\ ppid[threadlist[i]] = ppid[me]}
           sibling == IF S # {} THEN Min(S) ELSE 0
           O == {i \in 1..Len(threadlist) : threadlist[i] = me}
           own == IF O # {} THEN Min(O) ELSE 0
<1>1. sibling \in 0..Len(threadlist) /\ own \in 0..Len(threadlist)
  <2>1. Len(threadlist) \in Nat /\ S \in SUBSET (1..Len(threadlist))
           /\ O \in SUBSET (1..Len(threadlist))
    OBVIOUS
  <2> HIDE DEF S, O
  <2> QED BY <2>1, FirstIndex
<1>2. WakePosition(me, st) =
        IF ppid[me] = 0 \/ is_wait[me] # 1 THEN 0
        ELSE IF sibling = 0 THEN own
        ELSE IF is_wait[threadlist[sibling]] # 1 THEN sibling ELSE 0
  BY Zenon DEF WakePosition, SelectInSeq
<1> HIDE DEF sibling, own
<1> QED
  BY <1>1, <1>2

(* The blocked parent that thread_on_completion looks for.                 *)
BlockedParent == SelectInSeq(blockedlist, LAMBDA t : Pid(t) = ppid[currentthread])

(* The parent that thread_on_completion looks for is at a position of      *)
(* blockedlist, or at none.                                                *)
LEMMA BlockedParentRange ==
  ASSUME blockedlist \in Seq(Threads)
  PROVE  BlockedParent \in 0..Len(blockedlist)
<1> DEFINE I == {i \in 1..Len(blockedlist) : Pid(blockedlist[i]) = ppid[currentthread]}
<1>1. BlockedParent = IF I # {} THEN Min(I) ELSE 0
  BY DEF BlockedParent, SelectInSeq
<1>2. Len(blockedlist) \in Nat /\ I \in SUBSET (1..Len(blockedlist))
  OBVIOUS
<1> HIDE DEF I
<1> QED
  BY <1>1, <1>2, FirstIndex

(* Where sys_fork finds the caller in threadlist.                          *)
CurrentPosition == SelectInSeq(threadlist, LAMBDA t : t = currentthread)

(* The position of the running thread, behind which sys_fork links the     *)
(* child.                                                                  *)
LEMMA CurrentPositionRange ==
  ASSUME threadlist \in Seq(Threads)
  PROVE  /\ CurrentPosition \in 0..Len(threadlist)
         /\ currentthread \in Range(threadlist) => CurrentPosition # 0
<1> DEFINE I == {i \in 1..Len(threadlist) : threadlist[i] = currentthread}
<1>1. CurrentPosition = IF I # {} THEN Min(I) ELSE 0
  BY DEF CurrentPosition, SelectInSeq
<1>2. Len(threadlist) \in Nat /\ I \in SUBSET (1..Len(threadlist))
  OBVIOUS
<1>3. currentthread \in Range(threadlist) => I # {}
  BY DEF Range
<1> HIDE DEF I
<1> QED
  BY <1>1, <1>2, <1>3, FirstIndex

(* sys_kill leaves a directory of process entries.                         *)
LEMMA RemoveProcEntryType ==
  ASSUME procdir \in Seq(Procs), NEW p
  PROVE  RemoveProcEntry(p) \in Seq(Procs)
<1> DEFINE I == {i \in 1..Len(procdir) : Digits(procdir[i]) = Reverse(Digits(p))}
           e == IF I # {} THEN Min(I) ELSE 0
<1>1. RemoveProcEntry(p) = IF e # 0 THEN RemoveAt(procdir, e) ELSE Front(procdir)
  BY Zenon DEF RemoveProcEntry, SelectInSeq
<1>2. e \in 0..Len(procdir)
  <2>1. Len(procdir) \in Nat /\ I \in SUBSET (1..Len(procdir))
    OBVIOUS
  <2> HIDE DEF I
  <2> QED BY <2>1, FirstIndex
<1>3. Front(procdir) \in Seq(Procs)
  <2>1. \A i \in 1..(Len(procdir) - 1) : procdir[i] \in Procs
    OBVIOUS
  <2> QED BY <2>1, SubSeqProperties DEF Front
<1> HIDE DEF e
<1> QED
  BY <1>1, <1>2, <1>3, RemoveAtSeq

-----------------------------------------------------------------------------
(* Type correctness                                                        *)

(* The variables a call of schedule() changes keep their types.            *)
LEMMA ScheduleType ==
  ASSUME TypeOK, NEW tl \in Seq(Threads), NEW st \in [Threads -> States],
         NEW ack \in BOOLEAN, NEW svc \in BOOLEAN, Schedule(tl, st, ack, svc)
  PROVE  /\ currentthread' \in Threads /\ state' \in [Threads -> States]
         /\ eoi' \in [Threads -> BOOLEAN] /\ isr' \in BOOLEAN
BY ScheduleEffect DEF TypeOK

(* The end of interrupt_syscall keeps the types of what it changes.        *)
LEMMA ReturnType ==
  ASSUME TypeOK, NEW tl \in Seq(Threads), ReturnToUser(tl)
  PROVE  /\ currentthread' \in Threads /\ state' \in [Threads -> States]
         /\ eoi' \in [Threads -> BOOLEAN] /\ isr' \in BOOLEAN
         /\ pc' \in [Threads -> Places]
<1>1. isr \in BOOLEAN /\ state \in [Threads -> States] /\ pc \in [Threads -> Places]
  BY DEF TypeOK
<1>2. Schedule(tl, state, TRUE, isr)
  BY DEF ReturnToUser
<1>3. pc' \in [Threads -> Places]
  BY <1>1 DEF ReturnToUser, Places
<1> QED
  BY <1>1, <1>2, <1>3, ScheduleType

(* create_thread, called by a kernel thread, keeps the types.              *)
LEMMA CreateType ==
  ASSUME TypeOK, NEW from, NEW t \in Threads, NEW to \in Places,
         Create(from, t, to)
  PROVE  TypeOK'
<1>1. threadlist' \in Seq(Threads)
  BY AppendProperties DEF TypeOK, Create, create_thread
<1> QED
  BY <1>1 DEF TypeOK, Create, create_thread, States, SLEEPING, pic

(* A kernel thread's call of schedule() keeps the types.                   *)
LEMMA CallScheduleType ==
  ASSUME TypeOK, NEW from, NEW to \in Places, CallSchedule(from, to)
  PROVE  TypeOK'
<1>1. /\ currentthread' \in Threads /\ state' \in [Threads -> States]
      /\ eoi' \in [Threads -> BOOLEAN] /\ isr' \in BOOLEAN
  BY ScheduleType DEF CallSchedule, TypeOK
<1> QED
  BY <1>1 DEF TypeOK, CallSchedule, lists

(* Entering a loop that waits with interrupts on keeps the types.          *)
LEMMA StartSpinType ==
  ASSUME TypeOK, NEW place \in Places, StartSpin(place)
  PROVE  TypeOK'
BY DEF TypeOK, StartSpin, lists, pcb, pic

(* Leaving such a loop keeps the types.                                    *)
LEMMA EndSpinType ==
  ASSUME TypeOK, NEW place, EndSpin(place)
  PROVE  TypeOK'
<1>1. ReturnToUser(threadlist) /\ threadlist \in Seq(Threads)
  BY DEF EndSpin, TypeOK
<1> QED
  BY <1>1, ReturnType DEF TypeOK, EndSpin, lists

(* The lists after thread_on_completion: the blocked parent was put behind *)
(* a listed thread and the blocked threads before it were dropped with it, *)
(* or nothing changed.                                                     *)
LEMMA CompletionLists ==
  ASSUME TypeOK, thread_on_completion
  PROVE  \/ threadlist' = threadlist /\ blockedlist' = blockedlist
         \/ \E i \in 1..Len(threadlist), b \in 1..Len(blockedlist) :
              /\ threadlist' = InsertAt(threadlist, i + 1, blockedlist[b])
              /\ blockedlist' = SubSeq(blockedlist, b + 1, Len(blockedlist))
<1> DEFINE st == [state EXCEPT ![currentthread] = ZOMBIE]
           at == WakePosition(currentthread, st)
<1>0. currentthread \in Threads /\ threadlist \in Seq(Threads) /\ blockedlist \in Seq(Threads)
  BY DEF TypeOK
<1>1. at \in 0..Len(threadlist)
  BY <1>0, WakePositionRange
<1>2. BlockedParent \in 0..Len(blockedlist)
  BY <1>0, BlockedParentRange
<1>3. \/ /\ at # 0 /\ BlockedParent # 0
         /\ threadlist' = InsertAt(threadlist, at + 1, blockedlist[BlockedParent])
         /\ blockedlist' = SubSeq(blockedlist, BlockedParent + 1, Len(blockedlist))
      \/ threadlist' = threadlist /\ blockedlist' = blockedlist
  BY Zenon DEF thread_on_completion, BlockedParent, DropThrough, lists
<1> HIDE DEF at
<1>4. at # 0 /\ BlockedParent # 0 =>
        at \in 1..Len(threadlist) /\ BlockedParent \in 1..Len(blockedlist)
  BY <1>0, <1>1, <1>2
<1> QED
  BY <1>3, <1>4

(* thread_on_completion keeps the types.                                   *)
LEMMA CompletionType ==
  ASSUME TypeOK, thread_on_completion
  PROVE  TypeOK'
<1>0. currentthread \in Threads /\ threadlist \in Seq(Threads) /\ blockedlist \in Seq(Threads)
  BY DEF TypeOK
<1>1. totalslice' \in [Threads -> Nat]
  BY <1>0, GiveBackSliceType DEF thread_on_completion
<1>2. threadlist' \in Seq(Threads) /\ blockedlist' \in Seq(Threads)
  <2>1. ASSUME NEW i \in 1..Len(threadlist), NEW b \in 1..Len(blockedlist)
        PROVE  /\ InsertAt(threadlist, i + 1, blockedlist[b]) \in Seq(Threads)
               /\ SubSeq(blockedlist, b + 1, Len(blockedlist)) \in Seq(Threads)
    <3>1. i + 1 \in 1..(Len(threadlist) + 1) /\ blockedlist[b] \in Threads
      BY <1>0
    <3> QED BY <1>0, <3>1, InsertAtSeq, DropSeq
  <2> QED BY <1>0, <2>1, CompletionLists
<1>3. state' \in [Threads -> States] /\ pc' \in [Threads -> Places]
  BY DEF thread_on_completion, TypeOK, States, Places
<1> QED
  BY <1>1, <1>2, <1>3 DEF TypeOK, thread_on_completion, pic

(* sys_fork keeps the types.                                               *)
LEMMA ForkType ==
  ASSUME TypeOK, sys_fork
  PROVE  TypeOK'
<1> DEFINE child == processcount + 1
           tl == InsertAt(threadlist, CurrentPosition + 1, child)
<1>1. child \in Procs /\ child \in Threads
  BY SMTT(30) DEF sys_fork, TypeOK, Procs, Threads
<1>2. tl \in Seq(Threads)
  <2>0. threadlist \in Seq(Threads)
    BY DEF TypeOK
  <2>1. CurrentPosition \in 0..Len(threadlist)
    BY <2>0, CurrentPositionRange
  <2>2. CurrentPosition + 1 \in 1..(Len(threadlist) + 1)
    BY <2>0, <2>1
  <2> HIDE DEF child
  <2> QED BY <1>1, <2>0, <2>2, InsertAtSeq
<1>3. threadlist' = tl /\ ReturnToUser(tl)
  BY Zenon DEF sys_fork, CurrentPosition
<1>4. /\ currentthread' \in Threads /\ state' \in [Threads -> States]
      /\ eoi' \in [Threads -> BOOLEAN] /\ isr' \in BOOLEAN
      /\ pc' \in [Threads -> Places]
  <2> HIDE DEF tl
  <2> QED BY <1>2, <1>3, ReturnType
<1>5. processcount' \in 0..MaxProc /\ procdir' \in Seq(Procs)
  <2>1. processcount' = child /\ procdir' = Append(procdir, child)
    BY DEF sys_fork
  <2>2. child \in 0..MaxProc /\ procdir \in Seq(Procs)
    BY <1>1 DEF Procs, TypeOK
  <2> HIDE DEF child
  <2> QED BY <1>1, <2>1, <2>2, AppendProperties
<1>6. ppid' \in [Threads -> 0..MaxProc] /\ totalslice' \in [Threads -> Nat]
  <2>1. Pid(currentthread) \in 0..MaxProc
    BY DEF TypeOK, Pid, Threads, Procs, MAIN, FUN1, IDLE
  <2>2. totalslice[currentthread] \div 2 \in Nat
    BY DEF TypeOK
  <2> QED BY <1>1, <2>1, <2>2 DEF sys_fork, TypeOK, HalveSlice
<1>7. is_wait' \in [Threads -> Int] /\ elapsed' \in [Threads -> Int]
  BY DEF sys_fork, TypeOK
<1>8. blockedlist' = blockedlist /\ waitfor' = waitfor
  BY DEF sys_fork
<1> QED
  BY <1>2, <1>3, <1>4, <1>5, <1>6, <1>7, <1>8 DEF TypeOK

(* sys_waitpid keeps the types.                                            *)
LEMMA WaitpidType ==
  ASSUME TypeOK, NEW p \in Procs, sys_waitpid(p)
  PROVE  TypeOK'
<1> DEFINE tl == RemoveFirst(threadlist, currentthread)
           st == [state EXCEPT ![currentthread] = BLOCKED]
<1>1. tl \in Seq(Threads) /\ threadlist \in Seq(Threads)
  BY RemoveFirstType DEF TypeOK
<1>2. st \in [Threads -> States] /\ isr \in BOOLEAN
  BY DEF TypeOK, States
<1>3. p \in Threads /\ p \in 0..MaxProc
  BY DEF Procs, Threads
<1>4. /\ waitfor' = [waitfor EXCEPT ![currentthread] = p]
      /\ pc' = [pc EXCEPT ![currentthread] = "waitpid_return"]
      /\ \/ /\ is_wait' = [is_wait EXCEPT ![p] = 1]
            /\ threadlist' = tl
            /\ blockedlist' = <<currentthread>> \o blockedlist
            /\ Schedule(tl, st, FALSE, isr)
         \/ /\ Schedule(threadlist, st, FALSE, isr)
            /\ UNCHANGED <<lists, is_wait>>
      /\ UNCHANGED <<ppid, totalslice, elapsed, processcount, procdir>>
  BY Zenon DEF sys_waitpid
<1> HIDE DEF tl, st
<1>5. /\ currentthread' \in Threads /\ state' \in [Threads -> States]
      /\ eoi' \in [Threads -> BOOLEAN] /\ isr' \in BOOLEAN
  BY <1>1, <1>2, <1>4, ScheduleType
<1>6. threadlist' \in Seq(Threads) /\ blockedlist' \in Seq(Threads)
        /\ is_wait' \in [Threads -> Int]
  <2>1. <<currentthread>> \o blockedlist \in Seq(Threads)
    BY ConcatProperties DEF TypeOK
  <2>2. [is_wait EXCEPT ![p] = 1] \in [Threads -> Int]
    BY <1>3 DEF TypeOK
  <2>3. /\ threadlist' \in {tl, threadlist}
        /\ blockedlist' \in {<<currentthread>> \o blockedlist, blockedlist}
        /\ is_wait' \in {[is_wait EXCEPT ![p] = 1], is_wait}
    BY <1>4 DEF lists
  <2> QED BY <1>1, <2>1, <2>2, <2>3 DEF TypeOK
<1>7. waitfor' \in [Threads -> 0..MaxProc] /\ pc' \in [Threads -> Places]
  BY <1>3, <1>4 DEF TypeOK, Places
<1> QED
  BY <1>4, <1>5, <1>6, <1>7 DEF TypeOK

(* Signal 9 of sys_kill keeps the types.                                   *)
LEMMA TerminateType ==
  ASSUME TypeOK, NEW p \in Procs, Terminate(p)
  PROVE  TypeOK'
<1>1. CASE thread_on_completion
  BY <1>1, CompletionType
<1>2. CASE ~thread_on_completion
  <2>1. threadlist' \in Seq(Threads) /\ blockedlist' \in Seq(Threads)
          /\ procdir' \in Seq(Procs)
    BY <1>2, RemoveFirstType, RemoveProcEntryType DEF Terminate, TypeOK, lists
  <2>2. ReturnToUser(threadlist')
          /\ UNCHANGED <<is_wait, ppid, totalslice, elapsed, processcount, waitfor>>
    BY <1>2 DEF Terminate
  <2>3. /\ currentthread' \in Threads /\ state' \in [Threads -> States]
        /\ eoi' \in [Threads -> BOOLEAN] /\ isr' \in BOOLEAN
        /\ pc' \in [Threads -> Places]
    BY <2>1, <2>2, ReturnType
  <2> QED BY <2>1, <2>2, <2>3 DEF TypeOK
<1> QED
  BY <1>1, <1>2

(* Every step keeps the types.                                             *)
LEMMA TypeStep ==
  ASSUME TypeOK, [Next]_vars
  PROVE  TypeOK'
<1>0. /\ \A t \in {FUN1, IDLE, 1} : t \in Threads
      /\ {"main_schedule", "main_loop", "fun1_user", "fun1_schedule", "fun1_return",
          "idle_func", "read", "sleep", "confirm", "user"} \subseteq Places
      /\ 0 \in 0..MaxProc /\ 1 \in 0..MaxProc
  BY DEF Threads, Procs, Places
<1>1. CASE ContextSwitch
  BY <1>0, <1>1, CreateType, CallScheduleType DEF ContextSwitch
<1>2. CASE Fun1
  BY <1>0, <1>2, CreateType, CallScheduleType DEF Fun1
<1>3. CASE IdleFunc
  BY <1>0, <1>3, CallScheduleType DEF IdleFunc
<1>4. CASE UserProcess
  <2>1. procdir' \in Seq(Procs)
    BY <1>4, AppendProperties DEF UserProcess, TypeOK, Procs
  <2>2. pc' \in [Threads -> Places] /\ ppid' \in [Threads -> 0..MaxProc]
          /\ totalslice' \in [Threads -> Nat]
    BY <1>0, <1>4 DEF UserProcess, TypeOK
  <2>3. processcount' \in 0..MaxProc
    BY <1>0, <1>4 DEF UserProcess
  <2> QED
    BY <1>4, <2>1, <2>2, <2>3 DEF UserProcess, TypeOK, lists, pic
<1>5. CASE TimerInterrupt
  <2>1. /\ currentthread' \in Threads /\ state' \in [Threads -> States]
        /\ eoi' \in [Threads -> BOOLEAN] /\ isr' \in BOOLEAN
    BY <1>5, ScheduleType DEF TimerInterrupt, TypeOK, pic
  <2>2. elapsed' \in [Threads -> Int]
    <3>1. elapsed \in [Threads -> Int] /\ elapsed[currentthread] + 1 \in Int
      BY DEF TypeOK
    <3>2. \/ elapsed' = [elapsed EXCEPT ![currentthread] = 0]
          \/ elapsed' = [elapsed EXCEPT ![currentthread] = elapsed[currentthread] + 1]
      BY <1>5 DEF TimerInterrupt
    <3> QED BY <3>1, <3>2
  <2> QED
    BY <1>5, <2>1, <2>2 DEF TimerInterrupt, TypeOK, lists
<1>6. CASE PageFault
  BY <1>6 DEF PageFault, TypeOK, lists, pcb
<1>7. CASE Exit
  BY <1>7, CompletionType DEF Exit
<1>8. CASE Spin \/ sys_execvpe \/ UNCHANGED vars
  BY <1>8 DEF Spin, sys_execvpe, vars, TypeOK
<1>9. CASE sys_fork
  BY <1>9, ForkType
<1>10. CASE \E p \in Procs : sys_waitpid(p)
  BY <1>10, WaitpidType
<1>11. CASE WaitpidReturn
  <2>1. threadlist \in Seq(Threads)
    BY DEF TypeOK
  <2>2. waitfor' \in [Threads -> 0..MaxProc]
    BY <1>0, <1>11 DEF WaitpidReturn, TypeOK
  <2>3. ReturnToUser(threadlist)
    BY <1>11 DEF WaitpidReturn
  <2> QED
    BY <1>11, <2>1, <2>2, <2>3, ReturnType DEF WaitpidReturn, TypeOK, lists
<1>12. CASE OtherSyscall
  <2>1. threadlist \in Seq(Threads)
    BY DEF TypeOK
  <2> QED
    BY <1>12, <2>1, ReturnType DEF OtherSyscall, TypeOK, lists
<1>13. CASE sys_read
  BY <1>0, <1>13, StartSpinType, EndSpinType DEF sys_read
<1>14. CASE sys_sleep
  BY <1>0, <1>14, StartSpinType, EndSpinType DEF sys_sleep
<1>15. CASE \E p \in Procs : sys_kill(p)
  BY <1>0, <1>15, StartSpinType, EndSpinType, TerminateType DEF sys_kill
<1> QED
  BY <1>1, <1>2, <1>3, <1>4, <1>5, <1>6, <1>7, <1>8, <1>9, <1>10, <1>11,
     <1>12, <1>13, <1>14, <1>15 DEF Next

(* The state the kernel boots in is correctly typed.                       *)
LEMMA InitType ==
  ASSUME Init
  PROVE  TypeOK
<1>1. MAIN \in Threads /\ 0 \in 0..MaxProc
  BY DEF Threads
<1>2. threadlist \in Seq(Threads) /\ blockedlist \in Seq(Threads) /\ procdir \in Seq(Procs)
  BY <1>1 DEF Init
<1>3. pc \in [Threads -> Places]
  <2> DEFINE place(t) == CASE t = MAIN -> "context_switch"
                           [] t = FUN1 -> "fun1"
                           [] t = IDLE -> "idle_func"
                           [] t = 1 -> "user_process"
                           [] OTHER -> "waitpid_return"
  <2>1. \A t \in Threads : place(t) \in Places
    BY DEF Places
  <2>2. pc = [t \in Threads |-> place(t)]
    BY DEF Init
  <2> HIDE DEF place
  <2> QED BY <2>1, <2>2
<1>4. state \in [Threads -> States] /\ totalslice \in [Threads -> Nat]
  BY DEF Init, States
<1>5. /\ is_wait \in [Threads -> Int] /\ elapsed \in [Threads -> Int]
      /\ ppid \in [Threads -> 0..MaxProc] /\ waitfor \in [Threads -> 0..MaxProc]
      /\ eoi \in [Threads -> BOOLEAN]
  BY <1>1 DEF Init
<1>6. currentthread \in Threads /\ processcount \in 0..MaxProc /\ isr \in BOOLEAN
  BY <1>1 DEF Init
<1> QED
  BY <1>2, <1>3, <1>4, <1>5, <1>6 DEF TypeOK

(* The PCB fields, the lists, /proc and the PIC bits of the scheduler keep *)
(* their types: in particular no list operation is applied outside its     *)
(* list, no pid exceeds the ones handed out and no slice gets negative.    *)
THEOREM TypeCorrect == Spec => []TypeOK
<1>1. Init => TypeOK
  BY InitType
<1>2. TypeOK /\ [Next]_vars => TypeOK'
  BY TypeStep
<1> QED
  BY <1>1, <1>2, PTL DEF Spec

-----------------------------------------------------------------------------
(* The inductive invariant                                                 *)

L == Range(threadlist) \cup Range(blockedlist)

(* ListsWellFormed, with the two lists taken apart.                        *)
SoundLists ==
  /\ IsInjective(threadlist)
  /\ IsInjective(blockedlist)
  /\ Range(threadlist) \cap Range(blockedlist) = {}
  /\ threadlist # <<>> /\ Head(threadlist) = MAIN

UserPlaces == {"user", "waitpid_return", "read", "sleep", "confirm"}

(* Which thread executes which code, and how far the kernel has booted:    *)
(* a thread is on a list only after its creator passed create_thread, and  *)
(* a process other than 1 only after its fork.                             *)
BootOrder ==
  /\ pc[MAIN] \in {"context_switch", "main_schedule", "main_loop"}
  /\ pc[FUN1] \in {"fun1", "fun1_user", "fun1_schedule", "fun1_return", "completed"}
  /\ pc[IDLE] = "idle_func"
  /\ \A p \in Procs : pc[p] \in UserPlaces \cup {"user_process", "completed"}
  /\ \A p \in Procs : pc[p] = "user_process" => p = 1 /\ processcount = 0
  /\ processcount = 0 => pc[1] = "user_process"
  /\ pc[MAIN] = "context_switch" => FUN1 \notin L /\ pc[FUN1] = "fun1"
  /\ pc[FUN1] = "fun1" => IDLE \notin L
  /\ pc[FUN1] \in {"fun1", "fun1_user"} => 1 \notin L /\ processcount = 0
  /\ \A p \in Procs : p \in L => p = 1 \/ p <= processcount

(* OneRunning, and that a ZOMBIE is a thread in the final loop of          *)
(* thread_on_completion.                                                   *)
CpuOwner ==
  /\ currentthread \in Range(threadlist)
  /\ \A t \in Threads :
       /\ state[t] # BLOCKED
       /\ state[t] = RUNNING <=> (t = currentthread /\ pc[t] # "completed")
       /\ t # MAIN => (state[t] = ZOMBIE <=> pc[t] = "completed")

(* BlockedAreWaiting; a parent is older than its child, so that nobody     *)
(* waits for itself.                                                       *)
Waiters ==
  /\ BlockedAreWaiting
  /\ \A p \in Procs : p <= processcount => ppid[p] < p

IInv == TypeOK /\ SoundLists /\ BootOrder /\ CpuOwner /\ Waiters

(* mainthread is on threadlist and on no other list.                       *)
LEMMA SoundListsMain ==
  ASSUME TypeOK, SoundLists
  PROVE  /\ MAIN \in Range(threadlist) /\ MAIN \notin Range(blockedlist)
         /\ Range(threadlist) \subseteq Threads /\ Range(blockedlist) \subseteq Threads
<1>1. threadlist \in Seq(Threads) /\ blockedlist \in Seq(Threads)
  BY DEF TypeOK
<1>2. threadlist[1] = MAIN /\ 1 \in DOMAIN threadlist
  BY <1>1 DEF SoundLists
<1>3. MAIN \in Range(threadlist)
  BY <1>2 DEF Range
<1>4. Range(threadlist) \subseteq Threads /\ Range(blockedlist) \subseteq Threads
  BY <1>1, RangeOfSeq
<1> QED
  BY <1>3, <1>4 DEF SoundLists

(* A thread in user code or in a system call is a process with a pid.      *)
LEMMA UserHasPid ==
  ASSUME IInv, pc[currentthread] \in UserPlaces
  PROVE  /\ currentthread \in Procs
         /\ 1 <= currentthread /\ currentthread <= processcount
         /\ Pid(currentthread) = currentthread
         /\ pc[FUN1] \notin {"fun1", "fun1_user"}
<1> USE DEF IInv
<1>1. currentthread \in Threads /\ processcount \in 0..MaxProc
  BY DEF TypeOK
<1>2. currentthread \in Procs
  BY <1>1 DEF BootOrder, Threads, UserPlaces
<1>3. currentthread \in L
  BY DEF CpuOwner, L
<1>4. currentthread = 1 \/ currentthread <= processcount
  BY <1>2, <1>3 DEF BootOrder
<1>5. processcount # 0
  BY <1>1, <1>2, <1>4 DEF BootOrder, UserPlaces, Procs
<1>6. 1 <= currentthread /\ currentthread <= processcount
  BY <1>1, <1>2, <1>4, <1>5 DEF Procs
<1>7. pc[FUN1] \notin {"fun1", "fun1_user"}
  BY <1>5 DEF BootOrder
<1> QED
  BY <1>1, <1>2, <1>6, <1>7 DEF Pid, Procs

(* After schedule() the thread that has the CPU is the only RUNNING one,   *)
(* whatever state the outgoing thread was left in.                         *)
LEMMA ScheduleKeepsOwner ==
  ASSUME TypeOK, BootOrder, CpuOwner,
         NEW tl \in Seq(Threads), MAIN \in Range(tl), threadlist' = tl,
         NEW st \in [Threads -> States],
         \/ st = state
         \/ st = [state EXCEPT ![currentthread] = BLOCKED] /\ pc[currentthread] = "user",
         NEW ack \in BOOLEAN, NEW svc \in BOOLEAN, Schedule(tl, st, ack, svc),
         pc' \in [Threads -> Places],
         \A t \in Threads : t # currentthread => pc'[t] = pc[t],
         pc'[currentthread] = "completed" <=> pc[currentthread] = "completed"
  PROVE  CpuOwner'
<1>1. currentthread \in Threads /\ eoi \in [Threads -> BOOLEAN] /\ state \in [Threads -> States]
  BY DEF TypeOK
<1>2. /\ currentthread' \in Threads
      /\ \/ currentthread' = MAIN
         \/ currentthread' \in Range(tl) /\ st[currentthread'] = SLEEPING
      /\ state'[currentthread'] = RUNNING
      /\ \A t \in Threads :
           t # currentthread' =>
             state'[t] = IF t = currentthread THEN Outgoing(st, t) ELSE st[t]
  BY <1>1, ScheduleEffect
<1>3. \A t \in Threads : t # currentthread => st[t] = state[t]
  BY <1>1
<1>4. pc'[currentthread'] # "completed"
  <2>1. CASE currentthread' = MAIN
    <3>1. MAIN \in Threads /\ pc[MAIN] # "completed"
      BY DEF BootOrder, Threads
    <3>2. pc'[MAIN] # "completed"
      BY <3>1
    <3> QED BY <2>1, <3>2
  <2>2. CASE currentthread' # MAIN
    <3>1. st[currentthread'] = SLEEPING
      BY <1>2, <2>2
    <3>2. state[currentthread'] = SLEEPING
      BY <1>1, <1>2, <1>3, <3>1 DEF SLEEPING, BLOCKED
    <3>3. pc[currentthread'] # "completed"
      BY <1>2, <2>2, <3>2 DEF CpuOwner, SLEEPING, ZOMBIE
    <3> QED BY <1>2, <3>3
  <2> QED BY <2>1, <2>2
<1>5. \A t \in Threads : pc'[t] = "completed" <=> pc[t] = "completed"
  BY <1>1
<1>6. currentthread' \in Range(threadlist')
  BY <1>2
<1>7. ASSUME NEW t \in Threads
      PROVE  /\ state'[t] # BLOCKED
             /\ state'[t] = RUNNING <=> (t = currentthread' /\ pc'[t] # "completed")
             /\ t # MAIN => (state'[t] = ZOMBIE <=> pc'[t] = "completed")
  <2> USE DEF RUNNING, ZOMBIE, BLOCKED, SLEEPING
  <2>1. CASE t = currentthread'
    BY <1>2, <1>4, <2>1
  <2>2. CASE t # currentthread' /\ t = currentthread
    <3>1. state'[t] = Outgoing(st, t)
      BY <1>2, <2>2
    <3>2. t # MAIN => (st[t] = ZOMBIE <=> pc[t] = "completed")
      BY <1>1, <2>2 DEF CpuOwner
    <3> QED BY <1>5, <2>2, <3>1, <3>2 DEF Outgoing
  <2>3. CASE t # currentthread' /\ t # currentthread
    <3>1. state'[t] = state[t]
      BY <1>2, <1>3, <2>3
    <3> QED BY <1>5, <2>3, <3>1 DEF CpuOwner
  <2> QED BY <2>1, <2>2, <2>3
<1> QED
  BY <1>6, <1>7 DEF CpuOwner

(* The threads blocked in sys_waitpid stay as they are while others run.   *)
LEMMA WaitersKept ==
  ASSUME IInv,
         Range(blockedlist)' \subseteq Range(blockedlist),
         \A t \in Range(blockedlist)' : pc'[t] = pc[t] /\ waitfor'[t] = waitfor[t]
                                       /\ state'[t] = state[t],
         processcount' = processcount, ppid' = ppid
  PROVE  Waiters'
BY DEF IInv, Waiters, BlockedAreWaiting

(* A step that ends in schedule(), adds nobody to blockedlist and makes no *)
(* process.                                                                *)
LEMMA ScheduleInv ==
  ASSUME IInv, TypeOK', SoundLists',
         NEW st \in [Threads -> States],
         \/ st = state
         \/ st = [state EXCEPT ![currentthread] = BLOCKED] /\ pc[currentthread] = "user",
         NEW ack \in BOOLEAN, NEW svc \in BOOLEAN, Schedule(threadlist', st, ack, svc),
         Range(blockedlist') \subseteq Range(blockedlist),
         \A t \in Threads : t # currentthread => pc'[t] = pc[t] /\ waitfor'[t] = waitfor[t],
         pc'[currentthread] = "completed" <=> pc[currentthread] = "completed",
         processcount' = processcount, ppid' = ppid
  PROVE  CpuOwner' /\ Waiters'
<1> USE DEF IInv
<1>1. threadlist' \in Seq(Threads) /\ pc' \in [Threads -> Places]
  BY DEF TypeOK
<1>2. MAIN \in Range(threadlist')
  BY <1>1, HeadInRange DEF SoundLists
<1>3. CpuOwner'
  BY <1>1, <1>2, ScheduleKeepsOwner
<1>4. ASSUME NEW t \in Range(blockedlist')
      PROVE  pc'[t] = pc[t] /\ waitfor'[t] = waitfor[t] /\ state'[t] = state[t]
  <2>1. t \in Threads
    BY SoundListsMain
  <2>2. t # currentthread
    BY DEF CpuOwner, SoundLists
  <2>3. t # currentthread'
    BY <1>3 DEF CpuOwner, SoundLists
  <2>4. currentthread \in Threads /\ eoi \in [Threads -> BOOLEAN]
    BY DEF TypeOK
  <2>5. state'[t] = st[t]
    BY <1>1, <2>1, <2>2, <2>3, <2>4, ScheduleEffect
  <2> QED BY <2>1, <2>2, <2>4, <2>5 DEF TypeOK
<1>5. Waiters'
  BY <1>4, WaitersKept
<1> QED
  BY <1>3, <1>5

(* A step that lists nobody new, hands out no pid, and lets at most a      *)
(* process move on in its own code.                                        *)
LEMMA BootKept ==
  ASSUME IInv, processcount' = processcount,
         Range(threadlist') \cup Range(blockedlist') \subseteq L,
         \A t \in Threads :
            \/ pc'[t] = pc[t]
            \/ /\ t \in Procs /\ pc[t] \in UserPlaces
               /\ pc'[t] \in UserPlaces \cup {"completed"}
  PROVE  BootOrder'
<1> USE DEF IInv
<1>1. MAIN \in Threads \ Procs /\ FUN1 \in Threads \ Procs /\ IDLE \in Threads \ Procs
  BY DEF Threads, Procs, MAIN, FUN1, IDLE
<1>2. pc'[MAIN] = pc[MAIN] /\ pc'[FUN1] = pc[FUN1] /\ pc'[IDLE] = pc[IDLE]
  BY <1>1
<1>3. \A p \in Procs : /\ pc'[p] \in UserPlaces \cup {"user_process", "completed"}
                       /\ pc'[p] = "user_process" <=> pc[p] = "user_process"
  BY DEF BootOrder, UserPlaces, Threads
<1>4. L' \subseteq L
  BY DEF L
<1>5. 1 \in Procs
  BY DEF Procs
<1> QED
  BY <1>2, <1>3, <1>4, <1>5 DEF BootOrder

(* A step that does not touch the lists keeps them sound.                  *)
LEMMA SameListsSound ==
  ASSUME IInv, threadlist' = threadlist, blockedlist' = blockedlist
  PROVE  SoundLists' /\ Range(threadlist') \cup Range(blockedlist') = L
BY DEF IInv, SoundLists, L

(* The end of a system call, after the lists have lost at most a victim.   *)
LEMMA ReturnInv ==
  ASSUME IInv, TypeOK', SoundLists',
         Range(threadlist') \subseteq Range(threadlist),
         Range(blockedlist') \subseteq Range(blockedlist),
         pc[currentthread] \in UserPlaces,
         ReturnToUser(threadlist'),
         \A t \in Threads : t # currentthread => waitfor'[t] = waitfor[t],
         processcount' = processcount, ppid' = ppid
  PROVE  IInv'
<1>1. /\ currentthread \in Procs /\ currentthread \in Threads
      /\ pc \in [Threads -> Places] /\ state \in [Threads -> States] /\ isr \in BOOLEAN
  BY UserHasPid DEF IInv, TypeOK
<1>2. pc' = [pc EXCEPT ![currentthread] = "user"] /\ Schedule(threadlist', state, TRUE, isr)
  BY DEF ReturnToUser
<1>3. \A t \in Threads : t # currentthread => pc'[t] = pc[t] /\ waitfor'[t] = waitfor[t]
  BY <1>1, <1>2
<1>4. pc'[currentthread] = "user" /\ pc[currentthread] # "completed"
  BY <1>1, <1>2 DEF UserPlaces
<1>5. CpuOwner' /\ Waiters'
  BY <1>1, <1>2, <1>3, <1>4, ScheduleInv
<1>6. BootOrder'
  <2>1. Range(threadlist') \cup Range(blockedlist') \subseteq L
    BY DEF L
  <2>2. \A t \in Threads : \/ pc'[t] = pc[t]
                           \/ /\ t \in Procs /\ pc[t] \in UserPlaces
                              /\ pc'[t] \in UserPlaces \cup {"completed"}
    BY <1>1, <1>3, <1>4 DEF UserPlaces
  <2> QED BY <2>1, <2>2, BootKept
<1> QED
  BY <1>5, <1>6 DEF IInv

-----------------------------------------------------------------------------
(* The inductive invariant, action by action                               *)

(* The threads and places of the boot code are threads and places.         *)
LEMMA ThreadNames ==
  /\ MAIN \in Threads /\ FUN1 \in Threads /\ IDLE \in Threads /\ 1 \in Threads
  /\ "main_schedule" \in Places /\ "fun1_user" \in Places /\ "fun1_schedule" \in Places
BY DEF Threads, Procs, Places

(* create_thread lists a thread that was not listed before.                *)
LEMMA CreateLists ==
  ASSUME IInv, NEW from, NEW t \in Threads, NEW to \in Places, Create(from, t, to),
         t \notin L, t # currentthread, from # "completed", to # "completed",
         pc[t] # "completed"
  PROVE  /\ SoundLists' /\ CpuOwner' /\ Waiters'
         /\ Range(threadlist') = Range(threadlist) \cup {t}
         /\ blockedlist' = blockedlist
<1>0. /\ threadlist \in Seq(Threads) /\ blockedlist \in Seq(Threads)
      /\ state \in [Threads -> States] /\ pc \in [Threads -> Places]
      /\ currentthread \in Threads /\ pc[currentthread] = from
  BY DEF IInv, TypeOK, Create, At
<1>1. /\ threadlist' = Append(threadlist, t) /\ blockedlist' = blockedlist
      /\ state' = [state EXCEPT ![t] = SLEEPING]
      /\ pc' = [pc EXCEPT ![currentthread] = to]
      /\ UNCHANGED <<currentthread, processcount, ppid, waitfor>>
  BY DEF Create, create_thread
<1>2. /\ Range(threadlist') = Range(threadlist) \cup {t}
      /\ IsInjective(threadlist') /\ threadlist' # <<>> /\ Head(threadlist') = MAIN
  BY <1>0, <1>1, AppendKeepsInjective, AppendProperties DEF IInv, SoundLists, L
<1>3. SoundLists'
  BY <1>1, <1>2 DEF IInv, SoundLists, L
<1>4. CpuOwner'
  <2>1. currentthread' \in Range(threadlist')
    BY <1>1, <1>2 DEF IInv, CpuOwner
  <2>2. ASSUME NEW u \in Threads
        PROVE  /\ state'[u] # BLOCKED
               /\ state'[u] = RUNNING <=> (u = currentthread' /\ pc'[u] # "completed")
               /\ u # MAIN => (state'[u] = ZOMBIE <=> pc'[u] = "completed")
    <3>1. pc'[u] = "completed" <=> pc[u] = "completed"
      BY <1>0, <1>1
    <3>2. CASE u = t
      BY <1>0, <1>1, <3>1, <3>2 DEF SLEEPING, BLOCKED, RUNNING, ZOMBIE
    <3>3. CASE u # t
      <4>1. state'[u] = state[u]
        BY <1>0, <1>1, <3>3
      <4> QED BY <1>1, <3>1, <4>1 DEF IInv, CpuOwner
    <3> QED BY <3>2, <3>3
  <2> QED BY <2>1, <2>2 DEF CpuOwner
<1>5. Waiters'
  <2>1. ASSUME NEW u \in Range(blockedlist)
        PROVE  pc'[u] = pc[u] /\ waitfor'[u] = waitfor[u] /\ state'[u] = state[u]
    <3>1. u \in Threads /\ u # currentthread /\ u # t
      BY SoundListsMain DEF IInv, CpuOwner, SoundLists, L
    <3> QED BY <1>0, <1>1, <3>1
  <2> QED BY <1>1, <2>1, WaitersKept
<1> QED
  BY <1>1, <1>2, <1>3, <1>4, <1>5

(* A kernel thread's call of schedule(): all but the boot order.           *)
LEMMA CallScheduleInv ==
  ASSUME IInv, TypeOK', NEW from, NEW to, CallSchedule(from, to),
         from # "completed", to # "completed"
  PROVE  /\ SoundLists' /\ CpuOwner' /\ Waiters'
         /\ threadlist' = threadlist /\ blockedlist' = blockedlist
         /\ pc' = [pc EXCEPT ![currentthread] = to] /\ pc[currentthread] = from
         /\ processcount' = processcount
<1>1. /\ threadlist' = threadlist /\ blockedlist' = blockedlist
      /\ pc' = [pc EXCEPT ![currentthread] = to] /\ pc[currentthread] = from
      /\ UNCHANGED <<processcount, ppid, waitfor>>
      /\ Schedule(threadlist', state, FALSE, isr)
  BY DEF CallSchedule, At, lists
<1>2. /\ state \in [Threads -> States] /\ pc \in [Threads -> Places]
      /\ currentthread \in Threads /\ isr \in BOOLEAN
  BY DEF IInv, TypeOK
<1>3. SoundLists'
  BY <1>1, SameListsSound
<1>4. /\ \A t \in Threads : t # currentthread => pc'[t] = pc[t] /\ waitfor'[t] = waitfor[t]
      /\ pc'[currentthread] = "completed" <=> pc[currentthread] = "completed"
  BY <1>1, <1>2
<1>5. CpuOwner' /\ Waiters'
  BY <1>1, <1>2, <1>3, <1>4, ScheduleInv
<1> QED
  BY <1>1, <1>3, <1>5

(* The boot code of mainthread keeps the invariant.                        *)
LEMMA ContextSwitchInv ==
  ASSUME IInv, TypeOK', ContextSwitch
  PROVE  IInv'
<1> USE DEF IInv
<1>0. /\ currentthread \in Threads /\ pc \in [Threads -> Places]
      /\ MAIN \in Threads /\ FUN1 \in Threads /\ IDLE \in Threads /\ 1 \in Threads
      /\ "main_schedule" \in Places
  BY ThreadNames DEF TypeOK
<1>1. CASE Create("context_switch", FUN1, "main_schedule")
  <2>1. pc[currentthread] = "context_switch" /\ processcount' = processcount
           /\ pc' = [pc EXCEPT ![currentthread] = "main_schedule"]
    BY <1>1 DEF Create, At
  <2>2. currentthread = MAIN
    BY <1>0, <2>1 DEF BootOrder, Threads, UserPlaces
  <2>3. FUN1 \notin L /\ FUN1 # currentthread /\ pc[FUN1] # "completed"
    <3>1. FUN1 \notin L
      BY <2>1, <2>2 DEF BootOrder
    <3>2. FUN1 # currentthread
      BY <3>1 DEF CpuOwner, L
    <3>3. pc[FUN1] # "completed"
      BY <2>1, <2>2 DEF BootOrder
    <3> QED BY <3>1, <3>2, <3>3
  <2>4. /\ SoundLists' /\ CpuOwner' /\ Waiters'
        /\ Range(threadlist') = Range(threadlist) \cup {FUN1}
        /\ blockedlist' = blockedlist
    BY <1>0, <1>1, <2>3, CreateLists
  <2>5. L' = L \cup {FUN1}
    BY <2>4 DEF L
  <2>6. BootOrder'
    BY <1>0, <2>1, <2>2, <2>5 DEF BootOrder, MAIN, FUN1, IDLE, Threads, Procs
  <2> QED BY <2>4, <2>6
<1>2. CASE CallSchedule("main_schedule", "main_loop")
  <2>1. /\ SoundLists' /\ CpuOwner' /\ Waiters'
        /\ threadlist' = threadlist /\ blockedlist' = blockedlist
        /\ pc' = [pc EXCEPT ![currentthread] = "main_loop"]
        /\ pc[currentthread] = "main_schedule"
        /\ processcount' = processcount
    BY <1>2, CallScheduleInv
  <2>2. currentthread = MAIN
    BY <1>0, <2>1 DEF BootOrder, Threads, UserPlaces
  <2>3. L' = L
    BY <2>1 DEF L
  <2>4. BootOrder'
    BY <1>0, <2>1, <2>2, <2>3 DEF BootOrder, MAIN, FUN1, IDLE, Threads, Procs
  <2> QED BY <2>1, <2>4
<1> QED
  BY <1>1, <1>2 DEF ContextSwitch

(* fun1, which lists the idle thread and the first process, keeps the      *)
(* invariant.                                                              *)
LEMMA Fun1Inv ==
  ASSUME IInv, TypeOK', Fun1
  PROVE  IInv'
<1> USE DEF IInv
<1>0. /\ currentthread \in Threads /\ pc \in [Threads -> Places]
      /\ MAIN \in Threads /\ FUN1 \in Threads /\ IDLE \in Threads /\ 1 \in Threads
      /\ "fun1_user" \in Places /\ "fun1_schedule" \in Places
  BY ThreadNames DEF TypeOK
<1>1. CASE Create("fun1", IDLE, "fun1_user")
  <2>1. pc[currentthread] = "fun1" /\ processcount' = processcount
           /\ pc' = [pc EXCEPT ![currentthread] = "fun1_user"]
    BY <1>1 DEF Create, At
  <2>2. currentthread = FUN1
    BY <1>0, <2>1 DEF BootOrder, Threads, UserPlaces
  <2>3. IDLE \notin L /\ IDLE # currentthread /\ pc[IDLE] # "completed"
    BY <2>1, <2>2 DEF BootOrder, IDLE, FUN1
  <2>4. /\ SoundLists' /\ CpuOwner' /\ Waiters'
        /\ Range(threadlist') = Range(threadlist) \cup {IDLE}
        /\ blockedlist' = blockedlist
    BY <1>0, <1>1, <2>3, CreateLists
  <2>5. L' = L \cup {IDLE} /\ FUN1 \in L
    BY <2>2, <2>4 DEF L, CpuOwner
  <2>6. BootOrder'
    BY <1>0, <2>1, <2>2, <2>5 DEF BootOrder, MAIN, FUN1, IDLE, Threads, Procs
  <2> QED BY <2>4, <2>6
<1>2. CASE Create("fun1_user", 1, "fun1_schedule")
  <2>1. pc[currentthread] = "fun1_user" /\ processcount' = processcount
           /\ pc' = [pc EXCEPT ![currentthread] = "fun1_schedule"]
    BY <1>2 DEF Create, At
  <2>2. currentthread = FUN1
    BY <1>0, <2>1 DEF BootOrder, Threads, UserPlaces
  <2>3. 1 \notin L /\ 1 # currentthread /\ pc[1] # "completed"
    BY <2>1, <2>2 DEF BootOrder, FUN1
  <2>4. /\ SoundLists' /\ CpuOwner' /\ Waiters'
        /\ Range(threadlist') = Range(threadlist) \cup {1}
        /\ blockedlist' = blockedlist
    BY <1>0, <1>2, <2>3, CreateLists
  <2>5. L' = L \cup {1} /\ FUN1 \in L
    BY <2>2, <2>4 DEF L, CpuOwner
  <2>6. BootOrder'
    BY <1>0, <2>1, <2>2, <2>5 DEF BootOrder, MAIN, FUN1, IDLE, Threads, Procs
  <2> QED BY <2>4, <2>6
<1>3. CASE CallSchedule("fun1_schedule", "fun1_return")
  <2>1. /\ SoundLists' /\ CpuOwner' /\ Waiters'
        /\ threadlist' = threadlist /\ blockedlist' = blockedlist
        /\ pc' = [pc EXCEPT ![currentthread] = "fun1_return"]
        /\ pc[currentthread] = "fun1_schedule"
        /\ processcount' = processcount
    BY <1>3, CallScheduleInv
  <2>2. currentthread = FUN1
    BY <1>0, <2>1 DEF BootOrder, Threads, UserPlaces
  <2>3. L' = L /\ FUN1 \in L
    BY <2>1, <2>2 DEF L, CpuOwner
  <2>4. BootOrder'
    BY <1>0, <2>1, <2>2, <2>3 DEF BootOrder, MAIN, FUN1, IDLE, Threads, Procs
  <2> QED BY <2>1, <2>4
<1> QED
  BY <1>1, <1>2, <1>3 DEF Fun1

(* The idle thread keeps the invariant.                                    *)
LEMMA IdleFuncInv ==
  ASSUME IInv, TypeOK', IdleFunc
  PROVE  IInv'
<1>1. /\ SoundLists' /\ CpuOwner' /\ Waiters'
      /\ threadlist' = threadlist /\ blockedlist' = blockedlist
      /\ pc' = [pc EXCEPT ![currentthread] = "idle_func"]
      /\ pc[currentthread] = "idle_func"
      /\ processcount' = processcount
  BY CallScheduleInv DEF IdleFunc
<1>2. \A t \in Threads : pc'[t] = pc[t]
  BY <1>1 DEF IInv, TypeOK
<1>3. BootOrder'
  BY <1>1, <1>2, BootKept DEF L
<1> QED
  BY <1>1, <1>3 DEF IInv

(* The thread that becomes process 1 keeps the invariant.                  *)
LEMMA UserProcessInv ==
  ASSUME IInv, TypeOK', UserProcess
  PROVE  IInv'
<1> USE DEF IInv
<1>1. /\ pc[currentthread] = "user_process" /\ processcount' = 1
      /\ ppid' = [ppid EXCEPT ![currentthread] = 0]
      /\ pc' = [pc EXCEPT ![currentthread] = "user"]
      /\ UNCHANGED <<threadlist, blockedlist, currentthread, state, waitfor>>
  BY DEF UserProcess, At, lists
<1>2. /\ currentthread \in Threads /\ pc \in [Threads -> Places]
      /\ ppid \in [Threads -> 0..MaxProc]
      /\ MAIN \in Threads /\ FUN1 \in Threads /\ IDLE \in Threads /\ 1 \in Threads
  BY ThreadNames DEF TypeOK
<1>3. currentthread = 1 /\ processcount = 0
  BY <1>1, <1>2 DEF BootOrder, Threads, UserPlaces
<1>4. 1 \in L /\ L' = L
  BY <1>1, <1>3 DEF CpuOwner, L
<1>5. SoundLists'
  BY <1>1, SameListsSound
<1>6. BootOrder'
  BY <1>1, <1>2, <1>3, <1>4 DEF BootOrder, MAIN, FUN1, IDLE, Threads, Procs, UserPlaces
<1>7. CpuOwner'
  <2>1. \A t \in Threads : pc'[t] = "completed" <=> pc[t] = "completed"
    BY <1>1, <1>2
  <2> QED BY <1>1, <2>1 DEF CpuOwner
<1>8. Waiters'
  <2>1. \A t \in Range(blockedlist) : t \in Threads /\ t # currentthread
    BY SoundListsMain DEF CpuOwner, SoundLists
  <2>2. \A t \in Range(blockedlist) : pc'[t] = pc[t]
    BY <1>1, <1>2, <2>1
  <2>3. BlockedAreWaiting'
    BY <1>1, <1>3, <2>2 DEF Waiters, BlockedAreWaiting
  <2>4. \A p \in Procs : p <= processcount' => ppid'[p] < p
    BY <1>1, <1>2, <1>3 DEF Procs
  <2> QED BY <2>3, <2>4 DEF Waiters
<1> QED
  BY <1>5, <1>6, <1>7, <1>8

(* A timer tick keeps the invariant, in whatever code it comes.            *)
LEMMA TimerInterruptInv ==
  ASSUME IInv, TypeOK', TimerInterrupt
  PROVE  IInv'
<1> USE DEF IInv
<1>1. /\ threadlist' = threadlist /\ blockedlist' = blockedlist
      /\ UNCHANGED <<processcount, ppid, waitfor, pc>>
      /\ \/ Schedule(threadlist', state, TRUE, TRUE)
         \/ UNCHANGED <<currentthread, state>>
  BY DEF TimerInterrupt, lists
<1>2. SoundLists' /\ BootOrder'
  BY <1>1, SameListsSound, BootKept
<1>3. CASE Schedule(threadlist', state, TRUE, TRUE)
  <2>1. state \in [Threads -> States]
    BY DEF TypeOK
  <2>2. CpuOwner' /\ Waiters'
    BY <1>1, <1>2, <1>3, <2>1, ScheduleInv
  <2> QED BY <1>2, <2>2
<1>4. CASE UNCHANGED <<currentthread, state>>
  BY <1>1, <1>2, <1>4 DEF CpuOwner, Waiters, BlockedAreWaiting
<1> QED
  BY <1>1, <1>3, <1>4

(* Steps that touch neither lists, nor states, nor pids.                   *)
LEMMA QuietInv ==
  ASSUME IInv, TypeOK', UNCHANGED <<threadlist, blockedlist, currentthread, state,
                                    ppid, processcount, waitfor>>,
         \A t \in Threads : \/ pc'[t] = pc[t]
                            \/ /\ t = currentthread /\ pc[t] \in UserPlaces
                               /\ pc'[t] \in UserPlaces
  PROVE  IInv'
<1> USE DEF IInv
<1>1. \A t \in Threads : \/ pc'[t] = pc[t]
                         \/ /\ t \in Procs /\ pc[t] \in UserPlaces
                            /\ pc'[t] \in UserPlaces \cup {"completed"}
  BY UserHasPid
<1>2. SoundLists' /\ BootOrder'
  BY <1>1, SameListsSound, BootKept
<1>3. CpuOwner'
  <2>1. \A t \in Threads : pc'[t] = "completed" <=> pc[t] = "completed"
    BY DEF UserPlaces
  <2> QED BY <2>1 DEF CpuOwner
<1>4. Waiters'
  <2>1. \A t \in Range(blockedlist) : t \in Threads /\ t # currentthread
    BY SoundListsMain DEF CpuOwner, SoundLists
  <2> QED BY <2>1, WaitersKept
<1> QED
  BY <1>2, <1>3, <1>4

(* thread_on_completion moves at most one thread between the lists.        *)
LEMMA CompletionSound ==
  ASSUME IInv, thread_on_completion
  PROVE  /\ SoundLists'
         /\ Range(threadlist) \subseteq Range(threadlist')
         /\ Range(blockedlist') \subseteq Range(blockedlist)
         /\ Range(threadlist') \cup Range(blockedlist') \subseteq L
<1> USE DEF IInv
<1>0. threadlist \in Seq(Threads) /\ blockedlist \in Seq(Threads)
  BY DEF TypeOK
<1>1. CASE threadlist' = threadlist /\ blockedlist' = blockedlist
  BY <1>1, SameListsSound
<1>2. ASSUME NEW i \in 1..Len(threadlist), NEW b \in 1..Len(blockedlist),
             threadlist' = InsertAt(threadlist, i + 1, blockedlist[b]),
             blockedlist' = SubSeq(blockedlist, b + 1, Len(blockedlist))
      PROVE  /\ SoundLists'
             /\ Range(threadlist) \subseteq Range(threadlist')
             /\ Range(blockedlist') \subseteq Range(blockedlist)
             /\ Range(threadlist') \cup Range(blockedlist') \subseteq L
  <2> DEFINE e == blockedlist[b]
  <2>1. e \in Range(blockedlist) /\ e \in Threads /\ e \notin Range(threadlist)
    BY <1>0 DEF Range, SoundLists
  <2>2. i + 1 \in 1..(Len(threadlist) + 1) /\ i + 1 > 1
    BY <1>0
  <2> HIDE DEF e
  <2>3. threadlist' = InsertAt(threadlist, i + 1, e)
    BY <1>2 DEF e
  <2>4. /\ Range(threadlist') = Range(threadlist) \cup {e}
        /\ IsInjective(threadlist')
        /\ Head(threadlist') = MAIN
    <3>1. IsInjective(threadlist) /\ Head(threadlist) = MAIN
      BY DEF SoundLists
    <3> DEFINE j == i + 1
    <3>2. j \in 1..(Len(threadlist) + 1) /\ j > 1 /\ threadlist' = InsertAt(threadlist, j, e)
      BY <2>2, <2>3
    <3> HIDE DEF j
    <3>3. Range(InsertAt(threadlist, j, e)) = Range(threadlist) \cup {e}
      BY <1>0, <2>1, <3>2, InsertKeepsInjective, SMTT(30)
    <3>4. IsInjective(InsertAt(threadlist, j, e))
      BY <1>0, <2>1, <3>1, <3>2, InsertKeepsInjective, Zenon
    <3>5. Head(InsertAt(threadlist, j, e)) = Head(threadlist)
      BY <1>0, <2>1, <3>2, InsertKeepsInjective
    <3> QED BY <3>1, <3>2, <3>3, <3>4, <3>5
  <2>5. threadlist' # <<>>
    <3>1. threadlist' \in Seq(Threads) /\ Len(threadlist') = Len(threadlist) + 1
      BY <1>0, <2>1, <2>2, <2>3, InsertAtSeq
    <3> QED BY <1>0, <3>1
  <2>6. /\ Range(blockedlist') \subseteq Range(blockedlist) \ {e}
        /\ IsInjective(blockedlist')
    BY <1>0, <1>2, DropKeepsInjective DEF SoundLists, e
  <2> QED BY <2>1, <2>4, <2>5, <2>6 DEF SoundLists, L
<1> QED
  BY <1>1, <1>2, CompletionLists

(* The end of a process, or of fun1, keeps the invariant.                  *)
LEMMA CompletionInv ==
  ASSUME IInv, TypeOK', thread_on_completion,
         pc[currentthread] \in UserPlaces \cup {"fun1_return"}
  PROVE  IInv'
<1> USE DEF IInv
<1>1. /\ state' = [state EXCEPT ![currentthread] = ZOMBIE]
      /\ pc' = [pc EXCEPT ![currentthread] = "completed"]
      /\ UNCHANGED <<currentthread, ppid, processcount, waitfor>>
  BY DEF thread_on_completion
<1>2. /\ currentthread \in Threads /\ pc \in [Threads -> Places]
      /\ state \in [Threads -> States]
      /\ MAIN \in Threads /\ FUN1 \in Threads /\ IDLE \in Threads /\ 1 \in Threads
  BY ThreadNames DEF TypeOK
<1>3. /\ SoundLists'
      /\ Range(threadlist) \subseteq Range(threadlist')
      /\ Range(blockedlist') \subseteq Range(blockedlist)
      /\ Range(threadlist') \cup Range(blockedlist') \subseteq L
  BY CompletionSound
<1>4. currentthread \in L /\ currentthread # MAIN
  BY DEF CpuOwner, L, BootOrder, UserPlaces
<1>5. CpuOwner'
  <2>1. currentthread' \in Range(threadlist')
    BY <1>1, <1>3 DEF CpuOwner
  <2>2. ASSUME NEW t \in Threads
        PROVE  /\ state'[t] # BLOCKED
               /\ state'[t] = RUNNING <=> (t = currentthread' /\ pc'[t] # "completed")
               /\ t # MAIN => (state'[t] = ZOMBIE <=> pc'[t] = "completed")
    <3>1. CASE t = currentthread
      BY <1>1, <1>2, <3>1 DEF RUNNING, ZOMBIE, BLOCKED
    <3>2. CASE t # currentthread
      BY <1>1, <1>2, <3>2 DEF CpuOwner
    <3> QED BY <3>1, <3>2
  <2> QED BY <2>1, <2>2 DEF CpuOwner
<1>6. Waiters'
  <2>1. \A t \in Range(blockedlist') : t \in Threads /\ t # currentthread
    BY <1>3, SoundListsMain DEF CpuOwner, SoundLists
  <2>2. \A t \in Range(blockedlist') :
          pc'[t] = pc[t] /\ waitfor'[t] = waitfor[t] /\ state'[t] = state[t]
    BY <1>1, <1>2, <2>1
  <2> QED BY <1>1, <1>3, <2>2, WaitersKept
<1>7. BootOrder'
  <2>1. CASE pc[currentthread] \in UserPlaces
    <3>1. \A t \in Threads : \/ pc'[t] = pc[t]
                             \/ /\ t \in Procs /\ pc[t] \in UserPlaces
                                /\ pc'[t] \in UserPlaces \cup {"completed"}
      BY <1>1, <1>2, <2>1, UserHasPid
    <3> QED BY <1>1, <1>3, <3>1, BootKept
  <2>2. CASE pc[currentthread] = "fun1_return"
    <3>1. currentthread = FUN1
      BY <1>2, <2>2 DEF BootOrder, Threads, UserPlaces
    <3>2. L' \subseteq L
      BY <1>3 DEF L
    <3> QED
      BY <1>1, <1>2, <1>4, <2>2, <3>1, <3>2
         DEF BootOrder, MAIN, FUN1, IDLE, Threads, Procs
  <2> QED BY <2>1, <2>2
<1> QED
  BY <1>3, <1>5, <1>6, <1>7

(* A process taken off a list for good.                                    *)
LEMMA RemoveSound ==
  ASSUME NEW s \in Seq(Threads), NEW p, p \in Range(s), IsInjective(s)
  PROVE  /\ RemoveFirst(s, p) \in Seq(Threads)
         /\ Range(RemoveFirst(s, p)) = Range(s) \ {p}
         /\ IsInjective(RemoveFirst(s, p))
         /\ s # <<>> /\ Head(s) # p =>
              RemoveFirst(s, p) # <<>> /\ Head(RemoveFirst(s, p)) = Head(s)
<1>1. PICK i \in 1..Len(s) : s[i] = p /\ RemoveFirst(s, p) = RemoveAt(s, i)
  BY RemoveFirstAt
<1>2. s # <<>> /\ Head(s) # p => i > 1
  BY <1>1
<1> QED
  BY <1>1, <1>2, RemoveKeepsInjective

(* Signal 9 keeps the invariant: the victim is another process, so the     *)
(* running thread stays listed.                                            *)
LEMMA TerminateInv ==
  ASSUME IInv, TypeOK', NEW p \in Procs, Terminate(p),
         pc[currentthread] \in UserPlaces
  PROVE  IInv'
<1> USE DEF IInv
<1>0. threadlist \in Seq(Threads) /\ blockedlist \in Seq(Threads) /\ p # MAIN
  BY DEF TypeOK, Procs, MAIN
<1>1. CASE thread_on_completion
  BY <1>1, CompletionInv
<1>2. CASE ~thread_on_completion
  <2>1. /\ ReturnToUser(threadlist')
        /\ UNCHANGED <<ppid, processcount, waitfor>>
        /\ \/ /\ Contains(threadlist, p)
              /\ threadlist' = RemoveFirst(threadlist, p) /\ blockedlist' = blockedlist
           \/ /\ Contains(blockedlist, p)
              /\ blockedlist' = RemoveFirst(blockedlist, p) /\ threadlist' = threadlist
           \/ threadlist' = threadlist /\ blockedlist' = blockedlist
    BY <1>2 DEF Terminate, lists
  <2>2. /\ SoundLists'
        /\ Range(threadlist') \subseteq Range(threadlist)
        /\ Range(blockedlist') \subseteq Range(blockedlist)
    <3>1. CASE /\ Contains(threadlist, p)
               /\ threadlist' = RemoveFirst(threadlist, p) /\ blockedlist' = blockedlist
      <4>1. p \in Range(threadlist)
        BY <1>0, <3>1, ContainsRange
      <4>2. /\ Range(threadlist') = Range(threadlist) \ {p}
            /\ IsInjective(threadlist')
            /\ threadlist' # <<>> /\ Head(threadlist') = MAIN
        BY <1>0, <3>1, <4>1, RemoveSound DEF SoundLists
      <4> QED BY <3>1, <4>2 DEF SoundLists
    <3>2. CASE /\ Contains(blockedlist, p)
               /\ blockedlist' = RemoveFirst(blockedlist, p) /\ threadlist' = threadlist
      <4>1. p \in Range(blockedlist)
        BY <1>0, <3>2, ContainsRange
      <4>2. /\ Range(blockedlist') = Range(blockedlist) \ {p}
            /\ IsInjective(blockedlist')
        BY <1>0, <3>2, <4>1, RemoveSound DEF SoundLists
      <4> QED BY <3>2, <4>2 DEF SoundLists
    <3>3. CASE threadlist' = threadlist /\ blockedlist' = blockedlist
      BY <3>3, SameListsSound
    <3> QED BY <2>1, <3>1, <3>2, <3>3
  <2> QED BY <2>1, <2>2, ReturnInv
<1> QED
  BY <1>1, <1>2

(* Leaving a loop that waits with interrupts on keeps the invariant.       *)
LEMMA EndSpinInv ==
  ASSUME IInv, TypeOK', NEW place \in UserPlaces, EndSpin(place)
  PROVE  IInv'
<1>1. /\ pc[currentthread] \in UserPlaces
      /\ ReturnToUser(threadlist) /\ threadlist' = threadlist /\ blockedlist' = blockedlist
      /\ UNCHANGED <<ppid, processcount, waitfor>>
  BY DEF EndSpin, At, lists
<1> QED
  BY <1>1, SameListsSound, ReturnInv

(* Entering a loop that waits with interrupts on keeps the invariant.      *)
LEMMA StartSpinInv ==
  ASSUME IInv, TypeOK', NEW place \in UserPlaces, StartSpin(place)
  PROVE  IInv'
<1>1. /\ pc[currentthread] = "user" /\ pc' = [pc EXCEPT ![currentthread] = place]
      /\ UNCHANGED <<threadlist, blockedlist, currentthread, state, ppid,
                     processcount, waitfor>>
  BY DEF StartSpin, At, lists, pcb
<1>2. \A t \in Threads : \/ pc'[t] = pc[t]
                         \/ /\ t = currentthread /\ pc[t] \in UserPlaces
                            /\ pc'[t] \in UserPlaces
  BY <1>1 DEF IInv, TypeOK, UserPlaces
<1> QED
  BY <1>1, <1>2, QuietInv

(* sys_fork lists a process with a new pid, behind its parent, and keeps   *)
(* the invariant.                                                          *)
LEMMA ForkInv ==
  ASSUME IInv, TypeOK', sys_fork
  PROVE  IInv'
<1> USE DEF IInv
<1> DEFINE me == currentthread
           child == processcount + 1
<1>1. /\ pc[me] = "user" /\ child <= MaxProc /\ processcount' = child
      /\ threadlist' = InsertAt(threadlist, CurrentPosition + 1, child)
      /\ blockedlist' = blockedlist /\ waitfor' = waitfor
      /\ ppid' = [ppid EXCEPT ![child] = Pid(me)]
      /\ ReturnToUser(threadlist')
  BY Zenon DEF sys_fork, At, CurrentPosition
<1>2. /\ me \in Procs /\ 1 <= me /\ me <= processcount /\ Pid(me) = me
      /\ pc[FUN1] \notin {"fun1", "fun1_user"}
  BY <1>1, UserHasPid DEF UserPlaces
<1>3. /\ threadlist \in Seq(Threads) /\ blockedlist \in Seq(Threads)
      /\ processcount \in 0..MaxProc /\ ppid \in [Threads -> 0..MaxProc]
      /\ pc \in [Threads -> Places] /\ state \in [Threads -> States]
      /\ me \in Threads /\ isr \in BOOLEAN /\ eoi \in [Threads -> BOOLEAN]
  BY DEF TypeOK
<1>4. child \in Procs /\ child \in Threads /\ child # me /\ child # MAIN
  BY <1>1, <1>2, <1>3 DEF Procs, Threads, MAIN
<1>5. child \notin L
  <2>1. ~(child = 1 \/ child <= processcount)
    BY <1>2, <1>3 DEF Procs
  <2> QED BY <1>4, <2>1 DEF BootOrder
<1>6. CurrentPosition \in 1..Len(threadlist)
  BY <1>3, CurrentPositionRange DEF CpuOwner
<1> HIDE DEF child
<1>7. /\ Range(threadlist') = Range(threadlist) \cup {child}
      /\ IsInjective(threadlist') /\ Head(threadlist') = MAIN /\ threadlist' # <<>>
  <2>1. /\ IsInjective(threadlist) /\ Head(threadlist) = MAIN
        /\ child \notin Range(threadlist)
    BY <1>5 DEF SoundLists, L
  <2> DEFINE j == CurrentPosition + 1
  <2>2. j \in 1..(Len(threadlist) + 1) /\ j > 1 /\ threadlist' = InsertAt(threadlist, j, child)
    BY <1>1, <1>3, <1>6
  <2> HIDE DEF j
  <2>3. threadlist' \in Seq(Threads) /\ Len(threadlist') = Len(threadlist) + 1
    BY <1>3, <1>4, <2>2, InsertAtSeq
  <2>4. threadlist' # <<>>
    BY <1>3, <2>3
  <2>5. Range(InsertAt(threadlist, j, child)) = Range(threadlist) \cup {child}
    BY <1>3, <1>4, <2>2, InsertKeepsInjective
  <2>6. IsInjective(InsertAt(threadlist, j, child))
    BY <1>3, <1>4, <2>1, <2>2, InsertKeepsInjective, Zenon
  <2>7. Head(InsertAt(threadlist, j, child)) = Head(threadlist)
    BY <1>3, <1>4, <2>2, InsertKeepsInjective
  <2> QED BY <2>1, <2>2, <2>4, <2>5, <2>6, <2>7
<1>8. SoundLists'
  BY <1>1, <1>5, <1>7 DEF SoundLists, L
<1>9. /\ pc' = [pc EXCEPT ![me] = "user"] /\ Schedule(threadlist', state, TRUE, isr)
  BY <1>1 DEF ReturnToUser
<1>10. \A t \in Threads : pc'[t] = pc[t]
  BY <1>1, <1>3, <1>9
<1>11. CpuOwner'
  <2>1. MAIN \in Range(threadlist') /\ threadlist' \in Seq(Threads)
          /\ pc' \in [Threads -> Places]
    BY <1>7, HeadInRange DEF TypeOK
  <2>2. pc'[currentthread] = "completed" <=> pc[currentthread] = "completed"
    BY <1>3, <1>10
  <2> QED BY <1>3, <1>9, <1>10, <2>1, <2>2, ScheduleKeepsOwner
<1>12. BootOrder'
  <2>1. L' = L \cup {child}
    BY <1>1, <1>7 DEF L
  <2>2. child # 1 /\ child # FUN1 /\ child # IDLE /\ processcount' # 0
    BY <1>1, <1>2, <1>3 DEF child, FUN1, IDLE, Procs
  <2>3. \A p \in Procs : p \in L' => p = 1 \/ p <= processcount'
    BY <1>1, <1>3, <2>1 DEF BootOrder, Procs, child
  <2>4. \A p \in Procs : pc[p] # "user_process"
    BY <1>2, <1>3 DEF BootOrder, Procs
  <2>5. 1 \in Procs /\ Procs \subseteq Threads
    BY DEF Procs, Threads
  <2>6. pc'[MAIN] = pc[MAIN] /\ pc'[FUN1] = pc[FUN1] /\ pc'[IDLE] = pc[IDLE]
    BY <1>10, ThreadNames
  <2>7. \A p \in Procs : pc'[p] = pc[p]
    BY <1>10, <2>5
  <2> QED
    BY <1>2, <2>1, <2>2, <2>3, <2>4, <2>5, <2>6, <2>7 DEF BootOrder
<1>13. Waiters'
  <2>1. ASSUME NEW t \in Range(blockedlist)
        PROVE  pc'[t] = pc[t] /\ state'[t] = state[t]
    <3>1. t \in Threads /\ t # me
      BY SoundListsMain DEF CpuOwner, SoundLists
    <3>2. t # currentthread'
      BY <1>1, <1>8, <1>11 DEF CpuOwner, SoundLists
    <3>3. threadlist' \in Seq(Threads)
      BY DEF TypeOK
    <3>4. state'[t] = state[t]
      BY <1>3, <1>9, <3>1, <3>2, <3>3, ScheduleEffect
    <3> QED BY <1>10, <3>1, <3>4
  <2>2. BlockedAreWaiting'
    <3>1. \A i : i \in 1..processcount => i \in 1..processcount'
      BY <1>1, <1>3 DEF child
    <3> QED BY <1>1, <2>1, <3>1 DEF Waiters, BlockedAreWaiting
  <2>3. ASSUME NEW p \in Procs, p <= processcount'
        PROVE  ppid'[p] < p
    <3>1. CASE p = child
      <4>1. ppid'[p] = me
        BY <1>1, <1>2, <1>3, <1>4, <3>1
      <4> QED BY <1>2, <1>3, <3>1, <4>1 DEF child, Procs
    <3>2. CASE p # child
      <4>1. p <= processcount
        BY <1>1, <1>3, <2>3, <3>2 DEF child, Procs
      <4>2. ppid'[p] = ppid[p]
        BY <1>1, <1>3, <1>4, <3>2 DEF Procs, Threads
      <4> QED BY <4>1, <4>2 DEF Waiters
    <3> QED BY <3>1, <3>2
  <2> QED BY <2>2, <2>3 DEF Waiters
<1> QED
  BY <1>8, <1>11, <1>12, <1>13

(* sys_waitpid moves its caller, never mainthread, to the front of         *)
(* blockedlist, and marks another, younger process.                        *)
LEMMA WaitpidInv ==
  ASSUME IInv, TypeOK', NEW p \in Procs, sys_waitpid(p)
  PROVE  IInv'
<1> USE DEF IInv
<1> DEFINE me == currentthread
           tl == RemoveFirst(threadlist, me)
           st == [state EXCEPT ![me] = BLOCKED]
<1>1. /\ pc[me] = "user" /\ p <= processcount
      /\ waitfor' = [waitfor EXCEPT ![me] = p]
      /\ pc' = [pc EXCEPT ![me] = "waitpid_return"]
      /\ UNCHANGED <<ppid, processcount>>
      /\ \/ /\ ppid[p] = Pid(me)
            /\ threadlist' = tl
            /\ blockedlist' = <<me>> \o blockedlist
            /\ Schedule(tl, st, FALSE, isr)
         \/ /\ Schedule(threadlist, st, FALSE, isr)
            /\ threadlist' = threadlist /\ blockedlist' = blockedlist
  BY Zenon DEF sys_waitpid, At, lists
<1>2. me \in Procs /\ 1 <= me /\ me <= processcount /\ Pid(me) = me
  BY <1>1, UserHasPid DEF UserPlaces
<1>3. /\ threadlist \in Seq(Threads) /\ blockedlist \in Seq(Threads)
      /\ processcount \in 0..MaxProc /\ waitfor \in [Threads -> 0..MaxProc]
      /\ pc \in [Threads -> Places] /\ state \in [Threads -> States]
      /\ me \in Threads /\ isr \in BOOLEAN /\ eoi \in [Threads -> BOOLEAN]
  BY DEF TypeOK
<1>4. st \in [Threads -> States]
  BY <1>3 DEF States
<1>5. /\ \A t \in Threads : t # me => pc'[t] = pc[t] /\ waitfor'[t] = waitfor[t]
      /\ pc'[me] = "waitpid_return" /\ waitfor'[me] = p
  BY <1>1, <1>3
<1>6. pc'[me] = "completed" <=> pc[me] = "completed"
  BY <1>1, <1>5
<1>7. \A t \in Threads : \/ pc'[t] = pc[t]
                         \/ /\ t \in Procs /\ pc[t] \in UserPlaces
                            /\ pc'[t] \in UserPlaces \cup {"completed"}
  BY <1>1, <1>2, <1>5 DEF UserPlaces
<1>8. CASE /\ Schedule(threadlist, st, FALSE, isr)
           /\ threadlist' = threadlist /\ blockedlist' = blockedlist
  <2>1. SoundLists' /\ BootOrder'
    BY <1>1, <1>7, <1>8, SameListsSound, BootKept
  <2>2. CpuOwner' /\ Waiters'
    BY <1>1, <1>3, <1>4, <1>5, <1>6, <1>8, <2>1, ScheduleInv
  <2> QED BY <2>1, <2>2
<1>9. CASE /\ ppid[p] = Pid(me)
           /\ threadlist' = tl
           /\ blockedlist' = <<me>> \o blockedlist
           /\ Schedule(tl, st, FALSE, isr)
  <2>1. me \in Range(threadlist) /\ me \notin Range(blockedlist) /\ me # MAIN
    BY <1>1 DEF CpuOwner, SoundLists, BootOrder
  <2>2. /\ tl \in Seq(Threads) /\ Range(tl) = Range(threadlist) \ {me}
        /\ IsInjective(tl) /\ tl # <<>> /\ Head(tl) = MAIN
    BY <1>3, <2>1, RemoveSound DEF SoundLists
  <2>3. /\ Range(blockedlist') = {me} \cup Range(blockedlist)
        /\ IsInjective(blockedlist')
    BY <1>3, <1>9, <2>1, PrependKeepsInjective DEF SoundLists
  <2> HIDE DEF tl, st
  <2>4. SoundLists'
    BY <1>9, <2>1, <2>2, <2>3 DEF SoundLists
  <2>5. BootOrder'
    <3>1. Range(threadlist') \cup Range(blockedlist') \subseteq L
      BY <1>9, <2>1, <2>2, <2>3 DEF L
    <3> QED BY <1>1, <1>7, <3>1, BootKept
  <2>6. CpuOwner'
    <3>1. MAIN \in Range(tl) /\ pc' \in [Threads -> Places]
      BY <2>2, HeadInRange DEF TypeOK
    <3>2. st = [state EXCEPT ![currentthread] = BLOCKED] /\ pc[currentthread] = "user"
      BY <1>1 DEF st
    <3>3. /\ \A t \in Threads : t # currentthread => pc'[t] = pc[t]
          /\ pc'[currentthread] = "completed" <=> pc[currentthread] = "completed"
      BY <1>5, <1>6
    <3> QED
      BY <1>3, <1>4, <1>9, <2>2, <3>1, <3>2, <3>3, ScheduleKeepsOwner
  <2>7. BlockedAreWaiting'
    <3> SUFFICES ASSUME NEW t \in Range(blockedlist')
                 PROVE  /\ pc'[t] = "waitpid_return"
                        /\ waitfor'[t] \in 1..processcount' \ {t}
                        /\ state'[t] = SLEEPING
      BY DEF BlockedAreWaiting
    <3>1. t # currentthread'
      BY <2>4, <2>6 DEF CpuOwner, SoundLists
    <3>2. t \in Threads
      BY <1>3, <2>3, SoundListsMain
    <3>3. state'[t] = IF t = me THEN Outgoing(st, t) ELSE st[t]
      <4>1. \A u \in Threads :
              u # currentthread' =>
                state'[u] = IF u = currentthread THEN Outgoing(st, u) ELSE st[u]
        <5> HIDE DEF st, tl
        <5>1. tl \in Seq(Threads) /\ Schedule(tl, st, FALSE, isr)
          BY <1>9, <2>2, Zenon
        <5> QED BY <1>3, <1>4, <5>1, ScheduleEffect
      <4> QED BY <3>1, <3>2, <4>1
    <3>4. CASE t = me
      <4>1. Outgoing(st, me) = SLEEPING
        BY <1>3, <2>1 DEF st, Outgoing, SLEEPING, ZOMBIE, BLOCKED
      <4>2. p # me
        <5>1. ppid[p] < p
          BY <1>1 DEF Waiters
        <5> QED BY <1>2, <1>9, <5>1 DEF Procs
      <4>3. p \in 1..processcount'
        BY <1>1, <1>3 DEF Procs
      <4> QED BY <1>5, <3>3, <3>4, <4>1, <4>2, <4>3
    <3>5. CASE t # me
      <4>1. t \in Range(blockedlist)
        BY <2>3, <3>5
      <4>2. st[t] = state[t]
        BY <1>3, <3>2, <3>5 DEF st
      <4> QED
        BY <1>1, <1>5, <3>2, <3>3, <3>5, <4>1, <4>2 DEF Waiters, BlockedAreWaiting
    <3> QED BY <3>4, <3>5
  <2>8. Waiters'
    BY <1>1, <2>7 DEF Waiters
  <2> QED BY <2>4, <2>5, <2>6, <2>8
<1> QED
  BY <1>1, <1>8, <1>9

(* Every step keeps the invariant.                                         *)
LEMMA Invariance ==
  ASSUME IInv, [Next]_vars
  PROVE  IInv'
<1>0. TypeOK'
  BY TypeStep DEF IInv
<1>1. CASE ContextSwitch \/ Fun1 \/ IdleFunc
  BY <1>0, <1>1, ContextSwitchInv, Fun1Inv, IdleFuncInv
<1>2. CASE UserProcess
  BY <1>0, <1>2, UserProcessInv
<1>3. CASE TimerInterrupt
  BY <1>0, <1>3, TimerInterruptInv
<1>4. CASE PageFault \/ Spin \/ sys_execvpe \/ UNCHANGED vars
  <2>1. UNCHANGED <<threadlist, blockedlist, currentthread, state, ppid,
                    processcount, waitfor, pc>>
    BY <1>4 DEF PageFault, Spin, sys_execvpe, vars, lists, pcb
  <2> QED BY <1>0, <2>1, QuietInv
<1>5. CASE Exit
  BY <1>0, <1>5, CompletionInv DEF Exit, At, UserPlaces
<1>6. CASE sys_fork
  BY <1>0, <1>6, ForkInv
<1>7. CASE \E p \in Procs : sys_waitpid(p)
  BY <1>0, <1>7, WaitpidInv
<1>8. CASE WaitpidReturn \/ OtherSyscall
  <2>1. /\ pc[currentthread] \in UserPlaces
        /\ ReturnToUser(threadlist)
        /\ threadlist' = threadlist /\ blockedlist' = blockedlist
        /\ UNCHANGED <<ppid, processcount>>
        /\ waitfor' \in {waitfor, [waitfor EXCEPT ![currentthread] = 0]}
    BY <1>8 DEF WaitpidReturn, OtherSyscall, At, UserPlaces, lists
  <2>2. \A t \in Threads : t # currentthread => waitfor'[t] = waitfor[t]
    BY <2>1 DEF IInv, TypeOK
  <2> QED BY <1>0, <2>1, <2>2, SameListsSound, ReturnInv
<1>9. {"user", "read", "sleep", "confirm"} \subseteq UserPlaces
  BY DEF UserPlaces
<1>10. CASE sys_read \/ sys_sleep
  BY <1>0, <1>9, <1>10, StartSpinInv, EndSpinInv DEF sys_read, sys_sleep
<1>11. CASE \E p \in Procs : sys_kill(p)
  BY <1>0, <1>9, <1>11, StartSpinInv, EndSpinInv, TerminateInv DEF sys_kill, At
<1> QED
  BY <1>1, <1>2, <1>3, <1>4, <1>5, <1>6, <1>7, <1>8, <1>10, <1>11 DEF Next

(* The inductive invariant holds in every reachable state.                 *)
THEOREM Inductive == Spec => []IInv
<1>1. Init => IInv
  <2> SUFFICES ASSUME Init PROVE IInv
    OBVIOUS
  <2>1. TypeOK
    BY InitType
  <2>2. /\ threadlist = <<MAIN>> /\ blockedlist = <<>> /\ currentthread = MAIN
        /\ processcount = 0
        /\ state = [t \in Threads |-> IF t = MAIN THEN RUNNING ELSE SLEEPING]
    BY DEF Init
  <2>3. Range(threadlist) = {MAIN} /\ Range(blockedlist) = {}
    <3>1. <<MAIN>>[1] = MAIN /\ DOMAIN <<MAIN>> = {1} /\ DOMAIN <<>> = {}
      OBVIOUS
    <3> QED BY <2>2, <3>1 DEF Range
  <2>4. SoundLists
    BY <2>2, <2>3 DEF SoundLists, IsInjective
  <2>5. \A t \in Threads : pc[t] = CASE t = MAIN -> "context_switch"
                                     [] t = FUN1 -> "fun1"
                                     [] t = IDLE -> "idle_func"
                                     [] t = 1 -> "user_process"
                                     [] OTHER -> "waitpid_return"
    BY DEF Init
  <2>6. /\ pc[MAIN] = "context_switch" /\ pc[FUN1] = "fun1" /\ pc[IDLE] = "idle_func"
        /\ pc[1] = "user_process"
        /\ \A p \in Procs : p # 1 => pc[p] = "waitpid_return"
    BY <2>5, ThreadNames DEF MAIN, FUN1, IDLE, Threads, Procs
  <2>7. BootOrder
    BY <2>2, <2>3, <2>6 DEF BootOrder, L, UserPlaces, MAIN, FUN1, IDLE, Procs
  <2>8. CpuOwner
    <3>1. \A t \in Threads : pc[t] # "completed"
      BY <2>6 DEF Threads
    <3> QED BY <2>2, <2>3, <3>1 DEF CpuOwner, RUNNING, SLEEPING, BLOCKED, ZOMBIE
  <2>9. Waiters
    BY <2>2, <2>3 DEF Waiters, BlockedAreWaiting, Procs
  <2> QED BY <2>1, <2>4, <2>7, <2>8, <2>9 DEF IInv
<1>2. IInv /\ [Next]_vars => IInv'
  BY Invariance
<1> QED
  BY <1>1, <1>2, PTL DEF Spec

-----------------------------------------------------------------------------
(* The results                                                             *)

(* No PCB is ever on threadlist twice, on blockedlist twice or on both,    *)
(* and mainthread stays the head of threadlist: for any number of          *)
(* processes and any order of forks, waits, exits, kills and timer ticks.  *)
THEOREM ListsStaySound == Spec => []ListsWellFormed
<1>1. IInv => ListsWellFormed
  <2> SUFFICES ASSUME IInv PROVE ListsWellFormed
    OBVIOUS
  <2>1. threadlist \in Seq(Threads) /\ blockedlist \in Seq(Threads)
    BY DEF IInv, TypeOK
  <2>2. IsInjective(threadlist \o blockedlist)
    BY <2>1, ConcatInjective DEF IInv, SoundLists
  <2> QED BY <2>2 DEF IInv, SoundLists, ListsWellFormed
<1> QED
  BY <1>1, Inductive, PTL

(* The thread that has the CPU is listed and is the only RUNNING one.      *)
THEOREM CpuIsOwned == Spec => []OneRunning
<1>1. IInv => OneRunning
  <2> SUFFICES ASSUME IInv PROVE OneRunning
    OBVIOUS
  <2>1. Contains(threadlist, currentthread)
    BY ContainsRange DEF IInv, TypeOK, CpuOwner
  <2> QED BY <2>1 DEF IInv, CpuOwner, OneRunning, At
<1> QED
  BY <1>1, Inductive, PTL

(* Whoever is on blockedlist is inside sys_waitpid, waiting for another    *)
(* process.                                                                *)
THEOREM BlockedWait == Spec => []BlockedAreWaiting
<1>1. IInv => BlockedAreWaiting
  BY DEF IInv, Waiters
<1> QED
  BY <1>1, Inductive, PTL

(* What a step may do to a process that exists: not list it again, not let *)
(* it leave the end of thread_on_completion, and give it the CPU only if   *)
(* it was ready.                                                           *)
NoReturn(p) ==
  /\ p \in Range(threadlist') \cup Range(blockedlist') => p \in L
  /\ pc[p] = "completed" => pc'[p] = "completed"
  /\ currentthread' = p => currentthread = p \/ state[p] = SLEEPING

(* schedule() gives the CPU to another process only if that one was        *)
(* SLEEPING.                                                               *)
LEMMA ReadyOnly ==
  ASSUME IInv, NEW tl \in Seq(Threads), NEW st \in [Threads -> States],
         \A t \in Threads : t # currentthread => st[t] = state[t],
         NEW ack \in BOOLEAN, NEW svc \in BOOLEAN, Schedule(tl, st, ack, svc),
         NEW p \in Procs, currentthread' = p
  PROVE  currentthread = p \/ state[p] = SLEEPING
<1>1. currentthread \in Threads /\ eoi \in [Threads -> BOOLEAN]
  BY DEF IInv, TypeOK
<1>2. currentthread' = MAIN \/ st[currentthread'] = SLEEPING
  BY <1>1, ScheduleEffect
<1> QED
  BY <1>2 DEF Procs, Threads, MAIN

(* The end of interrupt_syscall brings back no process that has ended.     *)
LEMMA ReturnReady ==
  ASSUME IInv, NEW tl \in Seq(Threads), ReturnToUser(tl),
         pc[currentthread] \in UserPlaces, NEW p \in Procs
  PROVE  /\ pc[p] = "completed" => pc'[p] = "completed"
         /\ currentthread' = p => currentthread = p \/ state[p] = SLEEPING
<1>1. /\ state \in [Threads -> States] /\ pc \in [Threads -> Places]
      /\ isr \in BOOLEAN /\ p \in Threads
  BY DEF IInv, TypeOK, Threads
<1>2. pc' = [pc EXCEPT ![currentthread] = "user"] /\ Schedule(tl, state, TRUE, isr)
  BY DEF ReturnToUser
<1>3. pc[p] = "completed" => pc'[p] = "completed"
  BY <1>1, <1>2 DEF UserPlaces
<1> QED
  BY <1>1, <1>2, <1>3, ReadyOnly

(* create_thread brings back no process.                                   *)
LEMMA CreateNoReturn ==
  ASSUME IInv, NEW from, NEW t \in Threads, NEW to, Create(from, t, to),
         from # "completed", NEW p \in Procs, p # t
  PROVE  NoReturn(p)
<1>1. /\ pc[currentthread] = from /\ pc' = [pc EXCEPT ![currentthread] = to]
      /\ threadlist' = Append(threadlist, t)
      /\ UNCHANGED <<blockedlist, currentthread>>
  BY DEF Create, create_thread, At
<1>2. threadlist \in Seq(Threads) /\ pc \in [Threads -> Places] /\ p \in Threads
  BY DEF IInv, TypeOK, Threads
<1>3. Range(threadlist') = Range(threadlist) \cup {t}
  BY <1>1, <1>2, AppendKeepsInjective
<1> QED
  BY <1>1, <1>2, <1>3 DEF NoReturn, L

(* A kernel thread's call of schedule() brings back no process.            *)
LEMMA CallScheduleNoReturn ==
  ASSUME IInv, NEW from, NEW to, CallSchedule(from, to), from # "completed",
         NEW p \in Procs
  PROVE  NoReturn(p)
<1>1. /\ pc[currentthread] = from /\ pc' = [pc EXCEPT ![currentthread] = to]
      /\ threadlist' = threadlist /\ blockedlist' = blockedlist
      /\ Schedule(threadlist, state, FALSE, isr)
  BY DEF CallSchedule, At, lists
<1>2. /\ threadlist \in Seq(Threads) /\ pc \in [Threads -> Places] /\ p \in Threads
      /\ state \in [Threads -> States] /\ isr \in BOOLEAN
  BY DEF IInv, TypeOK, Threads
<1>3. currentthread' = p => currentthread = p \/ state[p] = SLEEPING
  BY <1>1, <1>2, ReadyOnly
<1> QED
  BY <1>1, <1>2, <1>3 DEF NoReturn, L

(* The end of a process brings back nobody: the parent it wakes was        *)
(* blocked, not gone.                                                      *)
LEMMA CompletionNoReturn ==
  ASSUME IInv, thread_on_completion, NEW p \in Procs
  PROVE  NoReturn(p)
<1>1. /\ pc' = [pc EXCEPT ![currentthread] = "completed"]
      /\ currentthread' = currentthread
  BY DEF thread_on_completion
<1>2. pc \in [Threads -> Places] /\ p \in Threads
  BY DEF IInv, TypeOK, Threads
<1> QED
  BY <1>1, <1>2, CompletionSound DEF NoReturn

(* Signal 9 brings back no process.                                        *)
LEMMA TerminateNoReturn ==
  ASSUME IInv, TypeOK', NEW q \in Procs, Terminate(q), pc[currentthread] \in UserPlaces,
         NEW p \in Procs
  PROVE  NoReturn(p)
<1>0. threadlist \in Seq(Threads) /\ blockedlist \in Seq(Threads) /\ threadlist' \in Seq(Threads)
  BY DEF IInv, TypeOK
<1>1. CASE thread_on_completion
  BY <1>1, CompletionNoReturn
<1>2. CASE ~thread_on_completion
  <2>1. /\ ReturnToUser(threadlist')
        /\ \/ threadlist' = threadlist
           \/ Contains(threadlist, q) /\ threadlist' = RemoveFirst(threadlist, q)
        /\ \/ blockedlist' = blockedlist
           \/ Contains(blockedlist, q) /\ blockedlist' = RemoveFirst(blockedlist, q)
    BY <1>2 DEF Terminate, lists
  <2>2. Range(threadlist') \subseteq Range(threadlist)
    BY <1>0, <2>1, ContainsRange, RemoveSound DEF IInv, SoundLists
  <2>3. Range(blockedlist') \subseteq Range(blockedlist)
    BY <1>0, <2>1, ContainsRange, RemoveSound DEF IInv, SoundLists
  <2> QED BY <1>0, <2>1, <2>2, <2>3, ReturnReady DEF NoReturn, L
<1> QED
  BY <1>1, <1>2

(* The loops that wait with interrupts on bring back no process.           *)
LEMMA SpinNoReturn ==
  ASSUME IInv, NEW place \in UserPlaces, StartSpin(place) \/ EndSpin(place),
         NEW p \in Procs
  PROVE  NoReturn(p)
<1>0. threadlist \in Seq(Threads) /\ pc \in [Threads -> Places] /\ p \in Threads
  BY DEF IInv, TypeOK, Threads
<1>1. CASE StartSpin(place)
  BY <1>0, <1>1 DEF StartSpin, At, lists, NoReturn, L
<1>2. CASE EndSpin(place)
  BY <1>0, <1>2, ReturnReady DEF EndSpin, At, lists, NoReturn, L
<1> QED
  BY <1>1, <1>2

(* No step brings back a process, and pids are only ever handed out.       *)
LEMMA NoReturnStep ==
  ASSUME IInv, [Next]_vars, NEW p \in Procs, p <= processcount
  PROVE  NoReturn(p) /\ processcount' >= processcount
<1>0. /\ TypeOK' /\ threadlist \in Seq(Threads) /\ pc \in [Threads -> Places] /\ p \in Threads
      /\ state \in [Threads -> States] /\ processcount \in Nat /\ isr \in BOOLEAN
      /\ currentthread \in Threads
  <2>1. TypeOK /\ TypeOK'
    BY TypeStep DEF IInv
  <2>2. /\ threadlist \in Seq(Threads) /\ pc \in [Threads -> Places]
        /\ state \in [Threads -> States] /\ processcount \in 0..MaxProc
        /\ isr \in BOOLEAN /\ currentthread \in Threads
    BY <2>1 DEF TypeOK
  <2>3. p \in Threads /\ processcount \in Nat
    BY <2>2 DEF Threads
  <2> QED BY <2>1, <2>2, <2>3
<1>1. CASE ContextSwitch
  <2>1. FUN1 \in Threads /\ p # FUN1
    BY ThreadNames DEF FUN1, Procs
  <2>2. NoReturn(p)
    BY <1>1, <2>1, CreateNoReturn, CallScheduleNoReturn DEF ContextSwitch
  <2>3. processcount' = processcount
    BY <1>1 DEF ContextSwitch, Create, CallSchedule
  <2> QED BY <1>0, <2>2, <2>3
<1>2. CASE Fun1
  <2>1. IDLE \in Threads /\ p # IDLE
    BY ThreadNames DEF IDLE, Procs
  <2>2. CASE Create("fun1_user", 1, "fun1_schedule")
    <3>1. pc[currentthread] = "fun1_user"
      BY <2>2 DEF Create, At
    <3>2. currentthread = FUN1
      BY <1>0, <3>1 DEF IInv, BootOrder, Threads, UserPlaces
    <3>3. processcount = 0
      BY <3>1, <3>2 DEF IInv, BootOrder
    <3> QED BY <3>3 DEF Procs
  <2>3. CASE Create("fun1", IDLE, "fun1_user")
    <3>1. NoReturn(p)
      BY <2>1, <2>3, CreateNoReturn
    <3>2. processcount' = processcount
      BY <2>3 DEF Create
    <3> QED BY <1>0, <3>1, <3>2
  <2>4. CASE CallSchedule("fun1_schedule", "fun1_return")
    <3>1. NoReturn(p)
      BY <2>4, CallScheduleNoReturn
    <3>2. processcount' = processcount
      BY <2>4 DEF CallSchedule
    <3> QED BY <1>0, <3>1, <3>2
  <2> QED BY <1>2, <2>2, <2>3, <2>4 DEF Fun1
<1>3. CASE IdleFunc
  <2>1. NoReturn(p)
    BY <1>3, CallScheduleNoReturn DEF IdleFunc
  <2>2. processcount' = processcount
    BY <1>3 DEF IdleFunc, CallSchedule
  <2> QED BY <1>0, <2>1, <2>2
<1>4. CASE UserProcess
  <2>1. pc[currentthread] = "user_process"
    BY <1>4 DEF UserProcess, At
  <2>2. currentthread = 1 /\ processcount = 0
    BY <1>0, <2>1 DEF IInv, BootOrder, Threads, UserPlaces
  <2> QED BY <2>2 DEF Procs
<1>5. CASE TimerInterrupt
  <2>1. /\ threadlist' = threadlist /\ blockedlist' = blockedlist
        /\ UNCHANGED <<processcount, pc>>
        /\ \/ Schedule(threadlist, state, TRUE, TRUE)
           \/ currentthread' = currentthread
    BY <1>5 DEF TimerInterrupt, lists
  <2>2. currentthread' = p => currentthread = p \/ state[p] = SLEEPING
    BY <1>0, <2>1, ReadyOnly
  <2> QED BY <1>0, <2>1, <2>2 DEF NoReturn, L
<1>6. CASE PageFault \/ Spin \/ sys_execvpe \/ UNCHANGED vars
  BY <1>0, <1>6 DEF PageFault, Spin, sys_execvpe, vars, lists, NoReturn, L
<1>7. CASE Exit
  BY <1>0, <1>7, CompletionNoReturn DEF Exit, thread_on_completion
<1>8. CASE sys_fork
  <2> DEFINE child == processcount + 1
  <2>1. /\ pc[currentthread] = "user" /\ processcount' = child /\ child <= MaxProc
        /\ threadlist' = InsertAt(threadlist, CurrentPosition + 1, child)
        /\ blockedlist' = blockedlist /\ ReturnToUser(threadlist')
    BY <1>8, Zenon DEF sys_fork, At, CurrentPosition
  <2>2. CurrentPosition \in 0..Len(threadlist) /\ child \in Threads /\ child # p
    <3>1. CurrentPosition \in 0..Len(threadlist)
      BY <1>0, CurrentPositionRange
    <3> QED BY <1>0, <2>1, <3>1 DEF Threads, Procs
  <2>3. threadlist' \in Seq(Threads)
    BY <1>0 DEF TypeOK
  <2>4. Range(threadlist') = Range(threadlist) \cup {child}
    <3> DEFINE j == CurrentPosition + 1
    <3>1. j \in 1..(Len(threadlist) + 1) /\ threadlist' = InsertAt(threadlist, j, child)
      BY <1>0, <2>1, <2>2
    <3> HIDE DEF j, child
    <3> QED BY <1>0, <2>2, <3>1, InsertKeepsInjective
  <2> QED
    BY <1>0, <2>1, <2>2, <2>3, <2>4, ReturnReady DEF NoReturn, L, UserPlaces
<1>9. ASSUME NEW q \in Procs, sys_waitpid(q)
      PROVE  NoReturn(p) /\ processcount' >= processcount
  <2> DEFINE st == [state EXCEPT ![currentthread] = BLOCKED]
  <2>1. /\ pc[currentthread] = "user" /\ processcount' = processcount
        /\ pc' = [pc EXCEPT ![currentthread] = "waitpid_return"]
        /\ \/ /\ threadlist' = RemoveFirst(threadlist, currentthread)
              /\ blockedlist' = <<currentthread>> \o blockedlist
              /\ Schedule(threadlist', st, FALSE, isr)
           \/ /\ threadlist' = threadlist /\ blockedlist' = blockedlist
              /\ Schedule(threadlist', st, FALSE, isr)
    BY <1>9, Zenon DEF sys_waitpid, At, lists
  <2>2. /\ st \in [Threads -> States] /\ threadlist' \in Seq(Threads)
        /\ \A t \in Threads : t # currentthread => st[t] = state[t]
    BY <1>0 DEF States, TypeOK
  <2> HIDE DEF st
  <2>3. currentthread' = p => currentthread = p \/ state[p] = SLEEPING
    BY <1>0, <2>1, <2>2, ReadyOnly
  <2>4. Range(threadlist') \cup Range(blockedlist') \subseteq L
    <3>1. CASE /\ threadlist' = RemoveFirst(threadlist, currentthread)
               /\ blockedlist' = <<currentthread>> \o blockedlist
      <4>1. /\ currentthread \in Range(threadlist) /\ currentthread \notin Range(blockedlist)
            /\ IsInjective(threadlist) /\ IsInjective(blockedlist)
            /\ blockedlist \in Seq(Threads)
        BY DEF IInv, TypeOK, CpuOwner, SoundLists
      <4>2. Range(threadlist') = Range(threadlist) \ {currentthread}
        BY <1>0, <3>1, <4>1, RemoveSound
      <4>3. Range(blockedlist') = {currentthread} \cup Range(blockedlist)
        BY <1>0, <3>1, <4>1, PrependKeepsInjective
      <4> QED BY <4>1, <4>2, <4>3 DEF L
    <3>2. CASE threadlist' = threadlist /\ blockedlist' = blockedlist
      BY <3>2 DEF L
    <3> QED BY <2>1, <3>1, <3>2
  <2> QED BY <1>0, <2>1, <2>3, <2>4 DEF NoReturn
<1>10. CASE WaitpidReturn \/ OtherSyscall
  <2>1. /\ pc[currentthread] \in UserPlaces /\ ReturnToUser(threadlist)
        /\ threadlist' = threadlist /\ blockedlist' = blockedlist
        /\ processcount' = processcount
    BY <1>10 DEF WaitpidReturn, OtherSyscall, At, UserPlaces, lists
  <2> QED BY <1>0, <2>1, ReturnReady DEF NoReturn, L
<1>11. {"user", "read", "sleep", "confirm"} \subseteq UserPlaces
  BY DEF UserPlaces
<1>12. CASE sys_read \/ sys_sleep
  BY <1>0, <1>11, <1>12, SpinNoReturn DEF sys_read, sys_sleep, StartSpin, EndSpin
<1>13. ASSUME NEW q \in Procs, sys_kill(q)
       PROVE  NoReturn(p) /\ processcount' >= processcount
  <2>1. CASE Terminate(q) /\ pc[currentthread] \in UserPlaces
    <3>1. processcount' = processcount
      BY <2>1 DEF Terminate, thread_on_completion
    <3> QED BY <1>0, <2>1, <3>1, TerminateNoReturn
  <2>2. CASE StartSpin("confirm") \/ EndSpin("confirm")
    BY <1>0, <1>11, <2>2, SpinNoReturn DEF StartSpin, EndSpin
  <2> QED BY <1>11, <1>13, <2>1, <2>2 DEF sys_kill, At
<1> QED
  BY <1>1, <1>2, <1>3, <1>4, <1>5, <1>6, <1>7, <1>8, <1>9, <1>10, <1>12, <1>13 DEF Next

(* A process that has ended, was killed, or was dropped from blockedlist   *)
(* never comes back: not on a list, not out of ZOMBIE, not onto the CPU.   *)
THEOREM GoneStaysGone == Spec => GoneIsForever
<1>1. IInv /\ IInv' /\ [Next]_vars =>
        [\A p \in Procs : Gone(p) =>
           /\ Gone(p)'
           /\ currentthread' = p => currentthread = p]_vars
  <2> SUFFICES ASSUME IInv, IInv', [Next]_vars, NEW p \in Procs, Gone(p)
               PROVE  /\ Gone(p)'
                      /\ currentthread' = p => currentthread = p
    OBVIOUS
  <2>1. /\ p <= processcount /\ p \in Threads /\ p # MAIN /\ p \in Nat
        /\ processcount \in Nat /\ processcount' \in Nat
    BY DEF Gone, IInv, TypeOK, Threads, Procs, MAIN
  <2>2. Listed(p) <=> p \in L
    BY ContainsRange DEF IInv, TypeOK, Listed, L
  <2>3. Listed(p)' <=> p \in L'
    BY ContainsRange DEF IInv, TypeOK, Listed, L
  <2>4. NoReturn(p) /\ processcount' >= processcount
    BY <2>1, NoReturnStep
  <2>5. state[p] = ZOMBIE => state'[p] = ZOMBIE
    BY <2>1, <2>4 DEF IInv, CpuOwner, NoReturn
  <2>6. p \notin L => p \notin L'
    BY <2>4 DEF NoReturn, L
  <2>7. Gone(p)'
    BY <2>1, <2>2, <2>3, <2>4, <2>5, <2>6 DEF Gone
  <2>8. currentthread' = p => p \in L'
    BY DEF IInv, CpuOwner, L
  <2> QED
    BY <2>2, <2>4, <2>6, <2>7, <2>8 DEF Gone, NoReturn, SLEEPING, ZOMBIE
<1> QED
  BY <1>1, Inductive, PTL DEF Spec, GoneIsForever

-----------------------------------------------------------------------------
(* The interrupt controller                                                *)

(* The code a process runs between two calls of schedule() in which nobody *)
(* acknowledges the PIC again.                                             *)
CallPlaces == {"user", "read", "sleep", "confirm", "completed"}

(* A process suspended there will acknowledge once it is resumed; one that *)
(* runs there has no interrupt in service, process 1 before its first fork *)
(* excepted.                                                               *)
PicReady ==
  \A p \in Procs : pc[p] \in CallPlaces =>
    /\ p # currentthread => eoi[p]
    /\ p = currentthread /\ isr => processcount = 1

(* A step that ends in schedule() keeps PicReady, if it leaves a caller in *)
(* such code only with an acknowledge to come.                             *)
LEMMA SchedulePic ==
  ASSUME TypeOK, PicReady, NEW tl, NEW st, NEW ack \in BOOLEAN, NEW svc \in BOOLEAN,
         Schedule(tl, st, ack, svc),
         \A t \in Threads : t # currentthread => pc'[t] = pc[t],
         currentthread \in Procs => ack \/ pc'[currentthread] \notin CallPlaces
  PROVE  PicReady'
<1>1. /\ currentthread \in Threads /\ eoi \in [Threads -> BOOLEAN]
      /\ Procs \subseteq Threads
  BY DEF TypeOK, Threads
<1>2. /\ eoi' = [eoi EXCEPT ![currentthread] = ack]
      /\ isr' = (svc /\ ~eoi'[currentthread'])
  BY DEF Schedule
<1> SUFFICES ASSUME NEW p \in Procs, pc'[p] \in CallPlaces
             PROVE  eoi'[p] /\ ~(p = currentthread' /\ isr')
  BY DEF PicReady
<1>3. eoi'[p]
  <2>1. CASE p = currentthread
    BY <1>1, <1>2, <2>1
  <2>2. CASE p # currentthread
    <3>1. pc[p] \in CallPlaces
      BY <1>1, <2>2
    <3>2. eoi[p]
      BY <2>2, <3>1 DEF PicReady
    <3> QED BY <1>1, <1>2, <2>2, <3>2
  <2> QED BY <2>1, <2>2
<1>4. p = currentthread' => ~isr'
  BY <1>2, <1>3
<1> QED
  BY <1>3, <1>4

(* A step without schedule() keeps it, if only the running process moves   *)
(* within such code.                                                       *)
LEMMA QuietPic ==
  ASSUME PicReady, UNCHANGED <<currentthread, eoi, processcount>>, isr' => isr,
         \A p \in Procs : pc'[p] \in CallPlaces => pc[p] \in CallPlaces
  PROVE  PicReady'
BY DEF PicReady

(* The end of a thread keeps PicReady.                                     *)
LEMMA CompletionPic ==
  ASSUME IInv, PicReady, thread_on_completion,
         pc[currentthread] \in {"user", "confirm", "fun1_return"}
  PROVE  PicReady'
<1>1. /\ pc' = [pc EXCEPT ![currentthread] = "completed"]
      /\ UNCHANGED <<currentthread, eoi, isr, processcount>>
  BY DEF thread_on_completion, pic
<1>2. pc \in [Threads -> Places] /\ currentthread \in Threads /\ Procs \subseteq Threads
  BY DEF IInv, TypeOK, Threads
<1>3. pc[currentthread] = "fun1_return" => currentthread \notin Procs
  BY DEF IInv, BootOrder, UserPlaces
<1>4. ASSUME NEW p \in Procs, pc'[p] \in CallPlaces
      PROVE  pc[p] \in CallPlaces
  <2>1. CASE p = currentthread
    BY <1>3, <2>1 DEF CallPlaces
  <2>2. CASE p # currentthread
    BY <1>1, <1>2, <1>4, <2>2
  <2> QED BY <2>1, <2>2
<1> QED
  BY <1>1, <1>4, QuietPic

(* The end of interrupt_syscall keeps PicReady.                            *)
LEMMA ReturnPic ==
  ASSUME IInv, PicReady, NEW tl, ReturnToUser(tl)
  PROVE  PicReady'
<1>1. TypeOK /\ isr \in BOOLEAN /\ pc \in [Threads -> Places]
  BY DEF IInv, TypeOK
<1>2. pc' = [pc EXCEPT ![currentthread] = "user"] /\ Schedule(tl, state, TRUE, isr)
  BY DEF ReturnToUser
<1>3. \A t \in Threads : t # currentthread => pc'[t] = pc[t]
  BY <1>1, <1>2
<1> QED
  BY <1>1, <1>2, <1>3, SchedulePic

(* The steps of kernel threads keep PicReady.                              *)
LEMMA KernelThreadPic ==
  ASSUME IInv, PicReady, ContextSwitch \/ Fun1 \/ IdleFunc
  PROVE  PicReady'
<1>0. /\ TypeOK /\ pc \in [Threads -> Places] /\ isr \in BOOLEAN
      /\ currentthread \in Threads /\ Procs \subseteq Threads
  BY DEF IInv, TypeOK, Threads
<1>1. pc[currentthread] \in {"context_switch", "main_schedule", "fun1", "fun1_user",
                              "fun1_schedule", "idle_func"}
  BY DEF ContextSwitch, Fun1, IdleFunc, Create, CallSchedule, At
<1>2. currentthread \notin Procs
  BY <1>1 DEF IInv, BootOrder, UserPlaces
<1>3. \E to : pc' = [pc EXCEPT ![currentthread] = to]
  BY DEF ContextSwitch, Fun1, IdleFunc, Create, CallSchedule
<1>4. \A t \in Threads : t # currentthread => pc'[t] = pc[t]
  BY <1>0, <1>3
<1>5. \A p \in Procs : pc'[p] = pc[p]
  BY <1>0, <1>2, <1>4
<1>6. CASE Schedule(threadlist, state, FALSE, isr)
  BY <1>0, <1>2, <1>4, <1>6, SchedulePic
<1>7. CASE UNCHANGED <<currentthread, processcount, eoi, isr>>
  BY <1>5, <1>7, QuietPic
<1> QED
  BY <1>6, <1>7 DEF ContextSwitch, Fun1, IdleFunc, Create, CallSchedule, pic

(* Every step keeps PicReady.                                              *)
LEMMA PicStep ==
  ASSUME IInv, PicReady, [Next]_vars
  PROVE  PicReady'
<1>0. /\ TypeOK /\ pc \in [Threads -> Places] /\ isr \in BOOLEAN
      /\ currentthread \in Threads /\ Procs \subseteq Threads
  BY DEF IInv, TypeOK, Threads
<1>1. CASE ContextSwitch \/ Fun1 \/ IdleFunc
  BY <1>1, KernelThreadPic
<1>2. CASE UserProcess
  <2>1. /\ pc[currentthread] = "user_process" /\ processcount' = 1
        /\ pc' = [pc EXCEPT ![currentthread] = "user"]
        /\ UNCHANGED <<currentthread, eoi, isr>>
    BY <1>2 DEF UserProcess, At, pic
  <2>2. \A p \in Procs : p # currentthread => pc'[p] = pc[p]
    BY <1>0, <2>1
  <2> QED BY <2>1, <2>2 DEF PicReady
<1>3. CASE TimerInterrupt
  <2>1. /\ pc' = pc /\ processcount' = processcount
        /\ \/ Schedule(threadlist, state, TRUE, TRUE)
           \/ UNCHANGED <<currentthread, eoi, isr>>
    BY <1>3 DEF TimerInterrupt, pic
  <2>2. CASE Schedule(threadlist, state, TRUE, TRUE)
    BY <1>0, <2>1, <2>2, SchedulePic
  <2>3. CASE UNCHANGED <<currentthread, eoi, isr>>
    BY <2>1, <2>3, QuietPic
  <2> QED BY <2>1, <2>2, <2>3
<1>4. CASE PageFault \/ Spin \/ sys_execvpe \/ UNCHANGED vars
  <2>1. UNCHANGED <<currentthread, eoi, processcount, pc>> /\ (isr' => isr)
    BY <1>4 DEF PageFault, Spin, sys_execvpe, vars
  <2> QED BY <2>1, QuietPic
<1>5. CASE Exit
  BY <1>5, CompletionPic DEF Exit, At
<1>6. CASE sys_fork
  <2>1. \E tl : ReturnToUser(tl)
    BY <1>6, Zenon DEF sys_fork
  <2> QED BY <2>1, ReturnPic
<1>7. ASSUME NEW p \in Procs, sys_waitpid(p)
      PROVE  PicReady'
  <2>1. /\ pc' = [pc EXCEPT ![currentthread] = "waitpid_return"]
        /\ \E tl, st : Schedule(tl, st, FALSE, isr)
    BY <1>7, Zenon DEF sys_waitpid
  <2>2. PICK tl, st : Schedule(tl, st, FALSE, isr)
    BY <2>1
  <2>3. /\ \A t \in Threads : t # currentthread => pc'[t] = pc[t]
        /\ pc'[currentthread] \notin CallPlaces
    BY <1>0, <2>1 DEF CallPlaces
  <2> QED BY <1>0, <2>2, <2>3, SchedulePic
<1>8. CASE WaitpidReturn \/ OtherSyscall
  BY <1>8, ReturnPic DEF WaitpidReturn, OtherSyscall
<1>9. ASSUME NEW place \in CallPlaces, StartSpin(place) \/ EndSpin(place)
      PROVE  PicReady'
  <2>1. CASE StartSpin(place)
    <3>1. /\ pc[currentthread] = "user" /\ pc' = [pc EXCEPT ![currentthread] = place]
          /\ UNCHANGED <<currentthread, eoi, isr, processcount>>
      BY <2>1 DEF StartSpin, At, pic
    <3>2. \A p \in Procs : pc'[p] \in CallPlaces => pc[p] \in CallPlaces
      BY <1>0, <3>1 DEF CallPlaces
    <3> QED BY <3>1, <3>2, QuietPic
  <2>2. CASE EndSpin(place)
    BY <2>2, ReturnPic DEF EndSpin
  <2> QED BY <1>9, <2>1, <2>2
<1>10. {"read", "sleep", "confirm"} \subseteq CallPlaces
  BY DEF CallPlaces
<1>11. CASE sys_read \/ sys_sleep
  BY <1>9, <1>10, <1>11 DEF sys_read, sys_sleep
<1>12. ASSUME NEW p \in Procs, sys_kill(p)
       PROVE  PicReady'
  <2>1. CASE StartSpin("confirm") \/ EndSpin("confirm")
    BY <1>9, <1>10, <2>1
  <2>2. CASE Terminate(p) /\ pc[currentthread] \in {"user", "confirm"}
    BY <2>2, CompletionPic, ReturnPic DEF Terminate
  <2> QED BY <1>12, <2>1, <2>2 DEF sys_kill, At
<1> QED
  BY <1>1, <1>2, <1>3, <1>4, <1>5, <1>6, <1>7, <1>8, <1>11, <1>12 DEF Next

(* A thread loops in thread_on_completion with the timer interrupt         *)
(* unacknowledged only during boot: for any number of processes, any slice *)
(* and any content of reused memory, fun1 and process 1 before its first   *)
(* fork are the only ones that can stop the timer.                         *)
THEOREM TimerStopsOnlyAtBoot == Spec => []PicStuckOnlyAtBoot
<1>1. Init => PicReady
  <2> SUFFICES ASSUME Init, NEW p \in Procs PROVE pc[p] \notin CallPlaces
    BY DEF PicReady
  <2>1. p \in Threads /\ p # MAIN /\ p # FUN1 /\ p # IDLE
    BY DEF Procs, Threads, MAIN, FUN1, IDLE
  <2>2. pc[p] = CASE p = MAIN -> "context_switch"
                  [] p = FUN1 -> "fun1"
                  [] p = IDLE -> "idle_func"
                  [] p = 1 -> "user_process"
                  [] OTHER -> "waitpid_return"
    BY <2>1, Zenon DEF Init
  <2>3. pc[p] = "user_process" \/ pc[p] = "waitpid_return"
    BY <2>1, <2>2
  <2> QED BY <2>3 DEF CallPlaces
<1>2. IInv /\ PicReady /\ [Next]_vars => PicReady'
  BY PicStep
<1>3. IInv /\ PicReady => PicStuckOnlyAtBoot
  <2> SUFFICES ASSUME IInv, PicReady, isr, pc[currentthread] = "completed"
               PROVE  currentthread = FUN1 \/ processcount = 1
    BY DEF PicStuckOnlyAtBoot, At
  <2>1. currentthread \in Threads
    BY DEF IInv, TypeOK
  <2>2. currentthread = FUN1 \/ currentthread \in Procs
    BY <2>1 DEF IInv, BootOrder, Threads
  <2> QED BY <2>2 DEF PicReady, CallPlaces
<1> QED
  BY <1>1, <1>2, <1>3, Inductive, PTL DEF Spec

-----------------------------------------------------------------------------
(* Waiting for a child                                                     *)

(* A blocked process waits for a child of its own that is marked, and a    *)
(* mark on a process that still runs means that its parent, if it is still *)
(* listed, is blocked waiting for that very process.  Kernel threads have  *)
(* no parent.                                                              *)
WaitLinks ==
  /\ \A q \in Range(blockedlist) : ppid[waitfor[q]] = q /\ is_wait[waitfor[q]] = 1
  /\ \A p \in Procs :
       (/\ p <= processcount /\ p \in L /\ pc[p] # "completed"
        /\ is_wait[p] = 1 /\ ppid[p] \in L)
       => ppid[p] \in Range(blockedlist) /\ waitfor[ppid[p]] = p
  /\ \A t \in {MAIN, FUN1, IDLE} : ppid[t] = 0

(* What all steps but fork, waitpid, the end of a process and booting      *)
(* leave alone.                                                            *)
KeepsLinks ==
  /\ UNCHANGED <<ppid, is_wait, processcount>>
  /\ Range(threadlist') \subseteq Range(threadlist)
  /\ Range(blockedlist') \subseteq Range(blockedlist)
  /\ \A q \in Range(blockedlist) : waitfor'[q] = waitfor[q]
  /\ \A p \in Procs : pc'[p] = "completed" <=> pc[p] = "completed"

(* A step that ends no process and wakes nobody.                           *)
Calm ==
  /\ Range(threadlist') \cap Range(blockedlist) = {}
  /\ \A p \in Procs : pc'[p] = "completed" <=> pc[p] = "completed"

(* A step that leaves the links alone keeps them.                          *)
LEMMA LinksKept ==
  ASSUME IInv, WaitLinks, KeepsLinks
  PROVE  WaitLinks' /\ Calm
<1>1. Range(threadlist) \cap Range(blockedlist) = {}
  BY DEF IInv, SoundLists
<1>2. Calm
  BY <1>1 DEF Calm, KeepsLinks
<1>3. \A q \in Range(blockedlist') : ppid'[waitfor'[q]] = q /\ is_wait'[waitfor'[q]] = 1
  BY DEF WaitLinks, KeepsLinks
<1>4. ASSUME NEW p \in Procs, p <= processcount', p \in L', pc'[p] # "completed",
             is_wait'[p] = 1, ppid'[p] \in L'
      PROVE  ppid'[p] \in Range(blockedlist') /\ waitfor'[ppid'[p]] = p
  <2>1. /\ p <= processcount /\ p \in L /\ pc[p] # "completed"
        /\ is_wait[p] = 1 /\ ppid[p] \in L /\ ppid'[p] = ppid[p]
    BY <1>4 DEF KeepsLinks, L
  <2>2. ppid[p] \in Range(blockedlist) /\ waitfor[ppid[p]] = p
    BY <2>1 DEF WaitLinks
  <2>3. ppid[p] \in Range(blockedlist')
    BY <1>1, <1>4, <2>1, <2>2 DEF L, KeepsLinks
  <2> QED BY <2>1, <2>2, <2>3 DEF KeepsLinks
<1>5. \A t \in {MAIN, FUN1, IDLE} : ppid'[t] = 0
  BY DEF WaitLinks, KeepsLinks
<1> QED
  BY <1>2, <1>3, <1>4, <1>5 DEF WaitLinks

(* The pids handed out are processes, and the next one is new.             *)
LEMMA PidsHandedOut ==
  ASSUME TypeOK, NEW i \in 1..processcount
  PROVE  i \in Procs /\ i \in Threads /\ i # processcount + 1
<1>1. processcount \in Int /\ processcount <= MaxProc
  BY DEF TypeOK
<1>2. i \in Int /\ 1 <= i /\ i <= processcount
  BY <1>1
<1>3. i \in Procs
  BY <1>1, <1>2, MaxProcAssumption DEF Procs
<1> QED
  BY <1>1, <1>2, <1>3 DEF Threads

(* A blocked process is one that has its pid.                              *)
LEMMA BlockedHavePids ==
  ASSUME IInv, NEW q \in Range(blockedlist)
  PROVE  q \in Procs /\ q \in Threads /\ q <= processcount /\ Pid(q) = q /\ q # 0
<1>1. q \in Threads /\ processcount \in 0..MaxProc
  BY SoundListsMain DEF IInv, TypeOK
<1>2. pc[q] = "waitpid_return" /\ waitfor[q] \in 1..processcount
  BY DEF IInv, Waiters, BlockedAreWaiting
<1>3. q \in Procs
  BY <1>1, <1>2 DEF IInv, BootOrder, Threads
<1>4. q = 1 \/ q <= processcount
  BY <1>3 DEF IInv, BootOrder, L
<1>5. 1 <= processcount
  BY <1>1, <1>2
<1> QED
  BY <1>1, <1>3, <1>4, <1>5 DEF Pid, Procs

(* thread_on_completion wakes a process only if that one waits for the     *)
(* process that ends, and puts nobody else back.                           *)
LEMMA WakesOnlyWaiter ==
  ASSUME IInv, WaitLinks, thread_on_completion,
         pc[currentthread] \in UserPlaces \cup {"fun1_return"}
  PROVE  \/ threadlist' = threadlist /\ blockedlist' = blockedlist
         \/ \E q \in Range(blockedlist) :
              /\ waitfor[q] = currentthread
              /\ Range(threadlist') = Range(threadlist) \cup {q}
              /\ Range(blockedlist') \subseteq Range(blockedlist)
<1> DEFINE me == currentthread
           st == [state EXCEPT ![me] = ZOMBIE]
           at == WakePosition(me, st)
           b == BlockedParent
<1>0. /\ me \in Threads /\ threadlist \in Seq(Threads) /\ blockedlist \in Seq(Threads)
      /\ processcount \in 0..MaxProc
  BY DEF IInv, TypeOK
<1>1. at \in 0..Len(threadlist) /\ b \in 0..Len(blockedlist)
  BY <1>0, WakePositionRange, BlockedParentRange
<1>2. \/ /\ at # 0 /\ b # 0
         /\ threadlist' = InsertAt(threadlist, at + 1, blockedlist[b])
         /\ blockedlist' = SubSeq(blockedlist, b + 1, Len(blockedlist))
      \/ threadlist' = threadlist /\ blockedlist' = blockedlist
  BY Zenon DEF thread_on_completion, BlockedParent, DropThrough, lists
<1>3. at # 0 => ppid[me] # 0 /\ is_wait[me] = 1
  BY Zenon DEF WakePosition
<1>4. b # 0 => Pid(blockedlist[b]) = ppid[me]
  <2> DEFINE I == {i \in 1..Len(blockedlist) : Pid(blockedlist[i]) = ppid[currentthread]}
  <2>1. BlockedParent = IF I # {} THEN Min(I) ELSE 0
    BY DEF BlockedParent, SelectInSeq
  <2>2. Len(blockedlist) \in Nat /\ I \in SUBSET (1..Len(blockedlist))
    BY <1>0
  <2>3. \A i \in I : Pid(blockedlist[i]) = ppid[currentthread]
    OBVIOUS
  <2> HIDE DEF I
  <2>4. b # 0 => b \in I
    BY <2>1, <2>2, FirstIndex
  <2> QED BY <2>3, <2>4
<1> HIDE DEF at, b
<1>5. ASSUME at # 0, b # 0,
             threadlist' = InsertAt(threadlist, at + 1, blockedlist[b]),
             blockedlist' = SubSeq(blockedlist, b + 1, Len(blockedlist))
      PROVE  \E q \in Range(blockedlist) :
              /\ waitfor[q] = currentthread
              /\ Range(threadlist') = Range(threadlist) \cup {q}
              /\ Range(blockedlist') \subseteq Range(blockedlist)
  <2> DEFINE e == blockedlist[b]
  <2>1. b \in 1..Len(blockedlist) /\ at + 1 \in 1..(Len(threadlist) + 1)
    BY <1>0, <1>1, <1>5
  <2>2. e \in Range(blockedlist)
    BY <1>0, <2>1 DEF Range
  <2>3. e \in Procs /\ e \in Threads /\ Pid(e) = e
    BY <2>2, BlockedHavePids
  <2>4. ppid[me] = e
    BY <1>4, <1>5, <2>3
  <2>5. me \in Procs /\ me <= processcount
    <3>1. me # FUN1
      BY <1>3, <1>5 DEF WaitLinks
    <3>2. pc[me] # "fun1_return"
      BY <1>0, <3>1 DEF IInv, BootOrder, Threads, UserPlaces
    <3> QED BY <3>2, UserHasPid
  <2>6. me \in L /\ e \in L /\ pc[me] # "completed"
    BY <2>2 DEF IInv, CpuOwner, L, UserPlaces
  <2>7. waitfor[e] = me
    BY <1>3, <1>5, <2>4, <2>5, <2>6 DEF WaitLinks
  <2>8. Range(threadlist') = Range(threadlist) \cup {e}
    <3> DEFINE j == at + 1
    <3>1. j \in 1..(Len(threadlist) + 1) /\ threadlist' = InsertAt(threadlist, j, e)
      BY <1>5, <2>1
    <3> HIDE DEF j, e
    <3> QED BY <1>0, <2>3, <3>1, InsertKeepsInjective
  <2>9. Range(blockedlist') \subseteq Range(blockedlist)
    BY CompletionSound
  <2> HIDE DEF e
  <2> QED BY <2>2, <2>7, <2>8, <2>9
<1> QED
  BY <1>2, <1>5

(* The process that ends puts its parent back on threadlist, if that one   *)
(* is blocked waiting for it.                                              *)
LEMMA WakesWaiter ==
  ASSUME IInv, WaitLinks, thread_on_completion,
         NEW q \in Range(blockedlist), waitfor[q] = currentthread
  PROVE  q \in Range(threadlist')
<1> DEFINE me == currentthread
           st == [state EXCEPT ![me] = ZOMBIE]
           at == WakePosition(me, st)
           b == BlockedParent
<1>0. /\ me \in Threads /\ threadlist \in Seq(Threads) /\ blockedlist \in Seq(Threads)
      /\ processcount \in 0..MaxProc /\ state \in [Threads -> States]
  BY DEF IInv, TypeOK
<1>1. ppid[me] = q /\ is_wait[me] = 1
  BY DEF WaitLinks
<1>2. q \in Procs /\ q \in Threads /\ q <= processcount /\ Pid(q) = q /\ q # 0
  BY BlockedHavePids
<1>3. at \in 0..Len(threadlist) /\ b \in 0..Len(blockedlist)
  BY <1>0, WakePositionRange, BlockedParentRange
<1>4. b # 0 /\ Pid(blockedlist[b]) = q
  <2> DEFINE I == {i \in 1..Len(blockedlist) : Pid(blockedlist[i]) = ppid[currentthread]}
  <2>1. BlockedParent = IF I # {} THEN Min(I) ELSE 0
    BY DEF BlockedParent, SelectInSeq
  <2>2. Len(blockedlist) \in Nat /\ I \in SUBSET (1..Len(blockedlist))
    BY <1>0
  <2>3. \A i \in I : Pid(blockedlist[i]) = q
    BY <1>1
  <2>4. I # {}
    <3>1. PICK i \in 1..Len(blockedlist) : blockedlist[i] = q
      BY <1>0 DEF Range
    <3> QED BY <1>1, <1>2, <3>1
  <2> HIDE DEF I
  <2>5. b # 0 /\ b \in I
    BY <2>1, <2>2, <2>4, FirstIndex
  <2> QED BY <2>3, <2>5
<1>5. blockedlist[b] = q
  <2>1. b \in 1..Len(blockedlist)
    BY <1>0, <1>3, <1>4
  <2>2. blockedlist[b] \in Range(blockedlist)
    BY <1>0, <2>1 DEF Range
  <2>3. Pid(blockedlist[b]) = blockedlist[b]
    BY <2>2, BlockedHavePids
  <2> QED BY <1>4, <2>3
<1>6. at # 0
  <2> DEFINE S == {i \in 1..Len(threadlist) :
                    /\ st[threadlist[i]] # ZOMBIE /\ threadlist[i] # me
                    /\ ppid[threadlist[i]] = ppid[me]}
             sibling == IF S # {} THEN Min(S) ELSE 0
             O == {i \in 1..Len(threadlist) : threadlist[i] = me}
             own == IF O # {} THEN Min(O) ELSE 0
  <2>1. at = IF ppid[me] = 0 \/ is_wait[me] # 1 THEN 0
             ELSE IF sibling = 0 THEN own
             ELSE IF is_wait[threadlist[sibling]] # 1 THEN sibling ELSE 0
    BY Zenon DEF WakePosition, SelectInSeq
  <2>2. /\ Len(threadlist) \in Nat /\ S \in SUBSET (1..Len(threadlist))
        /\ O \in SUBSET (1..Len(threadlist))
    BY <1>0
  <2>3. O # {}
    <3>1. me \in Range(threadlist)
      BY DEF IInv, CpuOwner
    <3> QED BY <1>0, <3>1 DEF Range
  <2>4. ASSUME NEW i \in S
        PROVE  is_wait[threadlist[i]] # 1
    <3> DEFINE s == threadlist[i]
    <3>1. /\ i \in 1..Len(threadlist) /\ s \in Threads /\ s \in Range(threadlist)
          /\ s # me /\ ppid[s] = q /\ st[s] # ZOMBIE
      BY <1>0, <1>1 DEF Range
    <3> HIDE DEF s
    <3>2. s \in Procs
      BY <1>2, <3>1 DEF WaitLinks, Threads
    <3>3. s \in L /\ q \in L
      BY <3>1 DEF L
    <3>4. s <= processcount
      BY <1>0, <1>2, <3>2, <3>3 DEF IInv, BootOrder, Procs
    <3>5. pc[s] # "completed"
      <4>1. state[s] # ZOMBIE /\ s # MAIN
        BY <1>0, <3>1, <3>2 DEF Procs, MAIN
      <4> QED BY <3>1, <4>1 DEF IInv, CpuOwner
    <3>6. is_wait[s] = 1 => waitfor[q] = s
      BY <3>1, <3>2, <3>3, <3>4, <3>5 DEF WaitLinks
    <3>7. is_wait[s] # 1
      BY <3>1, <3>6
    <3> QED BY <3>7 DEF s
  <2>5. sibling # 0 => sibling \in S
    <3> HIDE DEF S
    <3> QED BY <2>2, FirstIndex
  <2>6. own # 0
    <3> HIDE DEF O
    <3> QED BY <2>2, <2>3, FirstIndex
  <2> HIDE DEF S, O, own, sibling, at
  <2> QED BY <1>1, <1>2, <2>1, <2>4, <2>5, <2>6
<1>7. threadlist' = InsertAt(threadlist, at + 1, q)
  <2>1. \/ /\ at # 0 /\ b # 0
           /\ threadlist' = InsertAt(threadlist, at + 1, blockedlist[b])
        \/ at = 0 \/ b = 0
    BY Zenon DEF thread_on_completion, BlockedParent
  <2> HIDE DEF at, b
  <2> QED BY <1>4, <1>5, <1>6, <2>1
<1> DEFINE j == at + 1
<1>8. j \in 1..(Len(threadlist) + 1) /\ threadlist' = InsertAt(threadlist, j, q)
  <2> HIDE DEF at
  <2> QED BY <1>0, <1>3, <1>6, <1>7
<1> HIDE DEF j
<1>9. Range(InsertAt(threadlist, j, q)) = Range(threadlist) \cup {q}
  BY <1>0, <1>2, <1>8, InsertKeepsInjective
<1> QED
  BY <1>8, <1>9

(* The end of a process keeps the links: the parent it wakes has no other  *)
(* marked child.                                                           *)
LEMMA CompletionLinks ==
  ASSUME IInv, WaitLinks, thread_on_completion,
         pc[currentthread] \in UserPlaces \cup {"fun1_return"}
  PROVE  WaitLinks'
<1>0. pc \in [Threads -> Places] /\ currentthread \in Threads /\ Procs \subseteq Threads
  BY DEF IInv, TypeOK, Threads
<1>1. /\ pc' = [pc EXCEPT ![currentthread] = "completed"]
      /\ UNCHANGED <<ppid, is_wait, processcount, waitfor>>
  BY DEF thread_on_completion
<1>2. /\ Range(blockedlist') \subseteq Range(blockedlist)
      /\ Range(threadlist') \cup Range(blockedlist') \subseteq L
      /\ Range(threadlist) \cap Range(blockedlist) = {}
  BY CompletionSound DEF IInv, SoundLists
<1>3. \A q \in Range(blockedlist') : ppid'[waitfor'[q]] = q /\ is_wait'[waitfor'[q]] = 1
  BY <1>1, <1>2 DEF WaitLinks
<1>4. ASSUME NEW p \in Procs, p <= processcount', p \in L', pc'[p] # "completed",
             is_wait'[p] = 1, ppid'[p] \in L'
      PROVE  ppid'[p] \in Range(blockedlist') /\ waitfor'[ppid'[p]] = p
  <2>1. p # currentthread /\ pc[p] # "completed"
    BY <1>0, <1>1, <1>4
  <2>2. p \in L /\ ppid[p] \in L /\ ppid'[p] = ppid[p]
    BY <1>1, <1>2, <1>4 DEF L
  <2>3. ppid[p] \in Range(blockedlist) /\ waitfor[ppid[p]] = p
    BY <1>1, <1>4, <2>1, <2>2 DEF WaitLinks
  <2>4. ppid[p] \in Range(blockedlist')
    <3>1. ppid[p] \in Range(threadlist') \cup Range(blockedlist')
      BY <1>4, <2>2 DEF L
    <3>2. CASE threadlist' = threadlist /\ blockedlist' = blockedlist
      BY <2>3, <3>2
    <3>3. ASSUME NEW q \in Range(blockedlist), waitfor[q] = currentthread,
                 Range(threadlist') = Range(threadlist) \cup {q}
          PROVE  ppid[p] \in Range(blockedlist')
      BY <1>2, <2>1, <2>3, <3>1, <3>3
    <3> QED BY <3>2, <3>3, WakesOnlyWaiter
  <2> QED BY <1>1, <2>2, <2>3, <2>4
<1> QED
  BY <1>1, <1>3, <1>4 DEF WaitLinks

(* sys_fork keeps the links: the new PCB carries no mark, since its page   *)
(* was never used.                                                         *)
LEMMA ForkLinks ==
  ASSUME 1 \notin StaleWords, IInv, WaitLinks, sys_fork
  PROVE  WaitLinks' /\ Calm
<1> DEFINE child == processcount + 1
<1>0. /\ threadlist \in Seq(Threads) /\ pc \in [Threads -> Places]
      /\ currentthread \in Threads /\ processcount \in 0..MaxProc
      /\ ppid \in [Threads -> 0..MaxProc] /\ is_wait \in [Threads -> Int]
      /\ Procs \subseteq Threads
  BY DEF IInv, TypeOK, Threads
<1>1. /\ pc[currentthread] = "user" /\ child <= MaxProc /\ processcount' = child
      /\ threadlist' = InsertAt(threadlist, CurrentPosition + 1, child)
      /\ blockedlist' = blockedlist /\ waitfor' = waitfor
      /\ ppid' = [ppid EXCEPT ![child] = Pid(currentthread)]
      /\ pc' = [pc EXCEPT ![currentthread] = "user"]
      /\ \E w \in StaleWords : is_wait' = [is_wait EXCEPT ![child] = w]
  BY Zenon DEF sys_fork, At, CurrentPosition, ReturnToUser
<1>2. currentthread \in Procs /\ currentthread <= processcount /\ 1 <= currentthread
  BY <1>1, UserHasPid DEF UserPlaces
<1>3. child \in Threads /\ child \in Procs /\ child # 1
  BY <1>0, <1>1, <1>2 DEF Threads, Procs
<1>4. child \notin L
  <2>1. ~(child = 1 \/ child <= processcount)
    BY <1>0, <1>3
  <2> QED BY <1>3, <2>1 DEF IInv, BootOrder
<1>5. Range(threadlist') = Range(threadlist) \cup {child}
  <2> DEFINE j == CurrentPosition + 1
  <2>1. CurrentPosition \in 0..Len(threadlist)
    BY <1>0, CurrentPositionRange
  <2>2. j \in 1..(Len(threadlist) + 1) /\ threadlist' = InsertAt(threadlist, j, child)
    BY <1>0, <1>1, <2>1
  <2> HIDE DEF j, child
  <2> QED BY <1>0, <1>3, <2>2, InsertKeepsInjective
<1>6. \A p \in Procs : pc'[p] = "completed" <=> pc[p] = "completed"
  BY <1>0, <1>1
<1>7. Calm
  BY <1>4, <1>5, <1>6 DEF Calm, L, IInv, SoundLists
<1>8. is_wait'[child] # 1 /\ \A t \in Threads : t # child => is_wait'[t] = is_wait[t]
  <2>1. PICK w \in StaleWords : is_wait' = [is_wait EXCEPT ![child] = w]
    BY <1>1
  <2> HIDE DEF child
  <2> QED BY <1>0, <1>3, <2>1
<1>9. \A t \in Threads : t # child => ppid'[t] = ppid[t]
  BY <1>0, <1>1
<1>10. ASSUME NEW q \in Range(blockedlist')
       PROVE  ppid'[waitfor'[q]] = q /\ is_wait'[waitfor'[q]] = 1
  <2>1. waitfor[q] \in 1..processcount
    BY <1>1 DEF IInv, Waiters, BlockedAreWaiting
  <2>2. waitfor[q] \in Threads /\ waitfor[q] # child
    BY <2>1, PidsHandedOut DEF IInv
  <2> QED BY <1>1, <1>8, <1>9, <2>2 DEF WaitLinks
<1>11. ASSUME NEW p \in Procs, p <= processcount', p \in L', pc'[p] # "completed",
              is_wait'[p] = 1, ppid'[p] \in L'
       PROVE  ppid'[p] \in Range(blockedlist') /\ waitfor'[ppid'[p]] = p
  <2>1. p # child
    BY <1>8, <1>11
  <2>2. ppid'[p] = ppid[p] /\ is_wait[p] = 1
    BY <1>0, <1>8, <1>9, <1>11, <2>1
  <2>3. p <= processcount
    BY <1>0, <1>1, <1>11, <2>1 DEF Procs
  <2>4. ppid[p] < p /\ ppid[p] \in 0..MaxProc
    BY <1>0, <2>3 DEF IInv, Waiters
  <2>5. ppid[p] # child
    BY <1>0, <2>3, <2>4 DEF Procs
  <2>6. p \in L /\ ppid[p] \in L
    BY <1>1, <1>5, <1>11, <2>1, <2>2, <2>5 DEF L
  <2>7. ppid[p] \in Range(blockedlist) /\ waitfor[ppid[p]] = p
    BY <1>6, <1>11, <2>2, <2>3, <2>6 DEF WaitLinks
  <2> QED BY <1>1, <2>2, <2>7
<1>12. \A t \in {MAIN, FUN1, IDLE} : ppid'[t] = 0
  <2>1. \A t \in {MAIN, FUN1, IDLE} : t \in Threads /\ t # child
    BY <1>3, ThreadNames DEF MAIN, FUN1, IDLE, Procs
  <2> QED BY <1>9, <2>1 DEF WaitLinks
<1> QED
  BY <1>7, <1>10, <1>11, <1>12 DEF WaitLinks

(* sys_waitpid keeps the links: its caller runs, so no child of it was     *)
(* marked before.                                                          *)
LEMMA WaitpidLinks ==
  ASSUME IInv, WaitLinks, NEW p \in Procs, sys_waitpid(p)
  PROVE  WaitLinks' /\ Calm
<1> DEFINE me == currentthread
<1>0. /\ threadlist \in Seq(Threads) /\ blockedlist \in Seq(Threads)
      /\ pc \in [Threads -> Places] /\ waitfor \in [Threads -> 0..MaxProc]
      /\ me \in Threads /\ is_wait \in [Threads -> Int]
      /\ Procs \subseteq Threads
  BY DEF IInv, TypeOK, Threads
<1>1. /\ pc[me] = "user" /\ p <= processcount
      /\ waitfor' = [waitfor EXCEPT ![me] = p]
      /\ pc' = [pc EXCEPT ![me] = "waitpid_return"]
      /\ UNCHANGED <<ppid, processcount>>
      /\ \/ /\ ppid[p] = Pid(me)
            /\ is_wait' = [is_wait EXCEPT ![p] = 1]
            /\ threadlist' = RemoveFirst(threadlist, me)
            /\ blockedlist' = <<me>> \o blockedlist
         \/ threadlist' = threadlist /\ blockedlist' = blockedlist /\ is_wait' = is_wait
  BY Zenon DEF sys_waitpid, At, lists
<1>2. me \in Procs /\ me <= processcount /\ Pid(me) = me
  BY <1>1, UserHasPid DEF UserPlaces
<1>3. /\ me \in Range(threadlist) /\ me \notin Range(blockedlist)
      /\ IsInjective(threadlist) /\ IsInjective(blockedlist)
      /\ Range(threadlist) \cap Range(blockedlist) = {}
  BY DEF IInv, CpuOwner, SoundLists
<1>4. \A q \in Procs : pc'[q] = "completed" <=> pc[q] = "completed"
  BY <1>0, <1>1
<1>5. Range(blockedlist) \subseteq Threads
  BY SoundListsMain DEF IInv
<1>6. /\ \A q \in Range(blockedlist) : waitfor'[q] = waitfor[q]
      /\ waitfor'[me] = p
  BY <1>0, <1>1, <1>3, <1>5
<1>7. CASE threadlist' = threadlist /\ blockedlist' = blockedlist /\ is_wait' = is_wait
  BY <1>1, <1>4, <1>6, <1>7, LinksKept DEF KeepsLinks
<1>8. CASE /\ ppid[p] = Pid(me)
           /\ is_wait' = [is_wait EXCEPT ![p] = 1]
           /\ threadlist' = RemoveFirst(threadlist, me)
           /\ blockedlist' = <<me>> \o blockedlist
  <2>1. Range(threadlist') = Range(threadlist) \ {me}
    BY <1>0, <1>3, <1>8, RemoveSound
  <2>2. Range(blockedlist') = {me} \cup Range(blockedlist)
    BY <1>0, <1>3, <1>8, PrependKeepsInjective
  <2>3. L' = L
    BY <1>3, <2>1, <2>2 DEF L
  <2>4. is_wait'[p] = 1 /\ \A t \in Threads : t # p => is_wait'[t] = is_wait[t]
    BY <1>0, <1>8
  <2>5. Calm
    BY <1>3, <1>4, <2>1 DEF Calm
  <2>6. ASSUME NEW q \in Range(blockedlist')
        PROVE  ppid'[waitfor'[q]] = q /\ is_wait'[waitfor'[q]] = 1
    <3>1. CASE q = me
      BY <1>1, <1>2, <1>6, <1>8, <2>4, <3>1
    <3>2. CASE q \in Range(blockedlist)
      <4>1. ppid[waitfor[q]] = q /\ is_wait[waitfor[q]] = 1 /\ waitfor[q] \in 1..processcount
        BY <3>2 DEF WaitLinks, IInv, Waiters, BlockedAreWaiting
      <4>2. waitfor[q] \in Threads
        BY <4>1, PidsHandedOut DEF IInv
      <4> QED BY <1>1, <1>6, <2>4, <3>2, <4>1, <4>2
    <3> QED BY <2>2, <3>1, <3>2
  <2>7. ASSUME NEW c \in Procs, c <= processcount', c \in L', pc'[c] # "completed",
               is_wait'[c] = 1, ppid'[c] \in L'
        PROVE  ppid'[c] \in Range(blockedlist') /\ waitfor'[ppid'[c]] = c
    <3>1. CASE c = p
      BY <1>1, <1>2, <1>6, <1>8, <2>2, <3>1
    <3>2. CASE c # p
      <4>1. /\ c <= processcount /\ c \in L /\ pc[c] # "completed"
            /\ is_wait[c] = 1 /\ ppid[c] \in L /\ ppid'[c] = ppid[c]
        BY <1>0, <1>1, <1>4, <2>3, <2>4, <2>7, <3>2
      <4>2. ppid[c] \in Range(blockedlist) /\ waitfor[ppid[c]] = c
        BY <4>1 DEF WaitLinks
      <4> QED BY <1>6, <2>2, <4>1, <4>2
    <3> QED BY <3>1, <3>2
  <2>8. \A t \in {MAIN, FUN1, IDLE} : ppid'[t] = 0
    BY <1>1 DEF WaitLinks
  <2> QED BY <2>5, <2>6, <2>7, <2>8 DEF WaitLinks
<1> QED
  BY <1>1, <1>7, <1>8

(* Booting keeps the links: nobody has a pid yet.                          *)
LEMMA BootLinks ==
  ASSUME IInv, WaitLinks, ContextSwitch \/ Fun1 \/ IdleFunc
  PROVE  WaitLinks' /\ Calm
<1>0. /\ threadlist \in Seq(Threads) /\ pc \in [Threads -> Places]
      /\ currentthread \in Threads /\ Procs \subseteq Threads
  BY DEF IInv, TypeOK, Threads
<1>1. pc[currentthread] \in {"context_switch", "main_schedule", "fun1", "fun1_user",
                              "fun1_schedule", "idle_func"}
  BY DEF ContextSwitch, Fun1, IdleFunc, Create, CallSchedule, At
<1>2. currentthread \notin Procs
  BY <1>1 DEF IInv, BootOrder, UserPlaces
<1>3. \E to : pc' = [pc EXCEPT ![currentthread] = to]
  BY DEF ContextSwitch, Fun1, IdleFunc, Create, CallSchedule
<1>4. \A p \in Procs : pc'[p] = pc[p]
  BY <1>0, <1>2, <1>3
<1>5. UNCHANGED <<blockedlist, ppid, is_wait, processcount, waitfor>>
  BY DEF ContextSwitch, Fun1, IdleFunc, Create, CallSchedule, lists
<1>6. CASE threadlist' = threadlist
  BY <1>4, <1>5, <1>6, LinksKept DEF KeepsLinks
<1>7. CASE threadlist' # threadlist
  <2>1. \/ Create("context_switch", FUN1, "main_schedule")
        \/ Create("fun1", IDLE, "fun1_user")
        \/ Create("fun1_user", 1, "fun1_schedule")
    BY <1>7 DEF ContextSwitch, Fun1, IdleFunc, CallSchedule, lists
  <2>2. processcount = 0
    <3>1. pc[currentthread] \in {"context_switch", "fun1", "fun1_user"}
      BY <2>1 DEF Create, At
    <3>2. currentthread = MAIN \/ currentthread = FUN1
      BY <1>0, <1>2, <3>1 DEF IInv, BootOrder, Threads
    <3> QED BY <3>1, <3>2 DEF IInv, BootOrder
  <2>3. Range(blockedlist) = {}
    <3> SUFFICES ASSUME NEW q \in Range(blockedlist) PROVE FALSE
      OBVIOUS
    <3>1. q \in Procs /\ q <= processcount
      BY BlockedHavePids
    <3> QED BY <2>2, <3>1 DEF Procs
  <2>4. WaitLinks'
    BY <1>5, <2>2, <2>3 DEF WaitLinks, Procs
  <2> QED BY <1>4, <2>3, <2>4 DEF Calm
<1> QED
  BY <1>6, <1>7

(* Every step keeps the links, and only the end of a process ends one or   *)
(* wakes one.                                                              *)
LEMMA LinkStep ==
  ASSUME 1 \notin StaleWords, IInv, WaitLinks, [Next]_vars
  PROVE  /\ WaitLinks'
         /\ \/ Calm
            \/ /\ thread_on_completion
               /\ pc[currentthread] \in UserPlaces \cup {"fun1_return"}
<1>0. /\ threadlist \in Seq(Threads) /\ blockedlist \in Seq(Threads)
      /\ pc \in [Threads -> Places] /\ waitfor \in [Threads -> 0..MaxProc]
      /\ currentthread \in Threads /\ Procs \subseteq Threads
      /\ ppid \in [Threads -> 0..MaxProc]
  BY DEF IInv, TypeOK, Threads
<1>1. \A q \in Range(blockedlist) : q # currentthread /\ q \in Threads
  BY SoundListsMain DEF IInv, CpuOwner, SoundLists
<1>2. CASE ContextSwitch \/ Fun1 \/ IdleFunc
  BY <1>2, BootLinks
<1>3. CASE UserProcess
  <2>1. /\ pc[currentthread] = "user_process" /\ processcount' = 1
        /\ ppid' = [ppid EXCEPT ![currentthread] = 0]
        /\ pc' = [pc EXCEPT ![currentthread] = "user"]
        /\ UNCHANGED <<threadlist, blockedlist, is_wait, waitfor>>
    BY <1>3 DEF UserProcess, At, lists
  <2>2. currentthread = 1 /\ processcount = 0
    BY <1>0, <2>1 DEF IInv, BootOrder, Threads, UserPlaces
  <2>3. Range(blockedlist) = {}
    <3> SUFFICES ASSUME NEW q \in Range(blockedlist) PROVE FALSE
      OBVIOUS
    <3>1. q \in Procs /\ q <= processcount
      BY BlockedHavePids
    <3> QED BY <2>2, <3>1 DEF Procs
  <2>4. \A p \in Procs : pc'[p] = "completed" <=> pc[p] = "completed"
    BY <1>0, <2>1
  <2>5. Calm
    BY <2>3, <2>4 DEF Calm
  <2>6. \A p \in Procs : p <= processcount' => ppid'[p] = 0
    BY <1>0, <2>1, <2>2 DEF Procs
  <2>7. 0 \notin L'
    <3>1. L \subseteq Threads /\ 0 \notin Threads
      BY SoundListsMain DEF IInv, L, Threads, Procs, MAIN, FUN1, IDLE
    <3> QED BY <2>1, <3>1 DEF L
  <2>8. \A t \in {MAIN, FUN1, IDLE} : ppid'[t] = 0
    BY <1>0, <2>1, ThreadNames DEF WaitLinks
  <2> QED BY <2>1, <2>3, <2>5, <2>6, <2>7, <2>8 DEF WaitLinks
<1>4. CASE TimerInterrupt \/ PageFault \/ Spin \/ sys_execvpe \/ UNCHANGED vars
  <2>1. UNCHANGED <<ppid, is_wait, processcount, threadlist, blockedlist, waitfor, pc>>
    BY <1>4 DEF TimerInterrupt, PageFault, Spin, sys_execvpe, vars, lists, pcb
  <2> QED BY <2>1, LinksKept DEF KeepsLinks
<1>5. CASE Exit
  BY <1>5, CompletionLinks DEF Exit, At, UserPlaces
<1>6. CASE sys_fork
  BY <1>6, ForkLinks
<1>7. CASE \E p \in Procs : sys_waitpid(p)
  BY <1>7, WaitpidLinks
<1>8. ASSUME pc[currentthread] \in UserPlaces, NEW place \in UserPlaces,
             pc' = [pc EXCEPT ![currentthread] = place],
             UNCHANGED <<ppid, is_wait, processcount>>,
             \/ waitfor' = waitfor
             \/ waitfor' = [waitfor EXCEPT ![currentthread] = 0],
             Range(threadlist') \subseteq Range(threadlist),
             Range(blockedlist') \subseteq Range(blockedlist)
      PROVE  WaitLinks' /\ Calm
  <2>1. \A p \in Procs : pc'[p] = "completed" <=> pc[p] = "completed"
    BY <1>0, <1>8 DEF UserPlaces
  <2>2. \A q \in Range(blockedlist) : waitfor'[q] = waitfor[q]
    BY <1>0, <1>1, <1>8
  <2> QED BY <1>8, <2>1, <2>2, LinksKept DEF KeepsLinks
<1>9. {"user", "read", "sleep", "confirm"} \subseteq UserPlaces
  BY DEF UserPlaces
<1>10. CASE WaitpidReturn \/ OtherSyscall
  <2>1. /\ pc[currentthread] \in UserPlaces
        /\ pc' = [pc EXCEPT ![currentthread] = "user"]
        /\ UNCHANGED <<ppid, is_wait, processcount, threadlist, blockedlist>>
        /\ \/ waitfor' = waitfor
           \/ waitfor' = [waitfor EXCEPT ![currentthread] = 0]
    BY <1>10 DEF WaitpidReturn, OtherSyscall, ReturnToUser, At, UserPlaces, lists
  <2> QED BY <1>8, <1>9, <2>1
<1>11. ASSUME NEW place \in UserPlaces, StartSpin(place) \/ EndSpin(place)
       PROVE  WaitLinks' /\ Calm
  <2>1. /\ pc[currentthread] \in UserPlaces
        /\ \/ pc' = [pc EXCEPT ![currentthread] = place]
           \/ pc' = [pc EXCEPT ![currentthread] = "user"]
        /\ UNCHANGED <<ppid, is_wait, processcount, threadlist, blockedlist, waitfor>>
    BY <1>9, <1>11 DEF StartSpin, EndSpin, ReturnToUser, At, lists, pcb
  <2> QED BY <1>8, <1>9, <2>1
<1>12. CASE sys_read \/ sys_sleep
  BY <1>9, <1>11, <1>12 DEF sys_read, sys_sleep
<1>13. ASSUME NEW p \in Procs, sys_kill(p)
       PROVE  /\ WaitLinks'
              /\ \/ Calm
                 \/ /\ thread_on_completion
                    /\ pc[currentthread] \in UserPlaces \cup {"fun1_return"}
  <2>1. CASE StartSpin("confirm") \/ EndSpin("confirm")
    BY <1>9, <1>11, <2>1
  <2>2. CASE Terminate(p) /\ pc[currentthread] \in UserPlaces
    <3>1. CASE thread_on_completion
      BY <2>2, <3>1, CompletionLinks
    <3>2. CASE ~thread_on_completion
      <4>1. /\ pc' = [pc EXCEPT ![currentthread] = "user"]
            /\ UNCHANGED <<ppid, is_wait, processcount, waitfor>>
            /\ \/ threadlist' = threadlist
               \/ Contains(threadlist, p) /\ threadlist' = RemoveFirst(threadlist, p)
            /\ \/ blockedlist' = blockedlist
               \/ Contains(blockedlist, p) /\ blockedlist' = RemoveFirst(blockedlist, p)
        BY <2>2, <3>2 DEF Terminate, ReturnToUser, lists
      <4>2. Range(threadlist') \subseteq Range(threadlist)
        BY <1>0, <4>1, ContainsRange, RemoveSound DEF IInv, SoundLists
      <4>3. Range(blockedlist') \subseteq Range(blockedlist)
        BY <1>0, <4>1, ContainsRange, RemoveSound DEF IInv, SoundLists
      <4> QED BY <1>8, <1>9, <2>2, <4>1, <4>2, <4>3
    <3> QED BY <3>1, <3>2
  <2> QED BY <1>9, <1>13, <2>1, <2>2 DEF sys_kill, At
<1> QED
  BY <1>2, <1>3, <1>4, <1>5, <1>6, <1>7, <1>10, <1>12, <1>13 DEF Next

(* The links hold in every reachable state, as long as PCBs come from      *)
(* pages that do not hold a stale mark.                                    *)
THEOREM LinksHold ==
  ASSUME 1 \notin StaleWords
  PROVE  Spec => []WaitLinks
<1>1. Init => WaitLinks
  <2> SUFFICES ASSUME Init PROVE WaitLinks
    OBVIOUS
  <2>1. /\ blockedlist = <<>> /\ processcount = 0
        /\ ppid = [t \in Threads |-> 0]
    BY DEF Init
  <2>2. Range(blockedlist) = {}
    BY <2>1 DEF Range
  <2>3. \A t \in {MAIN, FUN1, IDLE} : ppid[t] = 0
    BY <2>1, ThreadNames
  <2> QED BY <2>1, <2>2, <2>3 DEF WaitLinks, Procs
<1>2. IInv /\ WaitLinks /\ [Next]_vars => WaitLinks'
  BY LinkStep
<1> QED
  BY <1>1, <1>2, Inductive, PTL DEF Spec

(* A process blocked in waitpid is put back on threadlist only when the    *)
(* process it waits for has ended: for any number of processes, with       *)
(* grandchildren, siblings and kills in any order, as long as PCBs come    *)
(* from pages that do not hold a stale mark.                               *)
THEOREM WaitIsSound ==
  ASSUME 1 \notin StaleWords
  PROVE  Spec => WaitSound
<1>1. IInv /\ IInv' /\ WaitLinks /\ [Next]_vars =>
        [\A q \in Range(blockedlist) :
           Contains(threadlist', q) => state'[waitfor[q]] = ZOMBIE]_vars
  <2> SUFFICES ASSUME IInv, IInv', WaitLinks, [Next]_vars, NEW q \in Range(blockedlist),
                      Contains(threadlist', q)
               PROVE  state'[waitfor[q]] = ZOMBIE
    OBVIOUS
  <2>1. q \in Range(threadlist') /\ q \notin Range(threadlist)
    BY ContainsRange DEF IInv, TypeOK, SoundLists
  <2>2. /\ thread_on_completion
        /\ pc[currentthread] \in UserPlaces \cup {"fun1_return"}
    BY <2>1, LinkStep DEF Calm
  <2>3. waitfor[q] = currentthread
    BY <2>1, <2>2, WakesOnlyWaiter
  <2>4. state'[currentthread] = ZOMBIE
    BY <2>2 DEF thread_on_completion, IInv, TypeOK
  <2> QED BY <2>3, <2>4
<1> QED
  BY <1>1, Inductive, LinksHold, PTL DEF Spec, WaitSound

(* The step in which a process ends puts its parent back on threadlist if  *)
(* that one is blocked waiting for it: no wake-up is lost, whoever else    *)
(* lives, waits or was killed, as long as PCBs come from pages that do not *)
(* hold a stale mark.                                                      *)
THEOREM ExitWakes ==
  ASSUME 1 \notin StaleWords
  PROVE  Spec => ExitWakesWaiter
<1>1. IInv /\ IInv' /\ WaitLinks /\ [Next]_vars =>
        [\A p \in Procs :
           (/\ state[p] # ZOMBIE /\ state'[p] = ZOMBIE
            /\ Contains(blockedlist, ppid[p]) /\ waitfor[ppid[p]] = p)
           => Contains(threadlist', ppid[p])]_vars
  <2> SUFFICES ASSUME IInv, IInv', WaitLinks, [Next]_vars, NEW p \in Procs,
                      state[p] # ZOMBIE, state'[p] = ZOMBIE,
                      Contains(blockedlist, ppid[p]), waitfor[ppid[p]] = p
               PROVE  Contains(threadlist', ppid[p])
    OBVIOUS
  <2>1. p \in Threads /\ p # MAIN
    BY DEF Threads, Procs, MAIN
  <2>2. pc[p] # "completed" /\ pc'[p] = "completed"
    BY <2>1 DEF IInv, CpuOwner
  <2>3. thread_on_completion
    BY <2>2, LinkStep DEF Calm
  <2>4. p = currentthread
    <3>1. pc' = [pc EXCEPT ![currentthread] = "completed"] /\ pc \in [Threads -> Places]
      BY <2>3 DEF thread_on_completion, IInv, TypeOK
    <3> QED BY <2>1, <2>2, <3>1
  <2>5. ppid[p] \in Range(blockedlist)
    BY ContainsRange DEF IInv, TypeOK
  <2>6. ppid[p] \in Range(threadlist')
    BY <2>3, <2>4, <2>5, WakesWaiter
  <2> QED BY <2>6, ContainsRange DEF IInv, TypeOK
<1> QED
  BY <1>1, Inductive, LinksHold, PTL DEF Spec, ExitWakesWaiter

-----------------------------------------------------------------------------
(* The entries of /proc                                                    *)

(* Digits in a base of at least two tell numbers apart.                    *)
LEMMA DigitsAreExact ==
  ASSUME NEW a \in Nat, NEW b \in Nat, Digits(a) = Digits(b)
  PROVE  a = b
<1>1. CASE a < Radix /\ b < Radix
  <2>1. Digits(a) = <<a>> /\ Digits(b) = <<b>>
    BY <1>1 DEF Digits
  <2>2. <<a>>[1] = a /\ <<b>>[1] = b
    OBVIOUS
  <2>3. <<a>> = <<b>>
    BY <2>1, Zenon
  <2> QED BY <2>2, <2>3, Zenon
<1>2. CASE ~(a < Radix) /\ ~(b < Radix)
  <2>1. /\ Digits(a) = <<a \div Radix, a % Radix>>
        /\ Digits(b) = <<b \div Radix, b % Radix>>
    BY <1>2 DEF Digits
  <2>2. a \div Radix = b \div Radix /\ a % Radix = b % Radix
    <3> DEFINE s == <<a \div Radix, a % Radix>>
               t == <<b \div Radix, b % Radix>>
    <3>1. s[1] = a \div Radix /\ s[2] = a % Radix
      OBVIOUS
    <3>2. t[1] = b \div Radix /\ t[2] = b % Radix
      OBVIOUS
    <3>3. s = t
      BY <2>1, Zenon
    <3> HIDE DEF s, t
    <3> QED BY <3>1, <3>2, <3>3, Zenon
  <2>3. \A n \in Nat : n = Radix * (n \div Radix) + (n % Radix)
    BY NamesAssumption, SMT
  <2> QED BY <2>2, <2>3
<1>3. CASE ~(a < Radix <=> b < Radix)
  <2>1. \A n \in Nat : Len(Digits(n)) = IF n < Radix THEN 1 ELSE 2
    BY DEF Digits
  <2> QED BY <1>3, <2>1
<1>4. (a < Radix) \in BOOLEAN /\ (b < Radix) \in BOOLEAN
  OBVIOUS
<1> QED
  BY <1>1, <1>2, <1>3, <1>4

(* Front takes away at most the last element.                              *)
LEMMA FrontDropsOne ==
  ASSUME NEW T, NEW s \in Seq(T), IsInjective(s)
  PROVE  /\ IsInjective(Front(s))
         /\ Range(Front(s)) \subseteq Range(s)
         /\ Range(s) \subseteq Range(Front(s)) \cup {s[Len(s)]}
<1> DEFINE n == Len(s)
           f == Front(s)
<1>1. n \in Nat /\ \A i \in 1..n : s[i] \in T
  OBVIOUS
<1>2. CASE n = 0
  <2>1. s = <<>>
    BY <1>2
  <2>2. Front(s) = <<>>
    BY <2>1, SubSeqProperties DEF Front
  <2>3. Range(<<>>) = {} /\ IsInjective(<<>>)
    BY DEF Range, IsInjective
  <2> QED BY <2>1, <2>2, <2>3, Zenon
<1>3. CASE n # 0
  <2>0. n - 1 \in Nat /\ \A i \in 1..(n - 1) : s[i] \in T
    BY <1>1, <1>3
  <2>1. Len(f) = n - 1 /\ \A i \in 1..(n - 1) : f[i] = s[i]
    <3>1. f = SubSeq(s, 1, n - 1)
      BY DEF Front
    <3>2. /\ Len(SubSeq(s, 1, n - 1)) = IF 1 <= n - 1 THEN (n - 1) - 1 + 1 ELSE 0
          /\ \A i \in 1..((n - 1) - 1 + 1) : SubSeq(s, 1, n - 1)[i] = s[1 + i - 1]
      BY <2>0, SubSeqProperties
    <3>3. \A i \in 1..(n - 1) : 1 + i - 1 = i
      OBVIOUS
    <3> HIDE DEF f, n
    <3>4. (n - 1) - 1 + 1 = n - 1 /\ (~(1 <= n - 1) => n - 1 = 0)
      BY <1>1, <1>3, SMT
    <3> QED BY <3>1, <3>2, <3>3, <3>4
  <2>2. f \in Seq(T)
    BY <2>0, SubSeqProperties DEF Front
  <2>3. DOMAIN f = 1..(n - 1) /\ DOMAIN s = 1..n
    BY <2>1, <2>2
  <2> HIDE DEF f
  <2>4. IsInjective(f) /\ Range(f) \subseteq Range(s)
    BY <1>1, <2>1, <2>3 DEF IsInjective, Range
  <2>5. Range(s) \subseteq Range(f) \cup {s[n]}
    BY <1>1, <2>1, <2>3 DEF Range
  <2> QED BY <2>4, <2>5 DEF f
<1> QED
  BY <1>2, <1>3

(* One more element counts for one at most.                                *)
LEMMA OneMore ==
  ASSUME NEW S, IsFiniteSet(S), NEW x
  PROVE  Cardinality(S \cup {x}) <= Cardinality(S) + 1
<1>1. CASE x \in S
  <2>1. S \cup {x} = S
    BY <1>1
  <2>2. Cardinality(S) \in Nat
    BY FS_CardinalityType
  <2> QED BY <2>1, <2>2
<1>2. CASE x \notin S
  <2>1. Cardinality(S \cup {x}) = Cardinality(S) + 1 /\ Cardinality(S) \in Nat
    BY <1>2, FS_AddElement, FS_CardinalityType
  <2> QED BY <2>1
<1> QED
  BY <1>1, <1>2

(* sys_kill takes away at most one entry.                                  *)
LEMMA RemovesOneEntry ==
  ASSUME procdir \in Seq(Procs), IsInjective(procdir), NEW p \in Procs
  PROVE  /\ IsInjective(RemoveProcEntry(p))
         /\ Range(RemoveProcEntry(p)) \subseteq Range(procdir)
         /\ \E x : Range(procdir) \subseteq Range(RemoveProcEntry(p)) \cup {x}
         /\ Digits(p) = Reverse(Digits(p)) /\ p \in Range(procdir)
              => Range(procdir) \subseteq Range(RemoveProcEntry(p)) \cup {p}
<1> DEFINE I == {i \in 1..Len(procdir) : Digits(procdir[i]) = Reverse(Digits(p))}
           n == IF I # {} THEN Min(I) ELSE 0
<1>1. RemoveProcEntry(p) = IF n # 0 THEN RemoveAt(procdir, n) ELSE Front(procdir)
  BY Zenon DEF RemoveProcEntry, SelectInSeq
<1>2. Len(procdir) \in Nat /\ I \in SUBSET (1..Len(procdir))
  OBVIOUS
<1>3. Digits(p) = Reverse(Digits(p)) => \A i \in I : procdir[i] = p
  <2> SUFFICES ASSUME Digits(p) = Reverse(Digits(p)), NEW i \in I
               PROVE  procdir[i] = p
    OBVIOUS
  <2>1. Digits(procdir[i]) = Digits(p)
    OBVIOUS
  <2>2. procdir[i] \in Nat /\ p \in Nat
    BY DEF Procs
  <2> QED BY <2>1, <2>2, DigitsAreExact
<1>4. Digits(p) = Reverse(Digits(p)) /\ p \in Range(procdir) => I # {}
  <2> SUFFICES ASSUME Digits(p) = Reverse(Digits(p)), p \in Range(procdir)
               PROVE  I # {}
    OBVIOUS
  <2>1. PICK i \in 1..Len(procdir) : procdir[i] = p
    BY DEF Range
  <2> QED BY <2>1
<1>5. n \in 0..Len(procdir) /\ (I # {} <=> n # 0) /\ (n # 0 => n \in I)
  <2> HIDE DEF I
  <2> QED BY <1>2, FirstIndex
<1> HIDE DEF I, n
<1>6. CASE n # 0
  <2>1. n \in 1..Len(procdir) /\ RemoveProcEntry(p) = RemoveAt(procdir, n)
    BY <1>1, <1>2, <1>5, <1>6
  <2>2. /\ IsInjective(RemoveAt(procdir, n))
        /\ Range(RemoveAt(procdir, n)) = Range(procdir) \ {procdir[n]}
    BY <2>1, RemoveKeepsInjective
  <2>3. Digits(p) = Reverse(Digits(p)) => procdir[n] = p
    BY <1>3, <1>5, <1>6
  <2> QED BY <2>1, <2>2, <2>3
<1>7. CASE n = 0
  <2>1. RemoveProcEntry(p) = Front(procdir)
    BY <1>1, <1>7
  <2>2. ~(Digits(p) = Reverse(Digits(p)) /\ p \in Range(procdir))
    BY <1>4, <1>5, <1>7
  <2>3. /\ IsInjective(Front(procdir))
        /\ Range(Front(procdir)) \subseteq Range(procdir)
        /\ Range(procdir) \subseteq Range(Front(procdir)) \cup {procdir[Len(procdir)]}
    BY FrontDropsOne
  <2> QED BY <2>1, <2>2, <2>3
<1> QED
  BY <1>6, <1>7

(* The sets ProcShowsAll counts: finite, and told by list and directory.   *)
NameSets ==
  /\ IsFiniteSet(Unshown) /\ IsFiniteSet(Misread)
  /\ Unshown \subseteq Procs /\ Misread \subseteq Procs
  /\ \A p \in Procs : p \in Unshown <=> /\ p <= processcount /\ p \in L
                                       /\ p \notin Range(procdir)
  /\ \A p \in Procs : p \in Misread <=> /\ p <= processcount /\ p \notin L
                                       /\ Digits(p) # Reverse(Digits(p))

LEMMA NamesFinite == IInv => NameSets
<1> SUFFICES ASSUME IInv PROVE NameSets
  OBVIOUS
<1>1. processcount \in 0..MaxProc
  BY DEF IInv, TypeOK
<1>2. IsFiniteSet(1..processcount)
  BY <1>1, FS_Interval
<1>3. \A p \in Procs : Listed(p) <=> p \in L
  BY ContainsRange DEF IInv, TypeOK, Listed, L
<1>4. \A p \in Procs : p \in 1..processcount <=> p <= processcount
  BY <1>1 DEF Procs
<1>5. Unshown \subseteq 1..processcount /\ Misread \subseteq 1..processcount
  BY DEF Unshown, Misread
<1>6. 1..processcount \subseteq Procs
  BY <1>1 DEF Procs
<1>7. IsFiniteSet(Unshown) /\ IsFiniteSet(Misread)
  BY <1>2, <1>5, FS_Subset
<1>8. \A p \in Procs : p \in Unshown <=> /\ p <= processcount /\ p \in L
                                         /\ p \notin Range(procdir)
  BY <1>3, <1>4, Zenon DEF Unshown
<1>9. \A p \in Procs : p \in Misread <=> /\ p <= processcount /\ p \notin L
                                         /\ Digits(p) # Reverse(Digits(p))
  BY <1>3, <1>4, Zenon DEF Misread
<1> QED
  BY <1>5, <1>6, <1>7, <1>8, <1>9, Zenon DEF NameSets

(* Fewer unshown and more misread keep the count.                          *)
LEMMA CountKept ==
  ASSUME NEW A, NEW B, NEW U, NEW M, IsFiniteSet(U), IsFiniteSet(B),
         A \subseteq U, M \subseteq B, Cardinality(U) <= Cardinality(M)
  PROVE  Cardinality(A) <= Cardinality(B)
<1>1. /\ IsFiniteSet(A) /\ Cardinality(A) <= Cardinality(U)
      /\ IsFiniteSet(M) /\ Cardinality(M) <= Cardinality(B)
  BY FS_Subset
<1>2. /\ Cardinality(A) \in Nat /\ Cardinality(U) \in Nat
      /\ Cardinality(B) \in Nat /\ Cardinality(M) \in Nat
  BY <1>1, FS_CardinalityType
<1> QED
  BY <1>1, <1>2

(* ProcShowsAll, and that every name is a pid handed out, so that the next *)
(* one is new.                                                             *)
ProcNames ==
  /\ ProcShowsAll
  /\ \A e \in Range(procdir) : e <= processcount

(* A process is made with the next pid and an entry of that name.          *)
LEMMA NewName ==
  ASSUME IInv, NameSets, NameSets', ProcNames, processcount' = processcount + 1,
         processcount' \in Procs, procdir' = Append(procdir, processcount'),
         \A p \in Procs : p <= processcount /\ p \in L' => p \in L
  PROVE  ProcNames'
<1> DEFINE child == processcount'
<1>1. procdir \in Seq(Procs) /\ processcount \in Int /\ child \in Procs
  BY DEF IInv, TypeOK
<1>2. child = processcount + 1
  OBVIOUS
<1> HIDE DEF child
<1>3. child \notin Range(procdir)
  BY <1>1, <1>2 DEF ProcNames
<1>4. procdir' = Append(procdir, child)
  BY DEF child
<1>5. Range(procdir') = Range(procdir) \cup {child} /\ IsInjective(procdir')
  BY <1>1, <1>3, <1>4, AppendKeepsInjective DEF ProcNames, ProcShowsAll
<1>6. \A e \in Range(procdir') : e <= child
  <2>1. \A e \in Range(procdir) : e \in Int /\ e <= processcount
    <3>1. Range(procdir) \subseteq Procs
      BY <1>1, RangeOfSeq
    <3>2. Procs \subseteq Int
      BY DEF Procs
    <3> QED BY <3>1, <3>2 DEF ProcNames
  <2> QED BY <1>1, <1>2, <1>5, <2>1 DEF Procs
<1>7. /\ IsFiniteSet(Unshown) /\ IsFiniteSet(Misread')
      /\ Unshown' \subseteq Procs /\ Misread \subseteq Procs
  BY DEF NameSets
<1>8. Unshown' \subseteq Unshown
  <2> SUFFICES ASSUME NEW p \in Procs, p \in Unshown'
               PROVE  p \in Unshown
    BY <1>7
  <2>1. p <= child /\ p \in L' /\ p \notin Range(procdir')
    BY DEF NameSets, child
  <2>2. p # child /\ p \notin Range(procdir)
    BY <1>5, <2>1
  <2>3. p <= processcount
    BY <1>1, <1>2, <2>1, <2>2 DEF Procs
  <2>4. p \in L
    BY <2>1, <2>3
  <2> QED BY <2>2, <2>3, <2>4 DEF NameSets
<1>9. Misread \subseteq Misread'
  <2> SUFFICES ASSUME NEW p \in Procs, p \in Misread
               PROVE  p \in Misread'
    BY <1>7
  <2>1. p <= processcount /\ p \notin L /\ Digits(p) # Reverse(Digits(p))
    BY DEF NameSets
  <2>2. p \notin L' /\ p <= child
    BY <1>1, <1>2, <2>1 DEF Procs
  <2> QED BY <2>1, <2>2 DEF NameSets, child
<1>10. Cardinality(Unshown') <= Cardinality(Misread')
  BY <1>7, <1>8, <1>9, CountKept DEF ProcNames, ProcShowsAll
<1> QED
  BY <1>5, <1>6, <1>10 DEF ProcNames, ProcShowsAll, child

(* A step that leaves /proc and the pids alone keeps the names.            *)
LEMMA NamesKept ==
  ASSUME IInv, NameSets, NameSets', [Next]_vars, ProcNames, procdir' = procdir,
         processcount' = processcount
  PROVE  ProcNames'
<1>1. \A p \in Procs : p <= processcount /\ p \in L' => p \in L
  BY NoReturnStep DEF NoReturn, L
<1>2. Unshown' \subseteq Unshown
  BY <1>1 DEF NameSets
<1>3. Misread \subseteq Misread'
  BY <1>1 DEF NameSets
<1>4. IsFiniteSet(Unshown) /\ IsFiniteSet(Misread')
  BY DEF NameSets
<1>5. Cardinality(Unshown') <= Cardinality(Misread')
  BY <1>2, <1>3, <1>4, CountKept DEF ProcNames, ProcShowsAll
<1> QED
  BY <1>5 DEF ProcNames, ProcShowsAll

(* What a victim's end does to the two counts: a name that reads the same  *)
(* backwards goes with its process, any other may cost one that stays.     *)
LEMMA VictimCounts ==
  ASSUME IInv, NameSets, NameSets', ProcNames, NEW p \in Procs, p <= processcount,
         processcount' = processcount, p \in L, L' = L \ {p},
         procdir' = RemoveProcEntry(p)
  PROVE  Cardinality(Unshown') <= Cardinality(Misread')
<1>1. /\ Range(procdir') \subseteq Range(procdir)
      /\ \E x : Range(procdir) \subseteq Range(procdir') \cup {x}
      /\ Digits(p) = Reverse(Digits(p)) /\ p \in Range(procdir)
           => Range(procdir) \subseteq Range(procdir') \cup {p}
  <2>1. procdir \in Seq(Procs) /\ IsInjective(procdir)
    BY DEF IInv, TypeOK, ProcNames, ProcShowsAll
  <2> QED BY <2>1, RemovesOneEntry, Zenon
<1>2. /\ IsFiniteSet(Unshown) /\ IsFiniteSet(Misread) /\ IsFiniteSet(Misread')
      /\ Unshown' \subseteq Procs
      /\ Cardinality(Unshown) <= Cardinality(Misread)
  BY DEF NameSets, ProcNames, ProcShowsAll
<1>3. \A q \in Procs :
        q \in Unshown' <=> /\ q <= processcount /\ q \in L /\ q # p
                           /\ q \notin Range(procdir')
  BY DEF NameSets
<1>4. \A q \in Procs :
        q \in Unshown <=> q <= processcount /\ q \in L /\ q \notin Range(procdir)
  BY DEF NameSets
<1>5. Misread \subseteq Misread' /\ p \notin Misread
  BY DEF NameSets
<1>6. CASE p \notin Range(procdir)
  <2>1. PICK x : Range(procdir) \subseteq Range(procdir') \cup {x}
    BY <1>1
  <2>2. Unshown' \subseteq (Unshown \ {p}) \cup {x} /\ p \in Unshown
    BY <1>2, <1>3, <1>4, <1>6, <2>1
  <2>3. Cardinality((Unshown \ {p}) \cup {x}) <= Cardinality(Unshown)
    <3>1. IsFiniteSet(Unshown \ {p}) /\ Cardinality(Unshown \ {p}) = Cardinality(Unshown) - 1
      BY <1>2, <2>2, FS_RemoveElement
    <3>2. Cardinality((Unshown \ {p}) \cup {x}) <= Cardinality(Unshown \ {p}) + 1
      BY <3>1, OneMore
    <3>3. Cardinality(Unshown) \in Nat
      BY <1>2, FS_CardinalityType
    <3>4. IsFiniteSet((Unshown \ {p}) \cup {x})
      BY <3>1, FS_AddElement
    <3>5. Cardinality((Unshown \ {p}) \cup {x}) \in Nat
      BY <3>4, FS_CardinalityType
    <3> QED BY <3>1, <3>2, <3>3, <3>5
  <2>4. IsFiniteSet((Unshown \ {p}) \cup {x})
    <3>1. IsFiniteSet(Unshown \ {p})
      BY <1>2, FS_RemoveElement
    <3> QED BY <3>1, FS_AddElement
  <2>5. Cardinality((Unshown \ {p}) \cup {x}) <= Cardinality(Misread)
    <3>1. /\ Cardinality(Unshown) \in Nat /\ Cardinality(Misread) \in Nat
          /\ Cardinality((Unshown \ {p}) \cup {x}) \in Nat
      BY <1>2, <2>4, FS_CardinalityType
    <3> QED BY <1>2, <2>3, <3>1
  <2> QED BY <1>2, <1>5, <2>2, <2>4, <2>5, CountKept
<1>7. CASE p \in Range(procdir) /\ Digits(p) = Reverse(Digits(p))
  <2>1. Range(procdir) \subseteq Range(procdir') \cup {p}
    BY <1>1, <1>7
  <2>2. Unshown' \subseteq Unshown
    BY <1>2, <1>3, <1>4, <2>1
  <2> QED BY <1>2, <1>5, <2>2, CountKept
<1>8. CASE Digits(p) # Reverse(Digits(p))
  <2>1. PICK x : Range(procdir) \subseteq Range(procdir') \cup {x}
    BY <1>1
  <2>2. Unshown' \subseteq Unshown \cup {x}
    BY <1>2, <1>3, <1>4, <2>1
  <2>3. Misread \cup {p} \subseteq Misread'
    BY <1>5, <1>8 DEF NameSets
  <2>4. /\ IsFiniteSet(Unshown \cup {x}) /\ IsFiniteSet(Misread \cup {p})
        /\ Cardinality(Misread \cup {p}) = Cardinality(Misread) + 1
    BY <1>2, <1>5, FS_AddElement
  <2>5. Cardinality(Unshown \cup {x}) <= Cardinality(Unshown) + 1
    BY <1>2, OneMore
  <2>6. Cardinality(Unshown \cup {x}) <= Cardinality(Misread \cup {p})
    <3>1. /\ Cardinality(Unshown) \in Nat /\ Cardinality(Misread) \in Nat
          /\ Cardinality(Unshown \cup {x}) \in Nat
      BY <1>2, <2>4, FS_CardinalityType
    <3> QED BY <1>2, <2>4, <2>5, <3>1
  <2> QED BY <1>2, <2>2, <2>3, <2>4, <2>6, CountKept
<1> QED
  BY <1>6, <1>7, <1>8

(* Signal 9 takes the victim and one name away together.                   *)
LEMMA TerminateNames ==
  ASSUME IInv, NameSets, NameSets', [Next]_vars, ProcNames, NEW p \in Procs, p <= processcount,
         Terminate(p)
  PROVE  ProcNames'
<1>0. /\ threadlist \in Seq(Threads) /\ blockedlist \in Seq(Threads)
      /\ procdir \in Seq(Procs)
  BY DEF IInv, TypeOK
<1>1. processcount' = processcount
  BY DEF Terminate, thread_on_completion
<1>2. CASE procdir' = procdir
  BY <1>1, <1>2, NamesKept
<1>3. CASE procdir' # procdir
  <2>1. /\ procdir' = RemoveProcEntry(p)
        /\ \/ /\ Contains(threadlist, p)
              /\ threadlist' = RemoveFirst(threadlist, p) /\ blockedlist' = blockedlist
           \/ /\ Contains(blockedlist, p)
              /\ blockedlist' = RemoveFirst(blockedlist, p) /\ threadlist' = threadlist
    BY <1>3 DEF Terminate, thread_on_completion
  <2>2. p \in L /\ L' = L \ {p}
    <3>1. /\ IsInjective(threadlist) /\ IsInjective(blockedlist)
          /\ Range(threadlist) \cap Range(blockedlist) = {}
      BY DEF IInv, SoundLists
    <3>2. CASE /\ Contains(threadlist, p)
               /\ threadlist' = RemoveFirst(threadlist, p) /\ blockedlist' = blockedlist
      <4>1. p \in Range(threadlist) /\ Range(threadlist') = Range(threadlist) \ {p}
        BY <1>0, <3>1, <3>2, ContainsRange, RemoveSound
      <4> QED BY <3>1, <3>2, <4>1 DEF L
    <3>3. CASE /\ Contains(blockedlist, p)
               /\ blockedlist' = RemoveFirst(blockedlist, p) /\ threadlist' = threadlist
      <4>1. p \in Range(blockedlist) /\ Range(blockedlist') = Range(blockedlist) \ {p}
        BY <1>0, <3>1, <3>3, ContainsRange, RemoveSound
      <4> QED BY <3>1, <3>3, <4>1 DEF L
    <3> QED BY <2>1, <3>2, <3>3
  <2>3. Cardinality(Unshown') <= Cardinality(Misread')
    BY <1>1, <2>1, <2>2, VictimCounts
  <2>4. IsInjective(procdir') /\ Range(procdir') \subseteq Range(procdir)
    BY <1>0, <2>1, RemovesOneEntry DEF ProcNames, ProcShowsAll
  <2> QED BY <1>1, <2>3, <2>4 DEF ProcNames, ProcShowsAll
<1> QED
  BY <1>2, <1>3

(* Every step keeps the names.                                             *)
LEMMA NameStep ==
  ASSUME IInv, NameSets, NameSets', [Next]_vars, ProcNames
  PROVE  ProcNames'
<1>0. /\ processcount \in Int
      /\ \A p \in Procs : p <= processcount /\ p \in L' => p \in L
  BY NoReturnStep DEF NoReturn, L, IInv, TypeOK
<1>1. CASE UserProcess
  <2>1. /\ pc[currentthread] = "user_process" /\ processcount' = 1
        /\ procdir' = Append(procdir, 1)
    BY <1>1 DEF UserProcess, At
  <2>2. processcount = 0
    BY <2>1 DEF IInv, TypeOK, BootOrder, Threads, UserPlaces
  <2>3. 1 \in Procs
    BY MaxProcAssumption DEF Procs
  <2> QED BY <1>0, <2>1, <2>2, <2>3, NewName
<1>2. CASE sys_fork
  <2>1. /\ processcount' = processcount + 1 /\ processcount' <= MaxProc
        /\ procdir' = Append(procdir, processcount')
    BY <1>2, Zenon DEF sys_fork
  <2>2. processcount' \in Procs
    BY <2>1, MaxProcAssumption DEF IInv, TypeOK, Procs
  <2> QED BY <1>0, <2>1, <2>2, NewName
<1>3. ASSUME NEW p \in Procs, sys_kill(p)
      PROVE  ProcNames'
  <2>1. CASE StartSpin("confirm") \/ EndSpin("confirm")
    BY <2>1, NamesKept DEF StartSpin, EndSpin
  <2>2. CASE Terminate(p) /\ p <= processcount
    BY <2>2, TerminateNames
  <2> QED BY <1>3, <2>1, <2>2 DEF sys_kill
<1>4. CASE ~UserProcess /\ ~sys_fork /\ ~(\E p \in Procs : sys_kill(p))
  <2>1. UNCHANGED <<procdir, processcount>>
    BY <1>4 DEF Next, vars, ContextSwitch, Fun1, IdleFunc, Create, CallSchedule,
                TimerInterrupt, PageFault, Exit, thread_on_completion, Spin,
                sys_waitpid, WaitpidReturn, OtherSyscall, sys_execvpe, sys_read,
                sys_sleep, StartSpin, EndSpin
  <2> QED BY <2>1, NamesKept
<1> QED
  BY <1>1, <1>2, <1>3, <1>4

(* Whatever is forked and killed, no process has two entries in /proc, and *)
(* no more listed ones go without than processes are gone whose digits     *)
(* sys_kill turned into another name.                                      *)
THEOREM ProcIsComplete == Spec => []ProcShowsAll
<1>1. Init => ProcNames
  <2> SUFFICES ASSUME Init PROVE ProcNames
    OBVIOUS
  <2>1. procdir = <<>> /\ processcount = 0
    BY DEF Init
  <2>2. Range(procdir) = {}
    BY <2>1 DEF Range
  <2>3. IsInjective(procdir)
    BY <2>1 DEF IsInjective
  <2>4. Unshown = {} /\ Misread = {}
    BY <2>1 DEF Unshown, Misread
  <2>5. Cardinality(Unshown) <= Cardinality(Misread)
    BY <2>4, FS_EmptySet
  <2> QED BY <2>2, <2>3, <2>5 DEF ProcNames, ProcShowsAll
<1>2. IInv /\ NameSets /\ NameSets' /\ ProcNames /\ [Next]_vars => ProcNames'
  BY NameStep
<1>3. ProcNames => ProcShowsAll
  BY DEF ProcNames
<1> QED
  BY <1>1, <1>2, <1>3, Inductive, NamesFinite, PTL DEF Spec

-----------------------------------------------------------------------------
(* The slices                                                              *)

(* fun1 is a kernel thread without a parent, so that the slice it hands    *)
(* back goes to no process.                                                *)
Budget == SliceBudget /\ ppid[FUN1] = 0

(* The sum of the live slices is one over finitely many naturals.          *)
LEMMA LiveIs ==
  TypeOK => /\ IsFiniteSet(Live) /\ Live \subseteq 1..processcount
            /\ processcount \in Nat
            /\ \A p \in Live : p \in Threads /\ p \in Procs /\ totalslice[p] \in Nat
            /\ \A p \in 1..processcount : p \in Live <=> p \in L /\ state[p] # ZOMBIE
            /\ SumFunctionOnSet(totalslice, Live) \in Nat
<1> SUFFICES ASSUME TypeOK
             PROVE  /\ IsFiniteSet(Live) /\ Live \subseteq 1..processcount
                    /\ processcount \in Nat
                    /\ \A p \in Live : p \in Threads /\ p \in Procs /\ totalslice[p] \in Nat
                    /\ \A p \in 1..processcount : p \in Live <=> p \in L /\ state[p] # ZOMBIE
                    /\ SumFunctionOnSet(totalslice, Live) \in Nat
  OBVIOUS
<1>1. /\ processcount \in 0..MaxProc /\ totalslice \in [Threads -> Nat]
      /\ threadlist \in Seq(Threads) /\ blockedlist \in Seq(Threads)
  BY DEF TypeOK
<1>2. processcount \in Nat
  BY <1>1
<1>3. Live \in SUBSET (1..processcount)
  BY DEF Live
<1>4. IsFiniteSet(1..processcount)
  BY <1>2, FS_Interval
<1>5. IsFiniteSet(Live)
  BY <1>3, <1>4, FS_Subset
<1>6. \A p \in Live : p \in Threads /\ p \in Procs /\ totalslice[p] \in Nat
  BY <1>1, <1>3, PidsHandedOut
<1>7. \A p \in 1..processcount : p \in Live <=> p \in L /\ state[p] # ZOMBIE
  BY <1>1, ContainsRange DEF Live, Listed, L
<1>8. SumFunctionOnSet(totalslice, Live) \in Nat
  BY <1>5, <1>6, SumPick
<1> QED
  BY <1>2, <1>3, <1>5, <1>6, <1>7, <1>8

(* Before and after a step: no process that existed comes to life.         *)
LEMMA LiveStep ==
  ASSUME IInv, [Next]_vars
  PROVE  /\ IsFiniteSet(Live) /\ Live \subseteq 1..processcount
         /\ IsFiniteSet(Live') /\ Live' \subseteq 1..processcount'
         /\ processcount \in Nat /\ processcount' \in Nat
         /\ \A p \in Live : p \in Threads /\ p \in Procs /\ totalslice[p] \in Nat
         /\ \A p \in Live' : p \in Threads /\ p \in Procs /\ totalslice'[p] \in Nat
         /\ \A p \in Live' : p <= processcount => p \in Live
         /\ SumFunctionOnSet(totalslice, Live) \in Nat
         /\ SumFunctionOnSet(totalslice', Live') \in Nat
<1>1. IInv' /\ TypeOK /\ TypeOK'
  BY Invariance DEF IInv
<1>2. /\ IsFiniteSet(Live) /\ Live \subseteq 1..processcount
      /\ processcount \in Nat
      /\ \A p \in Live : p \in Threads /\ p \in Procs /\ totalslice[p] \in Nat
      /\ \A p \in 1..processcount : p \in Live <=> p \in L /\ state[p] # ZOMBIE
      /\ SumFunctionOnSet(totalslice, Live) \in Nat
  BY <1>1, LiveIs
<1>3. (TypeOK => /\ IsFiniteSet(Live) /\ Live \subseteq 1..processcount
                 /\ processcount \in Nat
                 /\ \A p \in Live : p \in Threads /\ p \in Procs /\ totalslice[p] \in Nat
                 /\ \A p \in 1..processcount : p \in Live <=> p \in L /\ state[p] # ZOMBIE
                 /\ SumFunctionOnSet(totalslice, Live) \in Nat)'
  BY LiveIs, PTL
<1>4. /\ IsFiniteSet(Live') /\ Live' \subseteq 1..processcount'
      /\ processcount' \in Nat
      /\ \A p \in Live' : p \in Threads /\ p \in Procs /\ totalslice'[p] \in Nat
      /\ \A p \in 1..processcount' : p \in Live' <=> p \in L' /\ state'[p] # ZOMBIE
      /\ SumFunctionOnSet(totalslice', Live') \in Nat
  BY <1>1, <1>3
<1>5. ASSUME NEW p \in Live', p <= processcount
      PROVE  p \in Live
  <2>1. p \in Procs /\ p \in Threads /\ p # MAIN /\ p \in 1..processcount
    BY <1>2, <1>4, <1>5 DEF Procs, MAIN
  <2>2. p \in L' /\ state'[p] # ZOMBIE
    BY <1>4, <1>5
  <2>3. NoReturn(p)
    BY <2>1, <1>5, NoReturnStep
  <2>4. p \in L
    BY <2>2, <2>3 DEF NoReturn, L
  <2>5. pc'[p] # "completed"
    BY <1>1, <2>1, <2>2 DEF IInv, CpuOwner
  <2>6. state[p] # ZOMBIE
    BY <1>1, <2>1, <2>3, <2>5 DEF IInv, CpuOwner, NoReturn
  <2> QED BY <1>2, <2>1, <2>4, <2>6
<1> QED
  BY <1>2, <1>4, <1>5

(* A step that raises no live slice and hands out no pid.                  *)
LEMMA SlicesKept ==
  ASSUME IInv, [Next]_vars, SliceBudget, processcount' = processcount,
         \A p \in Live' : totalslice'[p] <= totalslice[p]
  PROVE  SliceBudget'
<1>1. Live' \in SUBSET Live
  BY LiveStep
<1>2. \A p \in Live' : totalslice'[p] \in Nat
  BY LiveStep
<1>3. IsFiniteSet(Live) /\ \A p \in Live : totalslice[p] \in Nat
  BY LiveStep
<1>4. SumFunctionOnSet(totalslice', Live') <= SumFunctionOnSet(totalslice, Live)
  BY <1>1, <1>2, <1>3, SumLess
<1>5. /\ SumFunctionOnSet(totalslice', Live') \in Nat
      /\ SumFunctionOnSet(totalslice, Live) \in Nat
  BY LiveStep
<1> QED
  BY <1>4, <1>5 DEF SliceBudget

(* What the end of me hands to a process: its whole slice if it is the     *)
(* parent, nothing otherwise.                                              *)
LEMMA GivenBack ==
  ASSUME TypeOK, NEW me \in Threads, NEW t \in 1..processcount
  PROVE  /\ t # ppid[me] => GiveBackSlice(me)[t] = totalslice[t]
         /\ Pid(me) # ppid[me] => GiveBackSlice(me)[t] <= totalslice[t] + totalslice[me]
<1> DEFINE order == threadlist \o blockedlist
           paid(i) == Pid(me) = ppid[me] /\ \E j \in 1..(i - 1) : order[j] = me
           gain(i) == IF paid(i) THEN 2 * totalslice[me] ELSE totalslice[me]
           amount(u) == gain(SelectInSeq(order, LAMBDA w : w = u))
<1>1. totalslice \in [Threads -> Nat] /\ processcount \in 0..MaxProc
  BY DEF TypeOK
<1>2. t \in Threads /\ Pid(t) = t
  BY <1>1, PidsHandedOut DEF Pid
<1>3. GiveBackSlice(me) = [u \in Threads |->
         IF Pid(u) = ppid[me] /\ Contains(order, u)
         THEN totalslice[u] + amount(u) ELSE totalslice[u]]
  BY DEF GiveBackSlice
<1>4. Pid(me) # ppid[me] => amount(t) = totalslice[me]
  <2>1. Pid(me) # ppid[me] => \A i : gain(i) = totalslice[me]
    OBVIOUS
  <2> HIDE DEF gain
  <2> QED BY <2>1, Zenon
<1> HIDE DEF amount, order
<1>5. GiveBackSlice(me)[t] = IF t = ppid[me] /\ Contains(order, t)
                             THEN totalslice[t] + amount(t) ELSE totalslice[t]
  BY <1>2, <1>3
<1>6. totalslice[t] \in Nat /\ totalslice[me] \in Nat
  BY <1>1, <1>2
<1> QED
  BY <1>4, <1>5, <1>6

(* The slice of a process that ends goes to one process at most, and that  *)
(* one is not itself.                                                      *)
LEMMA CompletionBudget ==
  ASSUME IInv, [Next]_vars, Budget, thread_on_completion,
         pc[currentthread] \in UserPlaces \cup {"fun1_return"}
  PROVE  SliceBudget'
<1> DEFINE me == currentthread
           par == ppid[me]
<1>0. /\ me \in Threads /\ TypeOK /\ IInv' /\ processcount' = processcount
      /\ totalslice' = GiveBackSlice(me)
      /\ pc' = [pc EXCEPT ![me] = "completed"] /\ pc \in [Threads -> Places]
  BY Invariance, Zenon DEF thread_on_completion, IInv, TypeOK
<1>1. CASE pc[me] = "fun1_return"
  <2>1. me = FUN1
    BY <1>0, <1>1 DEF IInv, BootOrder, Threads, UserPlaces
  <2>2. par = 0
    BY <2>1 DEF Budget
  <2>3. ASSUME NEW p \in Live'
        PROVE  totalslice'[p] <= totalslice[p]
    <3>1. p \in Live /\ totalslice[p] \in Nat /\ p \in 1..processcount /\ p # 0
      BY <1>0, LiveStep
    <3>2. GiveBackSlice(me)[p] = totalslice[p]
      BY <1>0, <2>2, <3>1, GivenBack
    <3> QED BY <1>0, <3>1, <3>2
  <2> QED BY <1>0, <2>3, SlicesKept DEF Budget
<1>2. CASE pc[me] \in UserPlaces
  <2>1. me \in Procs /\ 1 <= me /\ me <= processcount /\ Pid(me) = me
    BY <1>2, UserHasPid
  <2>2. par < me /\ par # me
    BY <2>1 DEF IInv, TypeOK, Waiters, Procs
  <2>3. me \in Live
    <3>1. me \in 1..processcount
      BY <2>1, LiveStep DEF Procs
    <3>2. me \in L
      BY DEF IInv, CpuOwner, L
    <3>3. pc[me] # "completed" /\ me # MAIN
      BY <1>2, <2>1 DEF UserPlaces, MAIN
    <3>4. state[me] # ZOMBIE
      BY <1>0, <3>3 DEF IInv, CpuOwner
    <3> QED BY <1>0, <3>1, <3>2, <3>4, LiveIs
  <2>4. me \notin Live'
    <3>1. pc'[me] = "completed"
      BY <1>0
    <3>2. state'[me] = ZOMBIE
      BY <1>0, <2>1, <3>1 DEF IInv, CpuOwner, MAIN
    <3> QED BY <3>2 DEF Live
  <2>5. ASSUME NEW p \in Live'
        PROVE  /\ p \in Live /\ p # me
               /\ p # par => totalslice'[p] <= totalslice[p]
               /\ p = par => totalslice'[p] <= totalslice[p] + totalslice[me]
    <3>1. p \in Live /\ totalslice[p] \in Nat /\ p \in 1..processcount
      BY <1>0, LiveStep
    <3>2. /\ p # par => GiveBackSlice(me)[p] = totalslice[p]
          /\ Pid(me) # par => GiveBackSlice(me)[p] <= totalslice[p] + totalslice[me]
      BY <1>0, <3>1, GivenBack
    <3> QED BY <1>0, <2>1, <2>2, <2>4, <3>1, <3>2
  <2> DEFINE D == Live
             E == Live'
             f == totalslice
             g == totalslice'
             u == 0
             v == IF par \in D THEN f[par] + f[me] ELSE 0
  <2>6. /\ IsFiniteSet(D) /\ IsFiniteSet(E)
        /\ \A x \in D : f[x] \in Nat
        /\ \A x \in E : g[x] \in Nat
        /\ SumFunctionOnSet(f, D) \in Nat /\ SumFunctionOnSet(g, E) \in Nat
        /\ SumFunctionOnSet(f, D) <= MAXSLICE
    BY LiveStep DEF Budget, SliceBudget
  <2> HIDE DEF D, E, f, g, me, par
  <2>7. /\ me \in D /\ me \notin E /\ me # par
        /\ E \ {me, par} \subseteq D \ {me, par}
        /\ \A x \in E \ {me, par} : g[x] <= f[x]
        /\ par \in E => par \in D /\ g[par] <= f[par] + f[me]
    BY <2>2, <2>3, <2>4, <2>5 DEF D, E, f, g
  <2>8. /\ u \in Nat /\ v \in Nat
        /\ (me \in E => g[me] <= u) /\ (par \in E => g[par] <= v)
        /\ u + v <= f[me] + (IF par \in D THEN f[par] ELSE 0)
    BY <2>6, <2>7
  <2> HIDE DEF u, v
  <2>9. SumFunctionOnSet(g, E) <= SumFunctionOnSet(f, D)
    BY <2>6, <2>7, <2>8, Shares
  <2>10. SumFunctionOnSet(g, E) <= MAXSLICE
    BY <2>6, <2>9
  <2> QED BY <2>10 DEF g, E, SliceBudget
<1> QED
  BY <1>1, <1>2

(* Parent and child of a fork have no more together than the parent had.   *)
LEMMA ForkBudget ==
  ASSUME IInv, [Next]_vars, Budget, sys_fork
  PROVE  SliceBudget'
<1> DEFINE me == currentthread
           child == processcount + 1
<1>0. /\ pc[me] = "user" /\ processcount' = child /\ TypeOK
      /\ totalslice' = HalveSlice(totalslice, me, child)
      /\ totalslice \in [Threads -> Nat] /\ child <= MaxProc
  BY Zenon DEF sys_fork, At, IInv, TypeOK
<1>1. me \in Procs /\ 1 <= me /\ me <= processcount /\ me \in Threads
  BY <1>0, UserHasPid DEF UserPlaces, Threads
<1>2. child \in Threads /\ child # me /\ child \notin 1..processcount
  BY <1>0, <1>1, LiveStep DEF Threads, Procs
<1>3. /\ totalslice'[me] = totalslice[me] \div 2
      /\ totalslice'[child] = totalslice[me] \div 2
      /\ \A t \in Threads : t \notin {me, child} => totalslice'[t] = totalslice[t]
  <2> HIDE DEF me, child
  <2> QED BY <1>0, <1>1, <1>2 DEF HalveSlice
<1>4. me \in Live
  <2>1. me \in 1..processcount
    BY <1>1, LiveStep DEF Procs
  <2>2. me \in L
    BY DEF IInv, CpuOwner, L
  <2>3. pc[me] # "completed" /\ me # MAIN
    BY <1>0, <1>1 DEF MAIN
  <2>4. state[me] # ZOMBIE
    BY <1>1, <2>3 DEF IInv, CpuOwner
  <2> QED BY <1>0, <2>1, <2>2, <2>4, LiveIs
<1>5. ASSUME NEW p \in Live', p # child
      PROVE  p \in Live /\ (p # me => totalslice'[p] <= totalslice[p])
  <2>1. p \in 1..child /\ p \in Threads /\ processcount \in Nat
    BY <1>0, LiveStep
  <2>2. p <= processcount
    BY <1>5, <2>1
  <2>3. p \in Live /\ totalslice[p] \in Nat
    BY <2>2, LiveStep
  <2>4. p # me => totalslice'[p] = totalslice[p]
    BY <1>3, <1>5, <2>1
  <2> QED BY <2>3, <2>4
<1> DEFINE D == Live
           E == Live'
           f == totalslice
           g == totalslice'
           u == f[me] \div 2
<1>6. /\ IsFiniteSet(D) /\ IsFiniteSet(E)
      /\ \A x \in D : f[x] \in Nat
      /\ \A x \in E : g[x] \in Nat
      /\ SumFunctionOnSet(f, D) \in Nat /\ SumFunctionOnSet(g, E) \in Nat
      /\ SumFunctionOnSet(f, D) <= MAXSLICE
  BY LiveStep DEF Budget, SliceBudget
<1>7. child \notin D
  BY <1>2, LiveStep
<1> HIDE DEF D, E, f, g, me, child
<1>8. /\ me \in D /\ me # child /\ child \notin D
      /\ E \ {me, child} \subseteq D \ {me, child}
      /\ \A x \in E \ {me, child} : g[x] <= f[x]
      /\ g[me] = u /\ g[child] = u
  BY <1>2, <1>3, <1>4, <1>5, <1>7 DEF D, E, f, g
<1>9. u \in Nat /\ u + u <= f[me]
  BY <1>6, <1>8
<1> HIDE DEF u
<1>10. /\ (me \in E => g[me] <= u) /\ (child \in E => g[child] <= u)
       /\ u + u <= f[me] + (IF child \in D THEN f[child] ELSE 0)
  <2>1. f[me] \in Nat
    BY <1>6, <1>8
  <2> QED BY <1>8, <1>9, <2>1
<1>11. SumFunctionOnSet(g, E) <= SumFunctionOnSet(f, D)
  BY <1>6, <1>8, <1>9, <1>10, Shares
<1>12. SumFunctionOnSet(g, E) <= MAXSLICE
  BY <1>6, <1>11
<1> QED BY <1>12 DEF g, E, SliceBudget

(* The slice of a new thread is no process's yet.                          *)
LEMMA BootBudget ==
  ASSUME IInv, [Next]_vars, Budget, ContextSwitch \/ Fun1
  PROVE  SliceBudget'
<1>0. /\ processcount' = processcount /\ totalslice \in [Threads -> Nat]
      /\ currentthread \in Threads
  BY DEF ContextSwitch, Fun1, Create, CallSchedule, IInv, TypeOK
<1>1. ASSUME NEW p \in Live', NEW t \in Threads, t # p,
             totalslice' = [totalslice EXCEPT ![t] = 1]
      PROVE  totalslice'[p] <= totalslice[p]
  <2>1. p \in Threads
    BY LiveStep
  <2>2. totalslice'[p] = totalslice[p]
    BY <1>0, <1>1, <2>1
  <2> QED BY <1>0, <2>1, <2>2
<1>2. ASSUME NEW p \in Live'
      PROVE  totalslice'[p] <= totalslice[p]
  <2>0. p \in Threads /\ p \in Procs /\ p \in 1..processcount
    BY <1>0, LiveStep
  <2>1. CASE UNCHANGED totalslice
    BY <1>0, <2>0, <2>1
  <2>2. CASE totalslice' = [totalslice EXCEPT ![FUN1] = 1]
    <3>1. FUN1 \in Threads /\ FUN1 # p
      BY <2>0, ThreadNames DEF FUN1, Procs
    <3> QED BY <1>1, <2>2, <3>1
  <2>3. CASE totalslice' = [totalslice EXCEPT ![IDLE] = 1]
    <3>1. IDLE \in Threads /\ IDLE # p
      BY <2>0, ThreadNames DEF IDLE, Procs
    <3> QED BY <1>1, <2>3, <3>1
  <2>4. CASE pc[currentthread] = "fun1_user"
    <3>1. currentthread = FUN1
      BY <1>0, <2>4 DEF IInv, BootOrder, Threads, UserPlaces
    <3>2. processcount = 0
      BY <2>4, <3>1 DEF IInv, BootOrder
    <3> QED BY <2>0, <3>2
  <2> QED BY <2>1, <2>2, <2>3, <2>4
          DEF ContextSwitch, Fun1, Create, create_thread, CallSchedule, At
<1> QED
  BY <1>0, <1>2, SlicesKept DEF Budget

(* The first process starts with the whole budget, alone.                  *)
LEMMA FirstBudget ==
  ASSUME IInv, [Next]_vars, Budget, UserProcess
  PROVE  SliceBudget'
<1>1. /\ pc[currentthread] = "user_process" /\ processcount' = 1
      /\ totalslice' = [totalslice EXCEPT ![currentthread] = MAXSLICE]
      /\ totalslice \in [Threads -> Nat] /\ currentthread \in Threads
  BY DEF UserProcess, At, IInv, TypeOK
<1>2. currentthread = 1
  BY <1>1 DEF IInv, BootOrder, Threads, UserPlaces
<1>3. totalslice'[1] = MAXSLICE
  BY <1>1, <1>2
<1> DEFINE E == Live'
           g == totalslice'
<1>4. /\ IsFiniteSet(E) /\ E \subseteq {1} /\ \A x \in E : g[x] \in Nat
      /\ SumFunctionOnSet(g, E) \in Nat
  BY <1>1, LiveStep
<1>5. g[1] = MAXSLICE
  BY <1>3
<1> HIDE DEF E, g
<1>6. CASE E = {}
  <2>1. SumFunctionOnSet(g, E) = 0
    BY <1>4, <1>6, SumPick
  <2> QED BY <2>1 DEF E, g, SliceBudget
<1>7. CASE E = {1}
  <2>1. SumFunctionOnSet(g, E) = g[1] + SumFunctionOnSet(g, E \ {1})
    BY <1>4, <1>7, SumTake
  <2>2. E \ {1} = {}
    BY <1>7
  <2>3. SumFunctionOnSet(g, E \ {1}) = 0
    <3> DEFINE Z == E \ {1}
    <3>1. Z = {} /\ IsFiniteSet(Z)
      BY <2>2, FS_EmptySet
    <3> HIDE DEF Z
    <3>2. SumFunctionOnSet(g, Z) = 0
      BY <3>1, SumPick
    <3> QED BY <3>2 DEF Z
  <2>4. SumFunctionOnSet(g, E) = MAXSLICE
    BY <1>5, <2>1, <2>3
  <2> QED BY <2>4 DEF E, g, SliceBudget
<1> QED
  BY <1>4, <1>6, <1>7

(* Every step keeps the budget.                                            *)
LEMMA BudgetStep ==
  ASSUME IInv, Budget, [Next]_vars
  PROVE  Budget'
<1>0. currentthread \in Threads /\ processcount \in 0..MaxProc
      /\ ppid \in [Threads -> 0..MaxProc] /\ totalslice \in [Threads -> Nat]
  BY DEF IInv, TypeOK
<1>1. ppid'[FUN1] = 0
  <2>1. CASE UserProcess
    <3>1. pc[currentthread] = "user_process"
          /\ ppid' = [ppid EXCEPT ![currentthread] = 0]
      BY <2>1 DEF UserProcess, At
    <3> QED BY <1>0, <3>1, ThreadNames DEF Budget
  <2>2. CASE sys_fork
    <3>1. ppid' = [ppid EXCEPT ![processcount + 1] = Pid(currentthread)]
      BY <2>2, Zenon DEF sys_fork
    <3>2. FUN1 # processcount + 1
      BY <1>0 DEF FUN1
    <3> QED BY <1>0, <3>1, <3>2, ThreadNames DEF Budget
  <2>3. CASE ~UserProcess /\ ~sys_fork
    <3>1. ppid' = ppid
      BY <2>3 DEF Next, vars, ContextSwitch, Fun1, IdleFunc, Create, CallSchedule,
                TimerInterrupt, PageFault, pcb, Exit, thread_on_completion, Spin,
                sys_waitpid, WaitpidReturn, OtherSyscall, sys_execvpe, sys_read,
                sys_sleep, StartSpin, EndSpin, sys_kill, Terminate
    <3> QED BY <3>1 DEF Budget
  <2> QED BY <2>1, <2>2, <2>3
<1>2. CASE UNCHANGED <<totalslice, processcount>>
  <2>1. ASSUME NEW p \in Live'
        PROVE  totalslice'[p] <= totalslice[p]
    <3>1. p \in Threads
      BY LiveStep
    <3> QED BY <1>0, <1>2, <3>1
  <2> QED BY <1>1, <1>2, <2>1, SlicesKept DEF Budget
<1>3. CASE ContextSwitch \/ Fun1
  BY <1>1, <1>3, BootBudget DEF Budget
<1>4. CASE UserProcess
  BY <1>1, <1>4, FirstBudget DEF Budget
<1>5. CASE sys_fork
  BY <1>1, <1>5, ForkBudget DEF Budget
<1>6. CASE /\ thread_on_completion
           /\ pc[currentthread] \in UserPlaces \cup {"fun1_return"}
  BY <1>1, <1>6, CompletionBudget DEF Budget
<1>7. CASE Exit
  BY <1>6, <1>7 DEF Exit, At, UserPlaces
<1>8. ASSUME NEW p \in Procs, sys_kill(p)
      PROVE  Budget'
  <2>1. CASE StartSpin("confirm") \/ EndSpin("confirm")
    BY <1>2, <2>1 DEF StartSpin, EndSpin, pcb
  <2>2. CASE Terminate(p) /\ pc[currentthread] \in UserPlaces
    <3>1. CASE thread_on_completion
      BY <1>6, <2>2, <3>1
    <3>2. CASE UNCHANGED <<totalslice, processcount>>
      BY <1>2, <3>2
    <3> QED BY <2>2, <3>1, <3>2 DEF Terminate
  <2> QED BY <1>8, <2>1, <2>2 DEF sys_kill, At, UserPlaces
<1>9. CASE /\ ~(ContextSwitch \/ Fun1) /\ ~UserProcess /\ ~sys_fork /\ ~Exit
           /\ ~(\E p \in Procs : sys_kill(p))
  <2>1. UNCHANGED <<totalslice, processcount>>
    BY <1>9 DEF Next, vars, IdleFunc, CallSchedule, TimerInterrupt, PageFault,
                pcb, Spin, sys_waitpid, WaitpidReturn, OtherSyscall, sys_execvpe,
                sys_read, sys_sleep, StartSpin, EndSpin
  <2> QED BY <1>2, <2>1
<1> QED
  BY <1>3, <1>4, <1>5, <1>7, <1>8, <1>9

(* The slices that copy_process halves and thread_on_completion hands back *)
(* never add up to more than the MAXSLICE ticks process 1 started with.    *)
THEOREM SlicesWithinBudget == Spec => []SliceBudget
<1>1. Init => Budget
  <2> SUFFICES ASSUME Init PROVE Budget
    OBVIOUS
  <2>1. processcount = 0 /\ ppid = [t \in Threads |-> 0]
    BY DEF Init
  <2>2. ppid[FUN1] = 0
    BY <2>1, ThreadNames
  <2>3. Live = {}
    BY <2>1 DEF Live
  <2>4. SumFunctionOnSet(totalslice, {}) = 0
    <3> DEFINE Z == {}
    <3>1. Z = {} /\ IsFiniteSet(Z) /\ \A x \in Z : totalslice[x] \in Nat
      BY FS_EmptySet
    <3> HIDE DEF Z
    <3>2. SumFunctionOnSet(totalslice, Z) = 0
      BY <3>1, SumPick
    <3> QED BY <3>2 DEF Z
  <2> QED BY <2>2, <2>3, <2>4 DEF Budget, SliceBudget
<1>2. IInv /\ Budget /\ [Next]_vars => Budget'
  BY BudgetStep
<1>3. Budget => SliceBudget
  BY DEF Budget
<1> QED
  BY <1>1, <1>2, <1>3, Inductive, PTL DEF Spec
=============================================================================
