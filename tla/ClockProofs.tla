---------------------------- MODULE ClockProofs ----------------------------
(* Proofs about the clock and about sys_sleep, for any set of sleepers and *)
(* any bounds.                                                             *)
EXTENDS Clock, TLAPS

USE MaxSecondsAssumption, MaxTicksAssumption

-----------------------------------------------------------------------------
(* The counters of interrupt0 and the variables of sys_sleep stay in their *)
(* ranges.                                                                 *)
THEOREM TypeCorrect == Spec => []TypeOK
<1>1. Init => TypeOK
  BY DEF Init, TypeOK
<1>2. TypeOK /\ [Next]_vars => TypeOK'
  <2> SUFFICES ASSUME TypeOK, [Next]_vars
               PROVE  TypeOK'
    OBVIOUS
  <2> USE DEF TypeOK
  <2>1. CASE interrupt0
    BY <2>1 DEF interrupt0, MinuteFull, Carry, TicksPerSecond, sleep
  <2>2. CASE \E p \in Sleepers : sys_sleep(p)
    BY <2>2 DEF sys_sleep, clock
  <2>3. ASSUME NEW p \in Sleepers, Poll(p)
        PROVE  TypeOK'
    BY <2>3 DEF Poll, SecondPassed, AllCounted, clock
  <2>4. CASE UNCHANGED vars
    BY <2>4 DEF vars
  <2> QED
    BY <2>1, <2>2, <2>3, <2>4 DEF Next, OutOfTicks
<1> QED
  BY <1>1, <1>2, PTL DEF Spec

-----------------------------------------------------------------------------
(* ClockExact is not inductive in the form with %: the proof carries the   *)
(* number of whole days along.                                             *)
WholeDays == \E d \in Nat : tcount = d * 1555200 + Displayed

(* Counting whole days implies the statement with the remainder.           *)
LEMMA WholeDaysExact == TypeOK /\ WholeDays => ClockExact
<1> SUFFICES ASSUME TypeOK, NEW d \in Nat, tcount = d * 1555200 + Displayed
             PROVE  ClockExact
  BY SMT DEF WholeDays
<1>1. Displayed \in Int /\ tcount \in Int
  BY SMT DEF TypeOK, Displayed, TicksPerSecond
<1>2. tcount - Displayed = d * 1555200
  BY <1>1, SMT
<1>3. TicksPerDay = 1555200
  BY SMT DEF TicksPerDay, TicksPerSecond
<1>4. (d * 1555200) % 1555200 = 0
  BY SMT
<1> QED
  BY <1>2, <1>3, <1>4, SMT DEF ClockExact

(* A tick keeps the count of whole days: a carry of seconds, minutes or    *)
(* hours moves the same number of ticks, and midnight adds a day.          *)
LEMMA WholeDaysTick ==
  ASSUME TypeOK, WholeDays, interrupt0
  PROVE  WholeDays'
<1> USE DEF TypeOK, TicksPerSecond
<1> PICK d \in Nat : tcount = d * 1555200 + Displayed
  BY SMT DEF WholeDays
<1>1. tcount' = tcount + 1 /\ scount' \in Int /\ mscount' \in Int
  BY SMT DEF interrupt0, MinuteFull
<1>2. CASE scount = 60 /\ mcount = 59 /\ hcount = 23
  <2>1. hcount' = 0 /\ mcount' = 0
    BY <1>2, SMT DEF interrupt0, MinuteFull, Carry
  <2>2. scount' * 18 + mscount' = mscount + 1
    BY <1>2, SMT DEF interrupt0, MinuteFull
  <2>3. Displayed = 1555200 + mscount
    BY <1>2, SMT DEF Displayed
  <2>4. Displayed' = scount' * 18 + mscount'
    BY <1>1, <2>1, SMT DEF Displayed
  <2>5. PICK e \in Nat : e = d + 1
    OBVIOUS
  <2>6. tcount' = e * 1555200 + Displayed'
    <3>1. Displayed' = mscount + 1
      BY <2>2, <2>4, SMT
    <3>2. e * 1555200 = d * 1555200 + 1555200
      BY <2>5, SMT
    <3>3. tcount' = d * 1555200 + (1555200 + mscount) + 1
      BY <1>1, <2>3, SMT
    <3> QED
      BY <3>1, <3>2, <3>3, SMT
  <2> QED
    BY <2>6, SMT DEF WholeDays
<1>3. CASE ~(scount = 60 /\ mcount = 59 /\ hcount = 23)
  <2>1. Displayed' = Displayed + 1
    BY <1>3, SMTT(60) DEF interrupt0, MinuteFull, Carry, Displayed
  <2>2. tcount' = d * 1555200 + Displayed'
    BY <1>1, <2>1, SMT DEF Displayed
  <2> QED
    BY <2>2, SMT DEF WholeDays
<1> QED
  BY <1>2, <1>3

(* The displayed time of interrupt0 is its tick counter modulo a day.      *)
THEOREM ClockNeverDrifts == Spec => []ClockExact
<1>1. Init => WholeDays
  BY SMT DEF Init, WholeDays, Displayed, TicksPerSecond
<1>2. TypeOK /\ WholeDays /\ [Next]_vars => WholeDays'
  <2> SUFFICES ASSUME TypeOK, WholeDays, [Next]_vars
               PROVE  WholeDays'
    OBVIOUS
  <2>1. CASE interrupt0
    BY <2>1, WholeDaysTick
  <2>2. CASE UNCHANGED clock
    BY <2>2, SMT DEF WholeDays, Displayed, clock
  <2> QED
    BY <2>1, <2>2 DEF Next, sys_sleep, Poll, OutOfTicks, vars, clock
<1> QED
  BY <1>1, <1>2, TypeCorrect, WholeDaysExact, PTL DEF Spec

-----------------------------------------------------------------------------
(* What holds of a process inside the loop of sys_sleep: time is where the *)
(* seconds counted so far end, and there are seconds left to count.        *)
SleepLoop ==
  \A p \in asleep :
    seconds[p] > 0 => /\ time[p] = start[p] + 18 * slept[p]
                      /\ slept[p] < seconds[p]

(* Every step keeps what the loop of sys_sleep relies on.                  *)
LEMMA SleepLoopStep ==
  ASSUME TypeOK, SleepLoop, [Next]_vars
  PROVE  SleepLoop'
<1> USE DEF TypeOK
<1>1. CASE interrupt0 \/ UNCHANGED vars
  BY <1>1 DEF interrupt0, vars, sleep, SleepLoop
<1>2. ASSUME NEW q \in Sleepers, sys_sleep(q)
      PROVE  SleepLoop'
  BY <1>2 DEF sys_sleep, clock, SleepLoop
<1>3. ASSUME NEW q \in Sleepers, Poll(q)
      PROVE  SleepLoop'
  BY <1>3 DEF Poll, SecondPassed, AllCounted, TicksPerSecond, clock, SleepLoop
<1> QED
  BY <1>1, <1>2, <1>3 DEF Next, OutOfTicks

(* A sleep of at least a second ends exactly when its seconds have passed. *)
THEOREM SleepIsExact == Spec => SleepExact
<1>1. Init => SleepLoop
  BY DEF Init, SleepLoop
<1>2. TypeOK /\ SleepLoop /\ [Next]_vars => SleepLoop'
  BY SleepLoopStep
<1>3. TypeOK /\ SleepLoop /\ [Next]_vars =>
        [\A p \in asleep \ asleep' :
           seconds[p] > 0 => tcount = start[p] + TicksPerSecond * seconds[p]]_vars
  <2> SUFFICES ASSUME TypeOK, SleepLoop, Next, NEW p \in asleep \ asleep',
                      seconds[p] > 0
               PROVE  tcount = start[p] + TicksPerSecond * seconds[p]
    BY DEF vars
  <2> USE DEF TypeOK
  <2>1. Poll(p)
    BY DEF Next, interrupt0, sys_sleep, Poll, OutOfTicks, sleep, vars
  <2> QED
    BY <2>1 DEF Poll, SecondPassed, AllCounted, SleepLoop, TicksPerSecond
<1> QED
  BY <1>1, <1>2, <1>3, TypeCorrect, PTL DEF Spec, SleepExact

(* A sleeper that has missed a tick has missed it for ever: no later poll  *)
(* of sys_sleep counts that second, and so it never returns.  This is the  *)
(* safety half of SleepEnds.                                               *)
THEOREM MissedForEver ==
  ASSUME NEW p \in Sleepers
  PROVE  Spec => [](Missed(p) => []Missed(p))
<1>1. TypeOK /\ Missed(p) /\ [Next]_vars => Missed(p)'
  <2> SUFFICES ASSUME TypeOK, Missed(p), [Next]_vars
               PROVE  Missed(p)'
    OBVIOUS
  <2> USE DEF TypeOK, Missed
  <2>1. CASE interrupt0
    <3>1. tcount' = tcount + 1 /\ UNCHANGED sleep
      BY <2>1 DEF interrupt0
    <3> QED
      BY <3>1, SMT DEF sleep, TicksPerSecond
  <2>4. CASE UNCHANGED vars
    BY <2>4 DEF vars
  <2>2. ASSUME NEW q \in Sleepers, sys_sleep(q)
        PROVE  Missed(p)'
    BY <2>2 DEF sys_sleep, clock
  <2>3. ASSUME NEW q \in Sleepers, Poll(q)
        PROVE  Missed(p)'
    BY <2>3 DEF Poll, SecondPassed, AllCounted, TicksPerSecond, clock
  <2> QED
    BY <2>1, <2>2, <2>3, <2>4 DEF Next, OutOfTicks
<1> QED
  BY <1>1, TypeCorrect, PTL DEF Spec
=============================================================================
