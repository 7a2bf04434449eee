------------------------------- MODULE Clock -------------------------------
(***************************************************************************)
(* The clock the timer interrupt keeps (idt.c) and the system call that    *)
(* waits on it (sys_sleep).  interrupt0 counts ticks twice: in tcount, for *)
(* sys_sleep, and in the hours, minutes, seconds and ticks it displays.    *)
(* sys_sleep polls tcount with interrupts on; when it gets to poll is up   *)
(* to the scheduler, so Poll may happen at any time or not at all.         *)
(***************************************************************************)
EXTENDS Integers

CONSTANTS
  Sleepers,     \* processes that call sys_sleep
  MaxSeconds,   \* bound: the longest sleep
  MaxStart,     \* bound: the last tick a sleep begins in
  MaxTicks      \* bound: the ticks counted

ASSUME MaxSecondsAssumption == MaxSeconds \in Nat
ASSUME MaxStartAssumption == MaxStart \in Nat
ASSUME MaxTicksAssumption == MaxTicks \in Nat

VARIABLES
  tcount, mscount, scount, mcount, hcount,
  asleep,     \* the sleepers inside sys_sleep
  seconds,    \* argument of a sleeper's call
  time,       \* local variable of sys_sleep: the tick last counted from
  slept,      \* local variable scount of sys_sleep: the seconds counted
  start       \* the tick the call was made in (history)

clock == <<tcount, mscount, scount, mcount, hcount>>
sleep == <<asleep, seconds, time, slept, start>>
vars == <<tcount, mscount, scount, mcount, hcount,
          asleep, seconds, time, slept, start>>

TicksPerSecond == 18
TicksPerDay == 24 * 60 * 60 * TicksPerSecond

Init ==
  /\ tcount = 0 /\ mscount = 0 /\ scount = 0 /\ mcount = 0 /\ hcount = 0
  /\ asleep = {}
  /\ seconds = [p \in Sleepers |-> 0]
  /\ time = [p \in Sleepers |-> 0]
  /\ slept = [p \in Sleepers |-> 0]
  /\ start = [p \in Sleepers |-> 0]

(* Faulty: a minute is taken to be full a second late.                     *)
MinuteFullLate(s) == s > 60

MinuteFull(s) == s = 60

(* handletime: minutes and hours after a full minute, given the minutes    *)
(* already counted up.                                                     *)
Carry(m, h) ==
  LET hours == IF m = 60 THEN h + 1 ELSE h
  IN  <<IF m = 60 THEN 0 ELSE m, IF hours = 24 THEN 0 ELSE hours>>

(* interrupt0 and handletime: the seconds are carried into the minutes     *)
(* first, and only then is a new second counted.                           *)
interrupt0 ==
  LET carried == Carry(mcount + 1, hcount)
      full == MinuteFull(scount)
      s == IF full THEN 0 ELSE scount
  IN  /\ tcount < MaxTicks
      /\ tcount' = tcount + 1
      /\ mcount' = IF full THEN carried[1] ELSE mcount
      /\ hcount' = IF full THEN carried[2] ELSE hcount
      /\ \/ /\ mscount + 1 = TicksPerSecond
            /\ mscount' = 0
            /\ scount' = s + 1
         \/ /\ mscount + 1 # TicksPerSecond
            /\ mscount' = mscount + 1
            /\ scount' = s
      /\ UNCHANGED sleep

sys_sleep(p) ==
  /\ p \notin asleep
  /\ tcount <= MaxStart
  /\ asleep' = asleep \cup {p}
  /\ \E n \in 0..MaxSeconds : seconds' = [seconds EXCEPT ![p] = n]
  /\ time' = [time EXCEPT ![p] = tcount]
  /\ slept' = [slept EXCEPT ![p] = 0]
  /\ start' = [start EXCEPT ![p] = tcount]
  /\ UNCHANGED clock

(* Faulty: 17 ticks are taken for a second.                                *)
ShortSecond(ticks) == ticks = TicksPerSecond - 1

(* sys_sleep counts a second when exactly 18 ticks have passed.            *)
SecondPassed(ticks) == ticks = TicksPerSecond

(* Faulty: the loop waits for a first second before it looks at the end.   *)
FirstCounted(n, asked) == n > 0 /\ n >= asked

AllCounted(n, asked) == n >= asked

(* One turn of the loop of sys_sleep: read tcount, count a second if it is *)
(* due, leave when all seconds are counted.                                *)
Poll(p) ==
  LET due == SecondPassed(tcount - time[p])
      n == IF due THEN slept[p] + 1 ELSE slept[p]
  IN  /\ p \in asleep
      /\ slept' = [slept EXCEPT ![p] = n]
      /\ time' = [time EXCEPT ![p] = IF due THEN tcount ELSE time[p]]
      /\ asleep' = IF AllCounted(n, seconds[p]) THEN asleep \ {p} ELSE asleep
      /\ UNCHANGED <<clock, seconds, start>>

(* The bound on the ticks is reached.                                      *)
OutOfTicks == tcount = MaxTicks /\ UNCHANGED vars

Next ==
  \/ interrupt0
  \/ \E p \in Sleepers : sys_sleep(p) \/ Poll(p)
  \/ OutOfTicks

Spec == Init /\ [][Next]_vars

(* The hardware keeps raising the timer line, and a sleeper gets the CPU   *)
(* again (NoStarvation of Scheduler), though not in any given tick.        *)
Fairness == WF_vars(interrupt0) /\ \A p \in Sleepers : WF_vars(Poll(p))

FairSpec == Spec /\ Fairness

-----------------------------------------------------------------------------
(* Properties                                                              *)

(* Type correctness; the seconds reach 60 for one tick, because handletime *)
(* carries them only on the next interrupt.                                *)
TypeOK ==
  /\ tcount \in 0..MaxTicks
  /\ mscount \in 0..17 /\ scount \in 0..60 /\ mcount \in 0..59 /\ hcount \in 0..23
  /\ asleep \subseteq Sleepers
  /\ seconds \in [Sleepers -> 0..MaxSeconds]
  /\ time \in [Sleepers -> 0..MaxTicks]
  /\ slept \in [Sleepers -> Nat]
  /\ start \in [Sleepers -> 0..MaxTicks]

(* The ticks the display stands for.                                       *)
Displayed ==
  ((hcount * 60 + mcount) * 60 + scount) * TicksPerSecond + mscount

(* The displayed clock and the tick counter, which interrupt0 advances     *)
(* separately, never drift apart: the display is tcount modulo a day, also *)
(* across the carries of minutes, hours and days.                          *)
ClockExact == (tcount - Displayed) % TicksPerDay = 0

(* A sleep of at least a second that ends does so exactly its seconds      *)
(* times 18 ticks after it began, however irregularly the loop of          *)
(* sys_sleep got the CPU; a sleep of 0 ends with the first poll.           *)
SleepExact ==
  [][\A p \in asleep \ asleep' :
        seconds[p] > 0 => tcount = start[p] + TicksPerSecond * seconds[p]]_vars

(* A sleeper was off the CPU during the tick in which its second was due.  *)
Missed(p) ==
  p \in asleep /\ slept[p] < seconds[p] /\ tcount - time[p] > TicksPerSecond

(* A sleep ends, unless its loop misses one of the ticks it compares with: *)
(* then it never does, however often it polls from there on.  (Sleeps due  *)
(* before the bound on the ticks.)                                         *)
SleepEnds ==
  \A p \in Sleepers :
    (p \in asleep /\ start[p] + TicksPerSecond * seconds[p] < MaxTicks)
      ~> (p \notin asleep \/ []Missed(p))
=============================================================================
