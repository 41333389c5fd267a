---------------------------- MODULE DelayTimer ----------------------------
(* DELAY_Microseconds of DRIVERS/src/Delay.c: several tasks (the display     *)
(* task, the timer task that reads the buttons, the menu task's I2C loop)    *)
(* program the same Timer 2, register by register and without a mutex: the   *)
(* one in the source is commented out.                                       *)
(*                                                                           *)
(* The timer stops, and is reset, when it reaches its match register (MCR).  *)
(* Time passes in units of the timer's count; a system tick comes every      *)
(* TickLen units.                                                            *)
EXTENDS Naturals

CONSTANTS Tasks,    \* the tasks that delay
          Waits,    \* the delays they ask for, in units
          TickLen   \* units in a millisecond

ASSUME DelayTimerAssumption ==
    /\ TickLen \in Nat \ {0}
    /\ Waits \subseteq 1..TickLen

VARIABLES
    pc,       \* next statement of a task in DELAY_Microseconds, or "out"
    wait,     \* its waitUs
    passed,   \* units since its call, counted to TickLen, the longest delay
    alone,    \* no other task has been in a delay of its own since its call
    ticks,    \* DELAY_GetElapsedMillis(start_ms), counted to 2
    count,    \* Timer2->TC
    running,  \* Timer2->TCR counts (CE) or holds the timer at 0 (CR)
    match,    \* Timer2->MR0
    flag,     \* Timer2->IR, bit of MR0
    phase     \* units since the last tick

timer == <<count, running, match, flag>>
vars  == <<pc, wait, passed, alone, ticks, timer, phase>>

UpTo(n, bound) == IF n < bound THEN n ELSE bound
-----------------------------------------------------------------------------
Call(t) ==
    /\ pc[t] = "out" /\ pc' = [pc EXCEPT ![t] = "reset"]
    /\ \E w \in Waits : wait' = [wait EXCEPT ![t] = w]
    /\ passed' = [passed EXCEPT ![t] = 0]
    /\ alone' = [u \in Tasks |-> IF u = t THEN \A v \in Tasks \ {t} : pc[v] = "out"
                                 ELSE pc[u] = "out"]
    /\ UNCHANGED <<ticks, timer, phase>>

Step(t, from, to) ==
    /\ pc[t] = from /\ pc' = [pc EXCEPT ![t] = to]
    /\ UNCHANGED <<wait, passed, alone, phase>>

Reset(t) == /\ Step(t, "reset", "match")
            /\ running' = FALSE /\ count' = 0
            /\ UNCHANGED <<ticks, match, flag>>

\* Mutant of SetMatch: off by one.
SetMatchLess(t) == /\ Step(t, "match", "clear") /\ match' = wait[t] - 1
                   /\ UNCHANGED <<ticks, count, running, flag>>
SetMatch(t) == /\ Step(t, "match", "clear") /\ match' = wait[t]
               /\ UNCHANGED <<ticks, count, running, flag>>

\* Mutant of ClearFlag: an old match counts.
KeepFlag(t) == Step(t, "clear", "enable") /\ UNCHANGED <<ticks, timer>>
ClearFlag(t) == /\ Step(t, "clear", "enable") /\ flag' = FALSE
                /\ UNCHANGED <<ticks, count, running, match>>

Enable(t) == /\ Step(t, "enable", "note") /\ running' = TRUE
             /\ UNCHANGED <<ticks, count, match, flag>>

NoteTick(t) == /\ Step(t, "note", "poll") /\ ticks' = [ticks EXCEPT ![t] = 0]
               /\ UNCHANGED timer

\* Mutant of Escape: no way out of the loop but the match.
NoEscape(t) == FALSE

\* More than one millisecond, as the ticks count them.
Escape(t) == ticks[t] > 1

\* The loop reads the flag; if it is not set, it looks at the tick.
Poll(t) == /\ pc[t] = "poll" /\ (flag \/ Escape(t))
           /\ Step(t, "poll", "end") /\ UNCHANGED <<ticks, timer>>

Finish(t) == /\ Step(t, "end", "out") /\ flag' = FALSE
             /\ UNCHANGED <<ticks, count, running, match>>

Task(t) == \/ Reset(t) \/ SetMatch(t) \/ ClearFlag(t) \/ Enable(t) \/ NoteTick(t)
           \/ Poll(t) \/ Finish(t)

\* A unit of time.
Time ==
    /\ phase' = (phase + 1) % TickLen
    /\ ticks' = [t \in Tasks |-> UpTo(IF phase' = 0 THEN ticks[t] + 1 ELSE ticks[t], 2)]
    /\ passed' = [t \in Tasks |-> UpTo(passed[t] + 1, TickLen)]
    /\ IF running /\ count + 1 = match
       THEN count' = 0 /\ running' = FALSE /\ flag' = TRUE
       ELSE count' = (IF running THEN UpTo(count + 1, TickLen) ELSE count)
            /\ UNCHANGED <<running, flag>>
    /\ UNCHANGED <<pc, wait, alone, match>>
-----------------------------------------------------------------------------
Init == /\ pc = [t \in Tasks |-> "out"] /\ wait = [t \in Tasks |-> 0]
        /\ passed = [t \in Tasks |-> TickLen] /\ ticks = [t \in Tasks |-> 0]
        /\ alone = [t \in Tasks |-> TRUE]
        /\ count = 0 /\ running = FALSE /\ match = 0 /\ flag = FALSE /\ phase = 0

Next == Time \/ \E t \in Tasks : Call(t) \/ Task(t)
Spec == Init /\ [][Next]_vars

\* Each task is scheduled, and time passes.
Fairness == WF_vars(Time) /\ \A t \in Tasks : WF_vars(Task(t))
LiveSpec == Spec /\ Fairness
-----------------------------------------------------------------------------
\* Every variable holds a value of its kind; a match leaves the timer at 0.
TypeOK ==
    /\ pc \in [Tasks -> {"out", "reset", "match", "clear", "enable", "note", "poll", "end"}]
    /\ wait \in [Tasks -> Waits \cup {0}] /\ passed \in [Tasks -> 0..TickLen]
    /\ ticks \in [Tasks -> 0..2] /\ alone \in [Tasks -> BOOLEAN] /\ phase \in 0..(TickLen - 1)
    /\ count \in 0..TickLen /\ match \in Waits \cup {0}
    /\ running \in BOOLEAN /\ flag \in BOOLEAN

\* A delay ends, also when another task takes its timer or its flag away.
Returns == \A t \in Tasks : pc[t] = "reset" ~> pc[t] = "out"

\* A delay that no delay of another task overlaps lasts as long as it was asked
\* to, whatever earlier ones left in the timer.  (One that is overlapped may
\* end early: the other task's match sets the flag.)
NeverEarlyAlone == \A t \in Tasks : pc[t] = "end" /\ alone[t] => passed[t] >= wait[t]
=============================================================================
