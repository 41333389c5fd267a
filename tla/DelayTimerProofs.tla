------------------------- MODULE DelayTimerProofs -------------------------
(* DELAY_Microseconds for any number of tasks, any delays up to a            *)
(* millisecond, and ticks of any length: a delay that no other overlaps is   *)
(* not cut short.  While a task is alone in the routine, the timer is what   *)
(* the routine has made of it so far.                                        *)
EXTENDS DelayTimer, TLAPS

\* A task that is alone: the others are outside, the timer is at 0 and stands
\* from its reset to its start, and its match flag tells of its own match.
Programmed(t) ==
    /\ pc[t] \in {"match", "clear", "enable"} => ~running /\ count = 0
    /\ pc[t] \in {"clear", "enable", "note", "poll"} => match = wait[t]
    /\ pc[t] = "enable" => ~flag

\* What has passed when the flag is set, and when the ticks let the loop end.
Elapsed(t) ==
    /\ pc[t] \in {"note", "poll"} => count <= passed[t] /\ (flag => passed[t] >= wait[t])
    /\ pc[t] = "poll" => /\ ticks[t] = 1 => passed[t] >= phase
                         /\ ticks[t] = 2 => passed[t] >= wait[t]
    /\ pc[t] = "end" => passed[t] >= wait[t]

Lone(t) == alone[t] /\ pc[t] # "out"

IInv ==
    /\ TypeOK
    /\ \A t \in Tasks : Lone(t) =>
          /\ \A u \in Tasks \ {t} : pc[u] = "out"
          /\ Programmed(t) /\ Elapsed(t)

LEMMA Initially == Init => IInv
<1> SUFFICES ASSUME Init PROVE IInv
  OBVIOUS
<1>1. TickLen \in Nat \ {0}
  BY DelayTimerAssumption DEF DelayTimerAssumption
<1>2. TypeOK
  <2>1. alone \in [Tasks -> BOOLEAN] /\ running \in BOOLEAN /\ flag \in BOOLEAN
    <3>1. [t \in Tasks |-> TRUE] \in [Tasks -> BOOLEAN]
      BY Zenon
    <3> QED
      BY <3>1, Zenon DEF Init
  <2>2. /\ pc \in [Tasks -> {"out", "reset", "match", "clear", "enable", "note", "poll", "end"}]
        /\ wait \in [Tasks -> Waits \cup {0}]
    BY DEF Init
  <2>3. /\ passed \in [Tasks -> 0..TickLen] /\ ticks \in [Tasks -> 0..2]
        /\ phase \in 0..(TickLen - 1) /\ count \in 0..TickLen /\ match \in Waits \cup {0}
    BY <1>1 DEF Init
  <2> QED
    BY <2>1, <2>2, <2>3 DEF TypeOK
<1>3. \A t \in Tasks : ~Lone(t)
  BY DEF Init, Lone
<1> QED
  BY <1>2, <1>3 DEF IInv

\* What TypeOK says of the numbers of one task.
LEMMA Numbers ==
    ASSUME IInv, NEW t \in Tasks
    PROVE  wait[t] \in 0..TickLen /\ passed[t] \in 0..TickLen /\ ticks[t] \in 0..2
<1>1. Waits \cup {0} \subseteq 0..TickLen
  BY DelayTimerAssumption DEF DelayTimerAssumption
<1>2. wait[t] \in Waits \cup {0}
  BY DEF IInv, TypeOK
<1>3. passed[t] \in 0..TickLen /\ ticks[t] \in 0..2
  BY DEF IInv, TypeOK
<1> QED
  BY <1>1, <1>2, <1>3
-----------------------------------------------------------------------------
LEMMA CallKeeps == ASSUME IInv, NEW s \in Tasks, Call(s) PROVE IInv'
<1> USE DelayTimerAssumption DEF DelayTimerAssumption, timer
<1>1. TypeOK'
  <2>1. pc' \in [Tasks -> {"out", "reset", "match", "clear", "enable", "note", "poll", "end"}]
    BY DEF IInv, TypeOK, Call
  <2>2. wait' \in [Tasks -> Waits \cup {0}] /\ passed' \in [Tasks -> 0..TickLen]
    BY DEF IInv, TypeOK, Call
  <2>3. alone' \in [Tasks -> BOOLEAN]
    <3>1. \A u \in Tasks : (IF u = s THEN \A v \in Tasks \ {s} : pc[v] = "out"
                                     ELSE pc[u] = "out") \in BOOLEAN
      OBVIOUS
    <3> QED
      BY <3>1, Zenon DEF Call
  <2>4. UNCHANGED <<ticks, phase, count, match, running, flag>>
    BY DEF Call
  <2> QED
    BY <2>1, <2>2, <2>3, <2>4 DEF IInv, TypeOK
<1>2. ASSUME NEW t \in Tasks, Lone(t)'
      PROVE  /\ \A u \in Tasks \ {t} : pc'[u] = "out"
             /\ Programmed(t)' /\ Elapsed(t)'
  <2>1. pc' = [pc EXCEPT ![s] = "reset"] /\ pc \in [Tasks -> {"out", "reset", "match", "clear", "enable", "note", "poll", "end"}]
    BY DEF Call, IInv, TypeOK
  <2>2. alone'[t] <=> IF t = s THEN \A v \in Tasks \ {s} : pc[v] = "out" ELSE pc[t] = "out"
    BY Zenon DEF Call
  <2>3. alone'[t] /\ pc'[t] # "out"
    BY <1>2 DEF Lone
  <2>4. t = s
    BY <2>1, <2>2, <2>3
  <2>5. pc'[t] = "reset" /\ \A u \in Tasks \ {t} : pc'[u] = "out"
    BY <2>1, <2>2, <2>3, <2>4
  <2> QED
    BY <2>5 DEF Programmed, Elapsed
<1> QED
  BY <1>1, <1>2 DEF IInv

LEMMA TaskKeeps == ASSUME IInv, NEW s \in Tasks, Task(s) PROVE IInv'
<1> USE DelayTimerAssumption DEF DelayTimerAssumption, timer
<1> DEFINE Places == {"out", "reset", "match", "clear", "enable", "note", "poll", "end"}
<1>1. PICK from \in Places, to \in Places : Step(s, from, to)
  BY DEF Task, Reset, SetMatch, ClearFlag, Enable, NoteTick, Poll, Finish
<1>2. /\ pc[s] = from /\ pc' = [pc EXCEPT ![s] = to] /\ pc \in [Tasks -> Places]
      /\ UNCHANGED <<wait, passed, alone, phase>>
  BY <1>1 DEF Step, IInv, TypeOK
<1>3. TypeOK'
  <2>1. pc' \in [Tasks -> Places]
    BY <1>2
  <2>2. wait' \in [Tasks -> Waits \cup {0}] /\ passed' \in [Tasks -> 0..TickLen]
        /\ phase' \in 0..(TickLen - 1)
    BY <1>2 DEF IInv, TypeOK
  <2>3. alone' \in [Tasks -> BOOLEAN]
    BY <1>2 DEF IInv, TypeOK
  <2>4. ticks' \in [Tasks -> 0..2] /\ count' \in 0..TickLen /\ match' \in Waits \cup {0}
    BY DEF IInv, TypeOK, Task, Reset, SetMatch, ClearFlag, Enable, NoteTick, Poll, Finish
  <2>5. running' \in BOOLEAN /\ flag' \in BOOLEAN
    BY DEF IInv, TypeOK, Task, Reset, SetMatch, ClearFlag, Enable, NoteTick, Poll, Finish
  <2> QED
    BY <2>1, <2>2, <2>3, <2>4, <2>5 DEF TypeOK
<1>4. ASSUME NEW t \in Tasks, Lone(t)'
      PROVE  /\ \A u \in Tasks \ {t} : pc'[u] = "out"
             /\ Programmed(t)' /\ Elapsed(t)'
  <2>1. alone[t]
    BY <1>2, <1>4 DEF Lone
  <2>2. from # "out"
    BY <1>2 DEF Task, Reset, SetMatch, ClearFlag, Enable, NoteTick, Poll, Finish, Step
  <2>3. t = s
    <3>1. SUFFICES ASSUME t # s PROVE FALSE
      OBVIOUS
    <3>2. pc[t] # "out" /\ pc[s] # "out"
      BY <1>2, <1>4, <2>2, <3>1 DEF Lone
    <3> QED
      BY <2>1, <3>1, <3>2 DEF IInv, Lone
  <2>4. Lone(t)
    BY <1>2, <2>1, <2>2, <2>3 DEF Lone
  <2>5. /\ \A u \in Tasks \ {t} : pc[u] = "out"
        /\ Programmed(t) /\ Elapsed(t)
    BY <2>4 DEF IInv
  <2>6. \A u \in Tasks \ {t} : pc'[u] = "out"
    BY <1>2, <2>3, <2>5
  <2>7. pc'[t] = to /\ wait'[t] = wait[t] /\ passed'[t] = passed[t] /\ phase' = phase
    BY <1>2, <2>3
  <2>8. /\ wait[t] \in Nat /\ passed[t] \in Nat /\ count \in Nat /\ ticks[t] \in 0..2
        /\ flag \in BOOLEAN /\ running \in BOOLEAN
    <3>1. TickLen \in Nat /\ count \in 0..TickLen
      BY DEF IInv, TypeOK
    <3>2. flag \in BOOLEAN /\ running \in BOOLEAN
      BY DEF IInv, TypeOK
    <3> QED
      BY <3>1, <3>2, Numbers
  <2> USE DEF Programmed, Elapsed, Step
  <2>10. CASE Reset(s)
    BY <2>3, <2>5, <2>7, <2>8, <2>10, <1>2 DEF Reset
  <2>11. CASE SetMatch(s)
    BY <2>3, <2>5, <2>7, <2>8, <2>11, <1>2 DEF SetMatch
  <2>12. CASE ClearFlag(s)
    BY <2>3, <2>5, <2>7, <2>8, <2>12, <1>2 DEF ClearFlag
  <2>13. CASE Enable(s)
    BY <2>3, <2>5, <2>7, <2>8, <2>13, <1>2 DEF Enable
  <2>14. CASE NoteTick(s)
    <3>1. ticks'[t] = 0
      BY <2>3, <2>14 DEF NoteTick, IInv, TypeOK
    <3> QED
      BY <2>3, <2>5, <2>7, <2>8, <2>14, <1>2, <3>1 DEF NoteTick
  <2>15. CASE Poll(s)
    BY <2>3, <2>5, <2>7, <2>8, <2>15, <1>2 DEF Poll, Escape
  <2>16. CASE Finish(s)
    BY <2>3, <2>5, <2>7, <2>8, <2>16, <1>2 DEF Finish
  <2> QED
    BY <2>6, <2>10, <2>11, <2>12, <2>13, <2>14, <2>15, <2>16 DEF Task
<1> QED
  BY <1>3, <1>4 DEF IInv
-----------------------------------------------------------------------------
LEMMA TimeKeeps == ASSUME IInv, Time PROVE IInv'
<1>1. /\ TickLen \in Nat \ {0} /\ Waits \subseteq 1..TickLen
  BY DelayTimerAssumption DEF DelayTimerAssumption
<1>2. phase \in 0..(TickLen - 1) /\ phase' = IF phase + 1 = TickLen THEN 0 ELSE phase + 1
  <2>1. phase \in 0..(TickLen - 1)
    BY DEF IInv, TypeOK
  <2>2. CASE phase + 1 = TickLen
    BY <1>1, <2>1, <2>2 DEF Time
  <2>3. CASE phase + 1 < TickLen
    BY <1>1, <2>1, <2>3 DEF Time
  <2> QED
    BY <1>1, <2>1, <2>2, <2>3
<1>3. \A t \in Tasks :
         /\ passed[t] \in 0..TickLen /\ ticks[t] \in 0..2 /\ wait[t] \in 0..TickLen
         /\ passed'[t] = UpTo(passed[t] + 1, TickLen)
         /\ ticks'[t] = UpTo(IF phase' = 0 THEN ticks[t] + 1 ELSE ticks[t], 2)
  BY Numbers DEF Time
<1>4. TypeOK'
  <2>1. passed' \in [Tasks -> 0..TickLen] /\ ticks' \in [Tasks -> 0..2]
    <3>1. \A t \in Tasks : UpTo(passed[t] + 1, TickLen) \in 0..TickLen
      BY <1>1, <1>3 DEF UpTo
    <3>2. \A t \in Tasks : UpTo(IF phase' = 0 THEN ticks[t] + 1 ELSE ticks[t], 2) \in 0..2
      BY <1>3 DEF UpTo
    <3> QED
      BY <3>1, <3>2 DEF Time
  <2>2. phase' \in 0..(TickLen - 1)
    BY <1>1, <1>2
  <2>3. count' \in 0..TickLen
    BY <1>1 DEF Time, IInv, TypeOK, UpTo
  <2>4. running' \in BOOLEAN /\ flag' \in BOOLEAN
    BY DEF Time, IInv, TypeOK
  <2>5. UNCHANGED <<pc, wait, alone, match>>
    BY DEF Time
  <2> QED
    BY <2>1, <2>2, <2>3, <2>4, <2>5 DEF IInv, TypeOK
<1>5. ASSUME NEW t \in Tasks, Lone(t)'
      PROVE  /\ \A u \in Tasks \ {t} : pc'[u] = "out"
             /\ Programmed(t)' /\ Elapsed(t)'
  <2>1. UNCHANGED <<pc, wait, alone, match>>
    BY DEF Time
  <2>2. /\ \A u \in Tasks \ {t} : pc[u] = "out"
        /\ Programmed(t) /\ Elapsed(t)
    BY <1>5, <2>1 DEF IInv, Lone
  <2>3. /\ passed[t] \in 0..TickLen /\ ticks[t] \in 0..2 /\ wait[t] \in 0..TickLen
        /\ passed'[t] = UpTo(passed[t] + 1, TickLen)
        /\ ticks'[t] = UpTo(IF phase' = 0 THEN ticks[t] + 1 ELSE ticks[t], 2)
        /\ count \in 0..TickLen
    BY <1>3 DEF IInv, TypeOK
  <2>4. /\ passed'[t] >= passed[t]
        /\ passed'[t] = passed[t] + 1 \/ passed'[t] = TickLen
    BY <1>1, <2>3 DEF UpTo
  <2>5. running' \in BOOLEAN /\ flag' \in BOOLEAN /\ running \in BOOLEAN /\ flag \in BOOLEAN
    BY <1>4 DEF TypeOK, IInv
  <2>6. Programmed(t)'
    <3>1. ~running => UNCHANGED <<running, flag, count>>
      BY DEF Time
    <3>2. pc[t] \in {"match", "clear", "enable"} => ~running
      BY <2>2 DEF Programmed
    <3> QED
      BY <2>1, <2>2, <3>1, <3>2 DEF Programmed
  <2>7. CASE pc[t] \in {"note", "poll"}
    <3>1. count <= passed[t] /\ (flag => passed[t] >= wait[t]) /\ match = wait[t]
      BY <2>2, <2>7 DEF Elapsed, Programmed
    <3>2. count' <= passed'[t] /\ (flag' => passed'[t] >= wait[t])
      <4>1. CASE running /\ count + 1 = match
        <5>1. count' = 0 /\ passed[t] + 1 >= wait[t]
          BY <2>3, <3>1, <4>1 DEF Time
        <5> QED
          BY <1>1, <2>3, <2>4, <5>1
      <4>2. CASE ~(running /\ count + 1 = match)
        <5>1. flag' = flag /\ count' = IF running THEN UpTo(count + 1, TickLen) ELSE count
          BY <4>2 DEF Time
        <5>2. count' = count \/ (count' <= count + 1 /\ count' <= TickLen)
          BY <1>1, <2>3, <5>1 DEF UpTo
        <5>3. count' \in Nat
          BY <1>4 DEF TypeOK
        <5>4. count' <= passed'[t]
          BY <1>1, <2>3, <2>4, <3>1, <5>2, <5>3
        <5> QED
          BY <1>1, <2>3, <2>4, <3>1, <5>1, <5>4
      <4> QED
        BY <4>1, <4>2
    <3>3. pc[t] = "poll" => /\ ticks'[t] = 1 => passed'[t] >= phase'
                            /\ ticks'[t] = 2 => passed'[t] >= wait[t]
      <4> SUFFICES ASSUME pc[t] = "poll"
                   PROVE  /\ ticks'[t] = 1 => passed'[t] >= phase'
                          /\ ticks'[t] = 2 => passed'[t] >= wait[t]
        OBVIOUS
      <4>1. /\ ticks[t] = 1 => passed[t] >= phase
            /\ ticks[t] = 2 => passed[t] >= wait[t]
        BY <2>2 DEF Elapsed
      <4>2. CASE phase + 1 = TickLen
        <5>1. phase' = 0 /\ ticks'[t] = UpTo(ticks[t] + 1, 2)
          BY <1>1, <1>2, <2>3, <4>2
        <5>2. ticks'[t] = 2 => ticks[t] \in {1, 2}
          BY <2>3, <5>1 DEF UpTo
        <5> QED
          BY <1>1, <1>2, <2>3, <2>4, <4>1, <4>2, <5>1, <5>2
      <4>3. CASE phase + 1 # TickLen
        <5>1. phase' = phase + 1 /\ phase' <= TickLen
          BY <1>1, <1>2, <4>3
        <5>2. ticks'[t] = ticks[t]
          BY <1>2, <2>3, <5>1 DEF UpTo
        <5> QED
          BY <1>1, <1>2, <2>3, <2>4, <4>1, <5>1, <5>2
      <4> QED
        BY <4>2, <4>3
    <3> QED
      BY <2>1, <2>2, <2>6, <2>7, <3>2, <3>3 DEF Elapsed
  <2>8. CASE pc[t] \notin {"note", "poll"}
    <3>1. pc[t] = "end" => passed'[t] >= wait[t]
      BY <1>1, <2>2, <2>3, <2>4 DEF Elapsed
    <3> QED
      BY <2>1, <2>2, <2>6, <2>8, <3>1 DEF Elapsed
  <2> QED
    BY <2>7, <2>8
<1> QED
  BY <1>4, <1>5 DEF IInv

LEMMA Invariance == Spec => []IInv
<1>1. IInv /\ UNCHANGED vars => IInv'
  BY DEF IInv, TypeOK, Lone, Programmed, Elapsed, vars, timer
<1>2. IInv /\ [Next]_vars => IInv'
  BY <1>1, CallKeeps, TaskKeeps, TimeKeeps DEF Next
<1> QED
  BY Initially, <1>2, PTL DEF Spec

\* The variables of the routine and the registers of Timer 2 keep their types,
\* for any number of tasks.
THEOREM TypeCorrect == Spec => []TypeOK
<1>1. IInv => TypeOK
  BY DEF IInv
<1> QED
  BY Invariance, <1>1, PTL

\* DELAY_Microseconds, undisturbed, returns no sooner than it was asked to, by
\* its match or by its ticks, whatever earlier delays left in Timer 2.
THEOREM AloneIsLongEnough == Spec => []NeverEarlyAlone
<1>1. IInv => NeverEarlyAlone
  BY DEF IInv, NeverEarlyAlone, Lone, Elapsed
<1> QED
  BY Invariance, <1>1, PTL
=============================================================================
