----------------------------- MODULE RtcReading -----------------------------
(* RTC_GetTimeDate of DRIVERS/src/RTC.c while the clock runs: get_time reads *)
(* the three registers CTIME2 (day of year), CTIME1 (date) and CTIME0 (time  *)
(* of day and of week) one after the other, is called twice, and a third     *)
(* time when the dates differ.                                               *)
(*                                                                           *)
(* Time is counted in seconds; a day has DayLen of them.                     *)
EXTENDS Naturals, Sequences

CONSTANT DayLen

ASSUME RtcReadingAssumption == DayLen \in Nat \ {0}

VARIABLES
    now,    \* what the clock shows
    reads,  \* the registers read so far, in order; three to a get_time
    ticked  \* registers that had been read when the clock ticked, or 9 if it has not

rtcVars == <<now, reads, ticked>>
-----------------------------------------------------------------------------
\* What the clock's registers hold at a time.
Date(t) == t \div DayLen
Tod(t)  == t % DayLen
Shows(t) == <<Date(t), Date(t), Tod(t)>>

GetTime(i) == SubSeq(reads, 3 * i - 2, 3 * i)

\* Mutant of Differ: the dates are not compared.
NeverDiffer == FALSE

\* The dates of the first two readings differ.
Differ == GetTime(1)[1] # GetTime(2)[1] \/ GetTime(1)[2] # GetTime(2)[2]

Enough == IF Len(reads) = 6 THEN ~Differ ELSE Len(reads) = 9

ReadRegister == /\ Len(reads) < 9 /\ ~Enough
                /\ reads' = Append(reads, Shows(now)[(Len(reads) % 3) + 1])
                /\ UNCHANGED <<now, ticked>>

\* Bound: a reading takes microseconds, so the clock ticks once in it at most.
Tick == /\ ticked = 9 /\ ticked' = Len(reads) /\ now' = now + 1
        /\ UNCHANGED reads

\* The last reading is the result.
DateTime == SubSeq(reads, Len(reads) - 2, Len(reads))
\* (Between two calls the model's clock stands, at 0.)
ReadingEnds == Enough /\ reads' = << >> /\ ticked' = 9 /\ now' = 0

\* RTC_Init and RTC_SetTimeDate set the clock to a time of some day, day 0.
SetTime == now' \in 0..(DayLen - 1) /\ UNCHANGED <<reads, ticked>>

RtcInit == now = 0 /\ reads = << >> /\ ticked = 9
-----------------------------------------------------------------------------
RtcTypeOK == /\ now \in 0..DayLen /\ ticked \in 0..9
             /\ reads \in Seq(0..DayLen) /\ Len(reads) <= 9

\* RTC_GetTimeDate returns what the clock showed at one moment of the call,
\* also when midnight falls into it; but for a midnight between the last two
\* registers of the second reading, which the comparison of the dates misses.
ReadAtOneMoment ==
    [][reads # << >> /\ reads' = << >> =>
          \/ DateTime = Shows(now)
          \/ ticked < 9 /\ DateTime = Shows(now - 1)
          \/ ticked = 5 /\ Tod(now) = 0]_rtcVars
=============================================================================
