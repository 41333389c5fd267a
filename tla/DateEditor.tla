---------------------------- MODULE DateEditor ----------------------------
(* Edit Calendar of the maintenance menu: Menu_SM on a date field "%a %d %b  *)
(* %Y" (DateField.c), which is made of four integer fields (IntField.c), and *)
(* the RTC that it reads when it is opened and writes when it is saved, and  *)
(* which goes on in between.                                                 *)
(*                                                                           *)
(* A date is a function from the names of the integer fields to their values *)
(* in a struct tm: years from 1900, months from 0.  Time of day and day of   *)
(* the year are left out.                                                    *)
EXTENDS Integers

CONSTANTS FirstYear, LastYear,  \* tm_year of an integer field: 0 and 4095 - 1900
          Starts                \* bound: dates at which the editor is opened

Fields == {"wday", "mday", "mon", "year"}
Order  == <<"wday", "mday", "mon", "year">>
Digits == [wday |-> 1, mday |-> 2, mon |-> 1, year |-> 4]
Places == <<1000, 100, 10, 1>>

IsLeap(year) == (year % 4 = 0 /\ year % 100 # 0) \/ year % 400 = 0

MaxDom(date) == CASE date["mon"] = 1 -> IF IsLeap(date["year"] + 1900) THEN 29 ELSE 28
                  [] date["mon"] \in {3, 5, 8, 10} -> 30
                  [] OTHER -> 31

Real(date) == /\ date \in [Fields -> Nat]
              /\ date["wday"] \in 0..6 /\ date["mon"] \in 0..11
              /\ date["year"] \in FirstYear..LastYear
              /\ date["mday"] \in 1..MaxDom(date)

ASSUME DateEditorAssumption ==
    /\ FirstYear \in Nat /\ LastYear \in FirstYear..2195
    /\ Starts # {} /\ \A date \in Starts : Real(date)

VARIABLES
    rtc,     \* the date in the RTC's registers
    open,    \* Menu_SM runs on the date field
    date,    \* d->_date
    display, \* _display_val of each integer field
    lastDay, \* max of the integer field of the day
    field,   \* d->_field_index, from 1
    index    \* index of the active integer field: its digit, from 0 on the left

editor == <<open, date, display, lastDay, field, index>>
vars   == <<rtc, editor>>

Blank == [f \in Fields |-> 0]
-----------------------------------------------------------------------------
\* date_init: each integer field starts with the value it stands for.
Open == /\ ~open /\ rtc \in Starts
        /\ open' = TRUE /\ date' = rtc /\ display' = rtc /\ lastDay' = MaxDom(rtc)
        /\ field' = 1 /\ index' = 0
        /\ UNCHANGED rtc

Active == Order[field]

Lowest(f)  == CASE f = "mday" -> 1 [] f = "year" -> FirstYear [] OTHER -> 0
Highest(f) == CASE f = "mday" -> lastDay [] f = "year" -> LastYear
                [] f = "mon" -> 11 [] OTHER -> 6

\* int_step: by the weight of the digit under the cursor, or not at all.
Stepped(up) == LET weight == Places[4 - Digits[Active] + index + 1]
               IN  display[Active] + (IF up THEN weight ELSE -weight)

\* Mutants of Limited: the day that is too late stays on the day's own field;
\* only a step of the month limits the day.
LimitedDate(d) ==
    LET day == IF d["mday"] > MaxDom(d) THEN MaxDom(d) ELSE d["mday"]
    IN  /\ date' = [d EXCEPT !["mday"] = day]
        /\ display' = [display EXCEPT ![Active] = d[Active]]

LimitedMonth(d) ==
    LET day == IF Active = "mon" /\ d["mday"] > MaxDom(d) THEN MaxDom(d) ELSE d["mday"]
    IN  /\ date' = [d EXCEPT !["mday"] = day]
        /\ display' = [display EXCEPT ![Active] = d[Active],
                                      !["mday"] = IF Active = "mon" \/ Active = "mday" THEN day ELSE @]

\* The end of date_step: a day beyond the end of the month becomes its last.
Limited(d) ==
    LET day == IF d["mday"] > MaxDom(d) THEN MaxDom(d) ELSE d["mday"]
    IN  /\ date' = [d EXCEPT !["mday"] = day]
        /\ display' = [display EXCEPT ![Active] = d[Active],
                                      !["mday"] = IF day # d["mday"] THEN day
                                                  ELSE IF Active = "mday" THEN d["mday"] ELSE @]

\* UP and DOWN: date_step.
Step(up) ==
    /\ open
    /\ Stepped(up) \in Lowest(Active)..Highest(Active)
    /\ Limited([date EXCEPT ![Active] = Stepped(up)])
    /\ UNCHANGED <<rtc, open, lastDay, field, index>>
-----------------------------------------------------------------------------
\* A cursor is a field and a digit of it.
Last(f) == Digits[Order[f]] - 1

\* int_shift
NextDigit(f, i, right) ==
    CASE right  -> IF i + 1 > Last(f) THEN 0 ELSE i + 1
      [] ~right -> IF i - 1 < 0 THEN Last(f) ELSE i - 1

Leaves(f, i, right) == NextDigit(f, i, right) = IF right THEN 0 ELSE Last(f)

NextField(f, right) == IF right THEN (f % 4) + 1 ELSE ((f + 2) % 4) + 1

\* Mutants of Moved: a field is entered at its first digit from both sides; at
\* the digit of the field that is left.
MovedOn(f, i, right) ==
    IF Leaves(f, i, right) THEN <<NextField(f, right), 0>> ELSE <<f, NextDigit(f, i, right)>>
MovedKeeps(f, i, right) ==
    IF Leaves(f, i, right) THEN <<NextField(f, right), i>> ELSE <<f, NextDigit(f, i, right)>>

\* date_shift: a field is entered at its first digit, or from the right at its
\* last.
Moved(f, i, right) ==
    IF Leaves(f, i, right)
    THEN LET g == NextField(f, right) IN <<g, IF right THEN 0 ELSE Last(g)>>
    ELSE <<f, NextDigit(f, i, right)>>

\* LEFT and RIGHT.  The field that is left is saved into the date.
Shift(right) ==
    /\ open
    /\ field' = Moved(field, index, right)[1] /\ index' = Moved(field, index, right)[2]
    /\ date' = IF Leaves(field, index, right)
               THEN [date EXCEPT ![Active] = display[Active]] ELSE date
    /\ UNCHANGED <<rtc, open, display, lastDay>>
-----------------------------------------------------------------------------
Close == /\ open /\ open' = FALSE
         /\ date' = Blank /\ display' = Blank /\ lastDay' = 0 /\ field' = 1 /\ index' = 0

Clamp(value, min, max) == IF value > max THEN max ELSE IF value < min THEN min ELSE value

\* RTC_SetTimeDate
Set(d) == rtc' = [d EXCEPT !["mday"] = Clamp(d["mday"], 1, MaxDom(d)),
                           !["wday"] = Clamp(d["wday"], 0, 6),
                           !["mon"]  = Clamp(d["mon"], 0, 11),
                           !["year"] = Clamp(d["year"] + 1900, 0, 4095) - 1900]

\* ENTER and CENTER: date_save saves every field.
Save == Close /\ Set([f \in Fields |-> display[f]])

\* BACK
Cancel == Close /\ UNCHANGED rtc

\* Sync Clock and start-up set the RTC, which is then some real date.
Sync == ~open /\ \E d \in Starts : Set(d) /\ UNCHANGED editor

\* Midnight.  Bound: one while the editor is open, and none in the last year.
NextDay ==
    /\ open => rtc \in Starts
    /\ rtc["year"] < LastYear
    /\ LET later == [rtc EXCEPT !["wday"] = (@ + 1) % 7]
       IN  rtc' = IF rtc["mday"] < MaxDom(rtc) THEN [later EXCEPT !["mday"] = @ + 1]
                  ELSE IF rtc["mon"] < 11 THEN [later EXCEPT !["mday"] = 1, !["mon"] = @ + 1]
                  ELSE [later EXCEPT !["mday"] = 1, !["mon"] = 0, !["year"] = @ + 1]
    /\ UNCHANGED editor
-----------------------------------------------------------------------------
Init == /\ rtc \in Starts /\ open = FALSE
        /\ date = Blank /\ display = Blank /\ lastDay = 0 /\ field = 1 /\ index = 0

Next == \/ Open \/ Save \/ Cancel \/ Sync \/ NextDay
        \/ \E b \in BOOLEAN : Step(b) \/ Shift(b)
Spec == Init /\ [][Next]_vars
-----------------------------------------------------------------------------
\* date_render: the date, with what the active field displays.
Shown == [date EXCEPT ![Active] = display[Active]]

\* Every variable holds a value of its kind; the cursor is on a digit.
TypeOK ==
    /\ rtc \in [Fields -> Nat] /\ open \in BOOLEAN
    /\ date \in [Fields -> Nat] /\ display \in [Fields -> Nat]
    /\ lastDay \in 0..31 /\ field \in 1..4 /\ index \in 0..Last(field)

\* The screen shows a date that exists after every key, also while the day's own
\* field still has the length of the month in which the editor was opened as its
\* maximum: after a month or a year is stepped, the 31st and 29 February go.
ShownIsReal == open => Real(Shown)

\* The RTC is set to what the screen shows when the user saves: no field keeps a
\* value that it no longer displays, and the RTC driver has nothing to correct.
SavedAsShown == [][Save => rtc' = Shown]_vars

\* RIGHT and LEFT undo each other at every place of the cursor.
ShiftsAreInverse ==
    \A right \in BOOLEAN :
        LET there == Moved(field, index, right)
        IN  Moved(there[1], there[2], ~right) = <<field, index>>
=============================================================================
