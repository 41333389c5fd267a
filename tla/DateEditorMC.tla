--------------------------- MODULE DateEditorMC ---------------------------
(* Values for DateEditor: the years around 2100, which is not a leap year,   *)
(* with more than ten of them, so that the tens can be stepped too.          *)
EXTENDS DateEditor

Date(wday, mday, mon, year) ==
    [f \in Fields |-> CASE f = "wday" -> wday [] f = "mday" -> mday
                        [] f = "mon" -> mon [] f = "year" -> year]

\* Tue 31 January 2096 and Sat 28 February 2099.
MCStarts == {Date(2, 31, 0, 196), Date(6, 28, 1, 199)}
=============================================================================
