----------------------------- MODULE DirectLcd -----------------------------
(* What display.h promises to a task that writes, "controlling the LCD       *)
(* Display with concurrent access": as if the task had the LCD to itself and *)
(* carried out, one after the other, the items that it has to write.         *)
EXTENDS Lcd

VARIABLES
    lcd, \* the LCD
    todo \* items that are still to be carried out

Write == /\ todo # << >>
         /\ todo' = Tail(todo) /\ lcd' = Obey(lcd, Head(todo))

\* There may be more to write at any time, after what there is.
Plan == IsPrefix(todo, todo') /\ UNCHANGED lcd

DirectInit == lcd \in LCDs /\ todo \in Seq(Items)
DirectNext == Write \/ Plan
DirectSpec == DirectInit /\ [][DirectNext]_<<lcd, todo>>
=============================================================================
