------------------------------ MODULE Display ------------------------------
(* FreeRTOS-Env/src/display.c: the queue of display items and the task that  *)
(* is the only one to touch the LCD, which is in Lcd.  The tasks that write  *)
(* are in the modules that extend this one.                                  *)
EXTENDS Lcd, FiniteSets

CONSTANT QueueLength \* DISPLAY_MAX_QUEUE

ASSUME DisplayAssumption == QueueLength \in Nat \ {0}

VARIABLES
    disp_queue, \* the items that wait
    hand,       \* the item the display task has received, as a sequence
    heap,       \* heap blocks that belong to items
    lcd         \* the LCD

displayVars == <<disp_queue, hand, heap, lcd>>
-----------------------------------------------------------------------------
\* Heap blocks of an item: itself, and the copy of what its args point to.
Blocks(item)   == IF item.id = "CLEAR" THEN 1 ELSE 2
\* The blocks of several items, each by the number of its item and its own.
BlocksOf(items) == {b \in (DOMAIN items) \X {1, 2} : b[2] <= Blocks(items[b[1]])}

\* Mutant of Send: an item that finds the queue full is dropped.
SendNoWait(item) ==
    /\ IF Len(disp_queue) < QueueLength
       THEN disp_queue' = Append(disp_queue, item) /\ heap' = heap + Blocks(item)
       ELSE UNCHANGED <<disp_queue, heap>>
    /\ UNCHANGED <<hand, lcd>>

\* DISPLAY_Send waits as long as the queue is full.
Send(item) ==
    /\ Len(disp_queue) < QueueLength
    /\ disp_queue' = Append(disp_queue, item)
    /\ heap' = heap + Blocks(item)
    /\ UNCHANGED <<hand, lcd>>

Receive ==
    /\ hand = << >> /\ disp_queue # << >>
    /\ hand' = <<Head(disp_queue)>> /\ disp_queue' = Tail(disp_queue)
    /\ UNCHANGED <<heap, lcd>>

\* Mutant of Freed: the copy of the arguments is not freed.
FreedItem(item) == 1

Freed(item) == Blocks(item)

\* What the display task does with the item it has received.
Carry ==
    /\ hand # << >> /\ hand' = << >>
    /\ heap' = heap - Freed(Head(hand))
    /\ lcd' = Obey(lcd, Head(hand))
    /\ UNCHANGED disp_queue

Manager == Receive \/ Carry

DisplayInit == disp_queue = << >> /\ hand = << >> /\ heap = 0
-----------------------------------------------------------------------------
DisplayTypeOK ==
    /\ disp_queue \in Seq(Items) /\ Len(disp_queue) <= QueueLength
    /\ hand \in Seq(Items) /\ Len(hand) <= 1
    /\ heap \in Nat /\ lcd \in LCDs

\* Every heap block of an item is freed once, whichever way it took: what is
\* allocated belongs to the items that wait or are being carried out.
NoLeak == heap = Cardinality(BlocksOf(hand \o disp_queue))

\* The LCD as it will be when the display task has caught up.
CaughtUp == Drawn(lcd, hand \o disp_queue)
=============================================================================
