------------------------------- MODULE Keypad -------------------------------
(* The buttons: NAVBTN_Read and NAVBTN_Pressed of DRIVERS/src/Nav7Btn.c, and *)
(* the timer callback and the queue of FreeRTOS-Env/src/button.c.  The timer *)
(* service task calls the callback every 100 ms.  The task that takes the    *)
(* keys is in the module that extends this one.                              *)
EXTENDS Naturals, Sequences, SequencesExt

CONSTANTS KeyQueueLength, \* BTN_QUEUE_LENGTH
          Presses         \* the sets of buttons that are held down together

NavMap == <<"BACK", "CENTER", "ENTER", "UP", "DOWN", "LEFT", "RIGHT">>
NONE   == "NONE"
Keys   == {NavMap[i] : i \in DOMAIN NavMap}

ASSUME KeypadAssumption ==
    KeyQueueLength \in Nat \ {0} /\ Presses \subseteq SUBSET Keys

VARIABLES
    last,        \* the button that the last scan found, or NONE
    was_pressed, \* last has been reported
    alike,       \* scans in a row that found last, counted to 2
    waiting,     \* the key for which the callback waits for room, or NONE
    btnQueue     \* the keys that nobody has taken

keypadVars == <<last, was_pressed, alike, waiting, btnQueue>>
-----------------------------------------------------------------------------
\* NAVBTN_Read: the first button of nav_map, column by column, that is held.
Read(pressed) ==
    LET held == {i \in DOMAIN NavMap : NavMap[i] \in pressed}
    IN  IF held = {} THEN NONE ELSE NavMap[Min(held)]

\* Mutant of Reported: a button that is held is reported again and again.
Repeated(current) == current = last

\* NAVBTN_Pressed: the second of two scans that find the same reports it, once.
Reported(current) == current = last /\ ~was_pressed

\* xQueueSend waits for ever when the queue is full.
Enqueue(key) ==
    IF Len(btnQueue) < KeyQueueLength
    THEN btnQueue' = Append(btnQueue, key) /\ waiting' = NONE
    ELSE waiting' = key /\ UNCHANGED btnQueue

Scan(pressed) ==
    LET current == Read(pressed) IN
    /\ waiting = NONE
    /\ last' = current /\ was_pressed' = (current = last)
    /\ alike' = IF current = last THEN 2 ELSE 1
    /\ IF Reported(current) /\ current # NONE
       THEN Enqueue(current) ELSE UNCHANGED <<btnQueue, waiting>>

\* There is room: the callback ends, and the timer can be served again.
ScanGoesOn ==
    /\ waiting # NONE /\ Len(btnQueue) < KeyQueueLength
    /\ Enqueue(waiting) /\ UNCHANGED <<last, was_pressed, alike>>

\* BUTTON_Pressed takes a key, if there is one.
Take == /\ btnQueue # << >> /\ btnQueue' = Tail(btnQueue)
        /\ UNCHANGED <<last, was_pressed, alike, waiting>>

KeypadInit == /\ last = NONE /\ was_pressed = FALSE /\ alike = 0
              /\ waiting = NONE /\ btnQueue = << >>
-----------------------------------------------------------------------------
KeypadTypeOK ==
    /\ last \in Keys \cup {NONE} /\ was_pressed \in BOOLEAN /\ alike \in 0..2
    /\ waiting \in Keys \cup {NONE}
    /\ btnQueue \in Seq(Keys) /\ Len(btnQueue) <= KeyQueueLength

\* A key is handed on when, and only when, a second scan in a row finds it: one
\* scan alone (a bounce) is ignored, a button that is held counts once, and one
\* that is released and pressed again counts again.
ReportedOnce ==
    [][waiting = NONE =>
          (Len(btnQueue') > Len(btnQueue) \/ waiting' # NONE
              <=> alike = 1 /\ alike' = 2 /\ last' # NONE)]_keypadVars
=============================================================================
