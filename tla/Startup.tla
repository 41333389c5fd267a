------------------------------ MODULE Startup ------------------------------
(* From reset to the main screen: main of main.c, APP_Task of task_app.c,    *)
(* and what it starts on its way, in FreeRTOS-Env/src: the display task      *)
(* (Display), the buttons and the timer that scans them (Keypad), the driver *)
(* of the ESP8266 (AtEngine), the clock (RtcReading), and the radio chip on  *)
(* its I2C bus (I2CMaster).                                                  *)
(*                                                                           *)
(* A step is one TRY_START: its first text, the call, and the text with the  *)
(* result; the pauses are in the scheduling.  Once the main screen is up, a  *)
(* turn of Menu_SM takes a key and may write to the chip: what else the keys *)
(* do is in Panel.                                                           *)
EXTENDS Display, Keypad, AtEngine, RtcReading, I2CMaster

\* The longest transfer is that of Radio_setReg: the register and two bytes.
ASSUME StartupAssumption == MaxSize >= 3

VARIABLES
    step,     \* the TRY_START, or "main" when Main_Menu runs
    phase,    \* of the step: "begin", "call" or "result"
    todo,     \* display items that APP_Task has still to send
    failed,   \* err # SUCCESS
    manager,  \* DISPLAY_Manager: "none", "created" or "runs"
    scanning, \* the button timer runs
    tries,    \* commands, or writes to registers, of the call so far
    time      \* what APP_Task's variable time holds, until it is of no more use

appVars == <<step, phase, todo, failed, manager, scanning, tries, time>>
vars    == <<displayVars, keypadVars, atVars, rtcVars, busVars, appVars>>

Steps == <<"display", "buttons", "wifi", "mode", "join", "ntp",
           "clock", "radio", "mqtt", "menu", "main">>
Following(s) == Steps[(CHOOSE i \in DOMAIN Steps : Steps[i] = s) + 1]

Begins(s) ==
    CASE s = "display" -> TwoLines("begins", s, 12, 9)
      [] s = "buttons" -> TwoLines("begins", s, 12, 9)
      [] s = "wifi"    -> TwoLines("begins", s, 12, 6)
      [] s = "mode"    -> TwoLines("begins", s, 12, 17)
      [] s = "join"    -> TwoLines("begins", s, 13, 16)
      [] s = "ntp"     -> TwoLines("begins", s, 13, 13)
      [] s = "menu"    -> TwoLines("begins", s, 12, 6)
      [] OTHER         -> Text("begins", s, 15)
Outcome(fails) == IF fails THEN TwoLines("error", "none", 13, 12) ELSE Text("sucess", "none", 6)

Screen(text) == <<CLEAR, WRITE_STR(text)>>
-----------------------------------------------------------------------------
Calls(s) == phase = "call" /\ step = s /\ todo = << >>

Told(fails) == Screen(Outcome(fails))

\* The call has returned, and TRY_START shows how it ended.
Finish(fails) == /\ phase' = "result" /\ failed' = fails /\ todo' = Told(fails)
                 /\ tries' = 0 /\ UNCHANGED step

\* The call goes on.
Goes_on == UNCHANGED <<step, phase, todo, failed>>

\* DISPLAY_TaskStart, BUTTON_Init and Start_Publisher_Task: there may be no room
\* for another task.
StartDisplay == /\ Calls("display")
                /\ \E ok \in BOOLEAN : manager' = (IF ok THEN "created" ELSE "none") /\ Finish(~ok)
                /\ UNCHANGED <<scanning, time, displayVars, keypadVars, atVars, rtcVars, busVars>>

StartButtons == /\ Calls("buttons") /\ scanning' = TRUE /\ Finish(FALSE)
                /\ UNCHANGED <<manager, time, displayVars, keypadVars, atVars, rtcVars, busVars>>

StartPublisher == /\ Calls("mqtt") /\ \E ok \in BOOLEAN : Finish(~ok)
                  /\ UNCHANGED <<manager, scanning, time,
                                 displayVars, keypadVars, atVars, rtcVars, busVars>>

StartMenu == /\ Calls("menu") /\ Finish(FALSE)
             /\ UNCHANGED <<manager, scanning, time, displayVars, keypadVars, atVars, rtcVars, busVars>>

\* What WIFI_RTOS_Init, _SetModeStation and _ConnectAp send, and how often.
Sent    == [wifi |-> "AT", mode |-> "AT+CWMODE", join |-> "AT+CWJAP"]

\* Mutant of Retries: one attempt too many to join.
RetriesMore == [wifi |-> 2, mode |-> 1, join |-> 4]

Retries == [wifi |-> 2, mode |-> 1, join |-> 3]

WifiSends ==
    /\ \E s \in DOMAIN Sent :
          /\ Calls(s) /\ cmd = "none" /\ reply # "OK" /\ tries < Retries[s]
          /\ Command(Sent[s])
    /\ tries' = tries + 1 /\ Goes_on
    /\ UNCHANGED <<manager, scanning, time, displayVars, keypadVars, rtcVars, busVars>>

\* UART_Initialize fails.
NoUart == /\ Calls("wifi") /\ tries = 0 /\ Finish(TRUE)
          /\ UNCHANGED <<manager, scanning, time, displayVars, keypadVars, atVars, rtcVars, busVars>>

WifiReturns ==
    /\ \E s \in DOMAIN Sent : Calls(s) /\ (reply = "OK" \/ tries = Retries[s])
    /\ Finish(reply # "OK") /\ Taken
    /\ UNCHANGED <<manager, scanning, time, displayVars, keypadVars, rtcVars, busVars>>

\* Mutant of RequestTime: the boolean result is taken for an error code.
RequestTimeInverted ==
    /\ Calls("ntp")
    /\ \/ joined /\ time' = "ntp" /\ Finish(TRUE)
       \/ UNCHANGED time /\ Finish(FALSE)
    /\ AtForgotten
    /\ UNCHANGED <<manager, scanning, displayVars, keypadVars, rtcVars, busVars>>

\* TIME_SYNC_RequestUnixTime writes the time when it succeeds.  Its AT commands,
\* and those of the publisher, are in WifiShare and not here.
RequestTime ==
    /\ Calls("ntp")
    /\ \/ joined /\ time' = "ntp" /\ Finish(FALSE)
       \/ UNCHANGED time /\ Finish(TRUE)
    /\ AtForgotten
    /\ UNCHANGED <<manager, scanning, displayVars, keypadVars, rtcVars, busVars>>

StartClock == /\ Calls("clock") /\ SetTime /\ Finish(FALSE)
              /\ UNCHANGED <<manager, scanning, time, displayVars, keypadVars, atVars, busVars>>

\* Between two steps; the time is read before the radio is started.
Proceed ==
    /\ phase = "result" /\ todo = << >>
    /\ step' = Following(step) /\ phase' = (IF step = "clock" THEN "read" ELSE "begin")
    /\ todo' = CASE step \in {"clock", "menu"} -> << >>
                 [] OTHER -> Screen(Begins(Following(step)))
    /\ failed' = FALSE
    /\ UNCHANGED <<manager, scanning, tries, time,
                   displayVars, keypadVars, atVars, rtcVars, busVars>>

ReadClock == /\ phase = "read" /\ ReadRegister
             /\ UNCHANGED <<displayVars, keypadVars, atVars, busVars, appVars>>

ClockTicks == /\ phase = "read" /\ Tick
              /\ UNCHANGED <<displayVars, keypadVars, atVars, busVars, appVars>>

ClockRead == /\ phase = "read" /\ ReadingEnds
             /\ phase' = "begin" /\ todo' = Screen(Begins("radio")) /\ time' = "unwritten"
             /\ UNCHANGED <<step, failed, manager, scanning, tries,
                            displayVars, keypadVars, atVars, busVars>>

Emit == /\ todo # << >> /\ Send(Head(todo)) /\ todo' = Tail(todo)
        /\ UNCHANGED <<step, phase, failed, manager, scanning, tries, time,
                       keypadVars, atVars, rtcVars, busVars>>

Begun == /\ phase = "begin" /\ todo = << >> /\ step # "main" /\ phase' = "call"
         /\ UNCHANGED <<step, todo, failed, manager, scanning, tries, time,
                        displayVars, keypadVars, atVars, rtcVars, busVars>>
-----------------------------------------------------------------------------
\* Init_Radio writes three registers, with Radio_setReg; the first that fails is
\* the last.
Written == result \in {"TX_data_ACK", "TX_data"}

RadioWrites == /\ Calls("radio") /\ tries < 3 /\ (tries > 0 => Written)
               /\ Call(FALSE, 3) /\ tries' = tries + 1 /\ Goes_on
               /\ UNCHANGED <<manager, scanning, time, displayVars, keypadVars, atVars, rtcVars>>

RadioReturns == /\ Calls("radio") /\ pc = "idle" /\ tries > 0 /\ (tries = 3 \/ ~Written)
                /\ Finish(~Written)
                /\ UNCHANGED <<manager, scanning, time,
                               displayVars, keypadVars, atVars, rtcVars, busVars>>

\* The main screen: a turn of Menu_SM takes a key, which may write a register, as
\* Set_Volume and Set_Channel do.  Radio_getReg, which radio_rtos.h offers and
\* nothing calls, selects a register and then reads it.
Selected == step = "main" /\ pc = "idle" /\ ~read /\ size = 1 /\ Written

TakeKey == /\ step = "main" /\ pc = "idle" /\ ~Selected /\ Take
           /\ UNCHANGED busVars \/ Call(FALSE, 3) \/ Call(FALSE, 1)
           /\ UNCHANGED <<displayVars, atVars, rtcVars, appVars>>

ReadBack == /\ Selected /\ Call(TRUE, 2)
            /\ UNCHANGED <<displayVars, keypadVars, atVars, rtcVars, appVars>>

BusWaits == Waits /\ UNCHANGED <<displayVars, keypadVars, atVars, rtcVars, appVars>>
BusInterrupt == Interrupt /\ UNCHANGED <<displayVars, keypadVars, atVars, rtcVars, appVars>>

DriverReads == (ReadChar \/ TimesOut)
               /\ UNCHANGED <<displayVars, keypadVars, rtcVars, busVars, appVars>>

APP_Task ==
    \/ StartDisplay \/ StartButtons \/ StartPublisher \/ StartMenu
    \/ NoUart \/ WifiSends \/ WifiReturns \/ RequestTime \/ StartClock
    \/ Proceed \/ ReadClock \/ ClockRead \/ Emit \/ Begun
    \/ RadioWrites \/ RadioReturns \/ TakeKey \/ ReadBack \/ BusWaits \/ DriverReads

\* Mutant of ManagerStarts: the task makes the queue, not DISPLAY_TaskStart: what
\* was sent before is gone.
ManagerStartsAnew == /\ manager = "created" /\ manager' = "runs"
                     /\ lcd' = SetCursor(Clear(lcd), 0, 0) /\ disp_queue' = << >> /\ heap' = 0
                     /\ UNCHANGED <<hand, step, phase, todo, failed, scanning, tries,
                                    time, keypadVars, atVars, rtcVars, busVars>>

\* DISPLAY_Manager clears the LCD before it looks at the queue.
ManagerStarts == /\ manager = "created" /\ manager' = "runs"
                 /\ lcd' = SetCursor(Clear(lcd), 0, 0)
                 /\ UNCHANGED <<disp_queue, hand, heap, step, phase, todo, failed, scanning, tries,
                                time, keypadVars, atVars, rtcVars, busVars>>

DisplayTask == \/ ManagerStarts
               \/ /\ manager = "runs" /\ Manager
                  /\ UNCHANGED <<keypadVars, atVars, rtcVars, busVars, appVars>>

Scans == /\ scanning /\ \E pressed \in Presses : Scan(pressed)
         /\ UNCHANGED <<displayVars, atVars, rtcVars, busVars, appVars>>
TimerWakes == ScanGoesOn /\ UNCHANGED <<displayVars, atVars, rtcVars, busVars, appVars>>

\* What the module says later is in WifiShare.
Module == /\ step \in DOMAIN Sent \cup {"ntp"}
          /\ Esp /\ UNCHANGED <<displayVars, keypadVars, rtcVars, busVars, appVars>>
-----------------------------------------------------------------------------
Init ==
    /\ DisplayInit /\ lcd = Power /\ KeypadInit /\ AtInit /\ RtcInit /\ BusInit
    /\ step = "display" /\ phase = "begin" /\ todo = Screen(Begins("display"))
    /\ failed = FALSE /\ manager = "none" /\ scanning = FALSE /\ tries = 0
    /\ time = "unwritten"

Next == \/ APP_Task \/ DisplayTask \/ Scans \/ TimerWakes
        \/ Module \/ ClockTicks \/ BusInterrupt

\* Each task is scheduled, time passes for a command, and the I2C controller goes
\* on with what it was told.  Nobody has to press a key or use the radio, and the
\* module has to say nothing.
Fairness == WF_vars(APP_Task) /\ WF_vars(DisplayTask) /\ WF_vars(TimerWakes) /\ WF_vars(BusInterrupt)
Spec == Init /\ [][Next]_vars /\ Fairness
-----------------------------------------------------------------------------
\* Every variable holds a value of its kind, and no queue is longer than it is.
TypeOK ==
    /\ DisplayTypeOK /\ KeypadTypeOK /\ AtTypeOK /\ RtcTypeOK /\ BusTypeOK
    /\ step \in ToSet(Steps) /\ phase \in {"begin", "call", "result", "read"}
    /\ todo \in Seq(Items)
    /\ failed \in BOOLEAN /\ manager \in {"none", "created", "runs"} /\ scanning \in BOOLEAN
    /\ tries \in 0..3 /\ time \in {"unwritten", "ntp"}

\* Whether the call of a step has done what it is for, where its effect can be
\* seen: the task exists, the timer runs, the time was written, the last register
\* was acknowledged; the clock and the menu cannot fail.
Achieved(s) ==
    CASE s = "display" -> manager # "none"
      [] s = "buttons" -> scanning
      [] s = "ntp"     -> time = "ntp"
      [] s = "radio"   -> Written
      [] s \in {"clock", "menu"} -> TRUE
      [] OTHER         -> ~failed

\* A text is alone on the LCD, and all of it is there.
Reads(l, shown) ==
    /\ OnlyTexts(l, {shown})
    /\ \A i \in DOMAIN shown : i # Feed(shown) => l.cells[Place(Power, Feed(shown), i)] = shown[i]

\* When a step has ended and the display has caught up, the LCD shows an error if
\* the step did not do what it is for, success if it did, and nothing else:
\* whatever convention its result follows (a boolean, a base_t, a Radio_State).
\* So a clock that is about to be set from a time that was never written has been
\* preceded by an error.
ResultIsShown ==
    phase = "result" /\ todo = << >> /\ manager = "runs" =>
        Reads(CaughtUp, Outcome(~Achieved(step)))

\* APP_Task writes to the LCD as if it had it to itself, although it begins before
\* the display task exists, and that task begins by clearing the LCD: every item
\* takes effect, once, in the order in which they are sent.
Direct == INSTANCE DirectLcd WITH todo <- hand \o disp_queue \o todo
WritesInOrder == Direct!DirectSpec

\* The application comes to its main screen whatever fails on the way, with two
\* exceptions: no task empties the display queue, for which its senders wait for
\* ever, and the lost wake-up of a write to the radio.
StartupEnds == manager = "created" ~> (step = "main" \/ Hung)

\* The timer service task, held up by a full button queue for as long as the
\* start-up takes, comes free again.
ScanResumes == manager = "runs" /\ waiting # NONE ~> (waiting = NONE \/ Hung)
=============================================================================
