------------------------------- MODULE Panel -------------------------------
(* The menu and the display: Menu_SM of DRIVERS/src/Menu.c with the spinner  *)
(* (Spinner.c), the confirmation (StrField.c), the editors and the main      *)
(* screen as it drives them, the entries of FreeRTOS-Env/src/menu_rtos.c,    *)
(* and the display task that draws what they send.                           *)
(*                                                                           *)
(* The keys come from Keypad: any key, or none, at every turn.  What they do *)
(* to the volume, the channel and the flash is in RadioStore, what they do   *)
(* to a date in DateEditor, what a synchronisation does in WifiShare: here   *)
(* each of them is an effect with a name.                                    *)
EXTENDS Display

CONSTANT Leftovers \* how many characters a text may have that was not written

ASSUME LeftoversAssumption == Leftovers \subseteq Nat /\ Leftovers # {}

Buttons == {"BACK", "CENTER", "ENTER", "UP", "DOWN", "LEFT", "RIGHT"}
NONE    == "NONE"

VARIABLES
    screen,   \* "main", "maintenance", "confirm", "editor", "call" or "result"
    entry,    \* the entry of the maintenance menu that was chosen
    index,    \* of the spinner; of the confirmation; the column in an editor
    render,   \* the screen was opened and has not been drawn
    todo,     \* display items the menu task has still to send
    effect,   \* what the last key, or the call that ended, has done
    wide      \* the frequency has five characters: 100.0 MHz, or more

menuVars == <<screen, entry, index, render, todo, effect, wide>>
vars     == <<displayVars, menuVars>>
-----------------------------------------------------------------------------
\* The maintenance menu, its texts, and the positions of the confirmation.
Entries == <<"Calendar", "Clock", "DelFreq", "DelVolume", "Sync", "Connect">>
Names   == [Calendar |-> 13, Clock |-> 10, DelFreq |-> 10, DelVolume |-> 11, Sync |-> 10, Connect |-> 12]
Chosen  == {Entries[i] : i \in DOMAIN Entries}
EntryAt(i) == Entries[i + 1]
After(i)   == IF i >= Len(Entries) - 1 THEN 0 ELSE i + 1
Selected(i)   == Text("selected", EntryAt(i), 2 + Names[EntryAt(i)])
Unselected(i) == Text("unselected", EntryAt(i), 2 + Names[EntryAt(i)])

Question(e) == Text("question", e, IF e = "DelFreq" THEN 16 ELSE 15)
Yes == Text("answer", "Yes", 3)
No  == Text("answer", "No", 2)
ActionPos(i) == IF i = 0 THEN <<1, 3>> ELSE <<1, 12>>

Date(e)       == IF e = "Calendar" THEN Text("date", e, 15) ELSE Text("date", e, 8)
DateColumn(e) == IF e = "Calendar" THEN 0 ELSE 4
Digits(e)     == IF e = "Calendar" THEN {4, 14} ELSE {4, 11}

\* The main screen's text has MAX_CHARS characters below 100.0 MHz, which is what
\* strftime has room for.  From there on it has one more: strftime reports that,
\* nothing looks at it, and what is sent is whatever is in the buffer.
MainText       == Text("main", "none", 32)
Unspecified(n) == Text("unspecified", "none", n)
MainTexts(w)   == IF w THEN {Unspecified(n) : n \in Leftovers} ELSE {MainText}

Begins(e)   == IF e = "Sync" THEN TwoLines("begins", e, 12, 6) ELSE Text("begins", e, 24)
Ends(e, ok) == LET n == IF e = "Sync" THEN IF ok THEN 17 ELSE 31 ELSE IF ok THEN 20 ELSE 25
               IN Text(IF ok THEN "done" ELSE "failed", e, n)

CursorAt(position) == CURSOR_SET(position[1], position[2])
LcdSetup(blink)    == <<WRITE_CMD(blink), CLEAR>>

\* What render sends.
MainRender(text) == <<CLEAR, CURSOR_SET(0, 0), WRITE_STR(text)>>

\* Mutant of SpinnerRender: the row below shows the entry that was selected.
SpinnerRenderSame(i) ==
    <<CLEAR, CURSOR_SET(0, 1), WRITE_STR(Selected(i)), CURSOR_SET(1, 1), WRITE_STR(Unselected(i))>>

SpinnerRender(i) ==
    <<CLEAR, CURSOR_SET(0, 1), WRITE_STR(Selected(i)),
      CURSOR_SET(1, 1), WRITE_STR(Unselected(After(i)))>>

StrFieldRender(e, i) ==
    <<CLEAR, CURSOR_SET(0, 0), WRITE_STR(Question(e)), CursorAt(ActionPos(0)), WRITE_STR(Yes),
      CursorAt(ActionPos(1)), WRITE_STR(No), CursorAt(ActionPos(i))>>

DateRender(e, column) ==
    <<CURSOR_SET(0, DateColumn(e)), WRITE_STR(Date(e)), CURSOR_SET(0, column)>>
-----------------------------------------------------------------------------
\* A nested Menu_SM starts: it takes its first key before it draws.
Opens(s, e, i, setup) ==
    screen' = s /\ entry' = e /\ index' = i /\ render' = TRUE /\ todo' = setup

Draws(items) == render' = FALSE /\ todo' = items /\ UNCHANGED <<screen, entry>>
DrawsMain    == \E text \in MainTexts(wide') : todo' = MainRender(text)

\* Every nested Menu_SM and the one that called it return, up to the main screen,
\* which draws itself at once.
ToMain == screen' = "main" /\ index' = 0 /\ render' = FALSE /\ DrawsMain /\ UNCHANGED entry

Idle == UNCHANGED <<screen, entry, index, render, todo>>

MainKey(k) ==
    /\ screen = "main"
    /\ IF k = "ENTER"
       THEN Opens("maintenance", entry, 0, LcdSetup(FALSE)) /\ effect' = "none"
       ELSE /\ ToMain
            /\ effect' = CASE k \in {"UP", "DOWN"}    -> "volume"
                           [] k \in {"LEFT", "RIGHT"} -> "channel"
                           [] k = "CENTER"            -> "save"
                           [] OTHER                   -> "none"

\* spinner_step with an int index; spinner_shift is the same.
Turned(k) == IF k \in {"UP", "LEFT"}
             THEN IF index = 0 THEN Len(Entries) - 1 ELSE index - 1
             ELSE After(index)

\* spinner_save: the action of the entry.
Choose(e) == CASE e \in {"Calendar", "Clock"} ->
                    \E c \in Digits(e) : Opens("editor", e, c, LcdSetup(TRUE))
               [] e \in {"DelFreq", "DelVolume"} -> Opens("confirm", e, 0, LcdSetup(TRUE))
               [] OTHER -> /\ screen' = "call" /\ entry' = e /\ index' = 0 /\ render' = FALSE
                           /\ todo' = <<CLEAR, WRITE_STR(Begins(e))>>

MaintenanceKey(k) ==
    /\ screen = "maintenance" /\ effect' = "none"
    /\ CASE k \in {"UP", "DOWN", "LEFT", "RIGHT"} ->
                index' = Turned(k) /\ Draws(SpinnerRender(Turned(k)))
         [] k \in {"ENTER", "CENTER"} -> Choose(EntryAt(index))
         [] k = "BACK" -> ToMain
         [] OTHER -> IF render THEN Draws(SpinnerRender(index)) /\ UNCHANGED index ELSE Idle

\* Mutant of Shifted: the range is not checked.
ShiftedWide(k) == (index + (IF k = "RIGHT" THEN 1 ELSE 255)) % 256

\* strField_shift: the index is a uint8_t, so that -1 is beyond the last answer
\* and not below the first.
Shifted(k) == LET i == (index + (IF k = "RIGHT" THEN 1 ELSE 255)) % 256
              IN IF i >= 2 THEN 0 ELSE i

\* Mutant of Answer: the second answer is the one that deletes.
AnswerOther(i) == IF i = 1 THEN entry ELSE "none"

\* strField_save: yes deletes, no does nothing.
Answer(i) == IF i = 0 THEN entry ELSE "none"

ConfirmKey(k) ==
    /\ screen = "confirm"
    /\ effect' = IF k \in {"ENTER", "CENTER"} THEN Answer(index) ELSE "none"
    /\ CASE k \in {"LEFT", "RIGHT"} ->
                index' = Shifted(k) /\ Draws(StrFieldRender(entry, Shifted(k)))
         [] k \in {"UP", "DOWN"} -> Draws(StrFieldRender(entry, index)) /\ UNCHANGED index
         [] k \in {"ENTER", "CENTER", "BACK"} -> ToMain
         [] OTHER -> IF render THEN Draws(StrFieldRender(entry, index)) /\ UNCHANGED index ELSE Idle

\* The channel: Menu_Field_shift steps it, and _Freq_Del sets it to 0, 87.0 MHz.
Tunes(k) ==
    wide' \in CASE screen = "main" /\ k \in {"LEFT", "RIGHT"} -> BOOLEAN
               [] screen = "confirm" /\ k \in {"ENTER", "CENTER"} /\ Answer(index) = "DelFreq" -> {FALSE}
               [] OTHER -> {wide}

\* The digits and the column are those of DateEditor.
EditorKey(k) ==
    /\ screen = "editor"
    /\ effect' = IF k \in {"ENTER", "CENTER"} THEN entry ELSE "none"
    /\ CASE k \in {"UP", "DOWN", "LEFT", "RIGHT"} ->
                \E c \in Digits(entry) : index' = c /\ Draws(DateRender(entry, c))
         [] k \in {"ENTER", "CENTER", "BACK"} -> ToMain
         [] OTHER -> IF render THEN Draws(DateRender(entry, index)) /\ UNCHANGED index ELSE Idle

\* Menu_SyncClock and Menu_ConnectAP: the call, what it shows, and the pause.
CallEnds == /\ screen = "call" /\ todo = << >>
            /\ \E ok \in BOOLEAN :
                  /\ todo' = <<CLEAR, WRITE_STR(Ends(entry, ok))>>
                  /\ effect' = IF ok THEN entry ELSE "none"
            /\ screen' = "result"
            /\ UNCHANGED <<displayVars, entry, index, render, wide>>

PauseEnds == /\ screen = "result" /\ todo = << >>
             /\ UNCHANGED <<displayVars, wide>>
             /\ ToMain /\ effect' = "none"

\* Mutant of Emit: what DISPLAY_Send returns is taken for a failure, and the item
\* is sent again.
EmitAgain == /\ todo # << >>
             /\ Send(Head(todo))
             /\ UNCHANGED menuVars

Emit == /\ todo # << >>
        /\ Send(Head(todo)) /\ todo' = Tail(todo)
        /\ UNCHANGED <<screen, entry, index, render, effect, wide>>

\* Menu_SM: one turn of its loop takes at most one key, and draws.
Turn == /\ todo = << >> /\ UNCHANGED displayVars
        /\ \E k \in Buttons \cup {NONE} :
              Tunes(k) /\ (MainKey(k) \/ MaintenanceKey(k) \/ ConfirmKey(k) \/ EditorKey(k))

Menu == Turn \/ CallEnds \/ PauseEnds \/ Emit
Display == Manager /\ UNCHANGED menuVars
-----------------------------------------------------------------------------
\* APP_Task has started everything, and Main_Menu is called.
Init ==
    /\ DisplayInit /\ lcd = WriteString(Power, Text("started", "none", 6))
    /\ screen = "main" /\ entry = "Calendar" /\ index = 0 /\ render = TRUE
    /\ todo = LcdSetup(FALSE) /\ effect = "none" /\ wide \in BOOLEAN

Next == Menu \/ Display

\* Both tasks have the same priority and are scheduled in turn; the display task
\* blocks while the queue is empty, the menu task while it is full.
Fairness == WF_vars(Menu) /\ WF_vars(Display)
Spec == Init /\ [][Next]_vars /\ Fairness
-----------------------------------------------------------------------------
\* Every variable holds a value of its kind, and no queue is longer than it is.
TypeOK ==
    /\ DisplayTypeOK
    /\ screen \in {"main", "maintenance", "confirm", "editor", "call", "result"}
    /\ entry \in Chosen /\ render \in BOOLEAN /\ wide \in BOOLEAN
    /\ index \in CASE screen = "maintenance" -> 0..(Len(Entries) - 1)
                   [] screen = "confirm" -> 0..1
                   [] screen = "editor" -> Digits(entry)
                   [] OTHER -> {0}
    /\ todo \in Seq(Items)

\* What the LCD shows when the screen has been drawn.
Shows(l) ==
    CASE screen = "main" -> \E text \in MainTexts(wide) :
            OnlyTexts(l, {text}) /\ (text = MainText => Visible(l, 0, 0, text))
      [] screen = "maintenance" ->
            LET next == (index + 1) % Len(Entries) IN
            /\ Visible(l, 0, 1, Selected(index)) /\ Visible(l, 1, 1, Unselected(next))
            /\ OnlyTexts(l, {Selected(index), Unselected(next)}) /\ ~l.blink
      [] screen = "confirm" ->
            /\ Visible(l, 0, 0, Question(entry)) /\ Visible(l, 1, 3, Yes) /\ Visible(l, 1, 12, No)
            /\ OnlyTexts(l, {Question(entry), Yes, No}) /\ l.blink
            /\ l.cells[l.cursor] = IF index = 0 THEN Yes[1] ELSE No[1]
      [] screen = "editor" ->
            /\ Visible(l, 0, DateColumn(entry), Date(entry)) /\ OnlyTexts(l, {Date(entry)})
            /\ l.cursor = <<0, index>> /\ l.blink
      [] screen = "call" -> OnlyTexts(l, {Begins(entry)}) /\ l.cells # Cleared
      [] screen = "result" -> \E ok \in BOOLEAN : OnlyTexts(l, {Ends(entry, ok)}) /\ l.cells # Cleared

\* When the menu has drawn a screen and the display task has caught up, the LCD
\* shows that screen, with the entry that is selected and its successor or with
\* the cursor on the answer that is selected, and nothing of an earlier screen;
\* the cursor blinks in the editors and the confirmation, not in the list.  From
\* 100.0 MHz on nobody knows what the main screen shows, but that it is nothing of
\* an earlier screen.
ScreenIsShown == todo = << >> /\ ~render => Shows(CaughtUp)

\* Data is deleted only by the confirmation for that data, when its question is
\* drawn, or on its way to the LCD, with the cursor on Yes, or else when nothing
\* has been asked: Menu_SM takes a key before it draws, Yes is the answer it starts
\* with, and the LCD is then blank, so that no other question is answered.
DeletedAsShown ==
    [][effect' # effect /\ effect' \in {"DelFreq", "DelVolume"} =>
          /\ screen = "confirm" /\ entry = effect'
          /\ \/ Visible(CaughtUp, 0, 0, Question(effect')) /\ CaughtUp.cells[CaughtUp.cursor] = Yes[1]
             \/ render /\ CaughtUp.cells = Cleared]_vars

\* With the queue, its limit and the display task between them, the menu task
\* writes to the LCD as if it had it to itself: every item it has to send takes
\* effect, once, and in the order in which they are sent.
Direct == INSTANCE DirectLcd WITH todo <- hand \o disp_queue \o todo
WritesInOrder == Direct!DirectSpec

\* Whatever the menu task has begun to draw it ends to draw: a full display queue
\* holds it up, but not for ever.
MenuGoesOn == todo # << >> ~> todo = << >>
=============================================================================
