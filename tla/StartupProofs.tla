--------------------------- MODULE StartupProofs ---------------------------
(* The components that Startup composes, for every size of their queues and  *)
(* buffers and every length of a day: the buttons, the AT commands, the I2C  *)
(* bus, the reading of the clock, and the display.  A step of Startup is a   *)
(* step of each component, or leaves it alone: each invariant speaks of one  *)
(* component.                                                                *)
EXTENDS Startup, DisplayProofs

KeypadStep == (\E pressed \in Presses : Scan(pressed)) \/ ScanGoesOn \/ Take

AtStep == (\E c \in Commands : Command(c)) \/ Taken \/ ReadChar \/ TimesOut \/ Esp \/ AtForgotten

BusStep == Call(FALSE, 1) \/ Call(FALSE, 3) \/ Call(TRUE, 2) \/ Waits \/ Interrupt

-----------------------------------------------------------------------------
\* What the composition does to each component.

LEMMA AppIsComponents ==
    ASSUME APP_Task
    PROVE  [KeypadStep]_keypadVars /\ [AtStep]_atVars /\ [BusStep]_busVars
<1>1. CASE StartDisplay \/ StartButtons \/ StartPublisher \/ StartMenu \/ NoUart \/ StartClock
           \/ Proceed \/ ReadClock \/ ClockRead \/ Emit \/ Begun \/ RadioReturns
  BY <1>1 DEF StartDisplay, StartButtons, StartPublisher, StartMenu, NoUart, StartClock,
              Proceed, ReadClock, ClockRead, Emit, Begun, RadioReturns
<1>2. CASE WifiSends
  <2>1. DOMAIN Sent = {"wifi", "mode", "join"} /\ \A s \in DOMAIN Sent : Sent[s] \in Commands
    BY DEF Sent, Commands
  <2> QED
    BY <1>2, <2>1 DEF WifiSends, AtStep
<1>3. CASE WifiReturns
  BY <1>3 DEF WifiReturns, AtStep
<1>4. CASE RequestTime
  BY <1>4 DEF RequestTime, AtStep
<1>5. CASE RadioWrites
  BY <1>5 DEF RadioWrites, BusStep
<1>6. CASE TakeKey
  BY <1>6 DEF TakeKey, KeypadStep, BusStep
<1>7. CASE ReadBack
  BY <1>7 DEF ReadBack, BusStep
<1>8. CASE BusWaits
  BY <1>8 DEF BusWaits, BusStep
<1>9. CASE DriverReads
  BY <1>9 DEF DriverReads, AtStep
<1> QED
  BY <1>1, <1>2, <1>3, <1>4, <1>5, <1>6, <1>7, <1>8, <1>9 DEF APP_Task

LEMMA StepIsComponents ==
    ASSUME [Next]_vars
    PROVE  [KeypadStep]_keypadVars /\ [AtStep]_atVars /\ [BusStep]_busVars
<1>1. CASE APP_Task
  BY <1>1, AppIsComponents
<1>2. CASE DisplayTask
  BY <1>2 DEF DisplayTask, ManagerStarts
<1>3. CASE Scans \/ TimerWakes
  BY <1>3 DEF Scans, TimerWakes, KeypadStep
<1>4. CASE Module
  BY <1>4 DEF Module, AtStep
<1>5. CASE ClockTicks
  BY <1>5 DEF ClockTicks
<1>6. CASE BusInterrupt
  BY <1>6 DEF BusInterrupt, BusStep
<1>7. CASE UNCHANGED vars
  BY <1>7 DEF vars
<1> QED
  BY <1>1, <1>2, <1>3, <1>4, <1>5, <1>6, <1>7 DEF Next
-----------------------------------------------------------------------------
\* The buttons: what was_pressed and alike say of the scans so far agrees, and a
\* first scan has been made when a button has been found.

KeypadInv == /\ KeypadTypeOK
             /\ \/ was_pressed = TRUE /\ alike = 2
                \/ was_pressed = FALSE /\ alike = 1
                \/ was_pressed = FALSE /\ alike = 0 /\ last = NONE

LEMMA Least ==
    ASSUME NEW S, S # {}, \A i \in S : i \in Nat /\ i <= 7
    PROVE  \E i \in S : \A j \in S : i <= j
<1>1. SUFFICES ASSUME \A i \in S : \E j \in S : j < i
               PROVE  FALSE
  BY SMT
<1>2. PICK k \in S : TRUE
  OBVIOUS
<1> QED
  BY <1>1, <1>2, SMT

LEMMA ReadsAKey ==
    ASSUME NEW pressed \in SUBSET Keys
    PROVE  Read(pressed) \in Keys \cup {NONE}
<1> DEFINE held == {i \in DOMAIN NavMap : NavMap[i] \in pressed}
<1>1. DOMAIN NavMap = 1..7 /\ \A i \in 1..7 : NavMap[i] \in Keys
  BY DEF NavMap, Keys
<1>2. CASE held = {}
  BY <1>2 DEF Read
<1>3. CASE held # {}
  <2>1. \E i \in held : \A j \in held : i <= j
    <3>1. held \subseteq 1..7
      BY <1>1
    <3> HIDE DEF held
    <3>2. \A i \in held : i \in Nat /\ i <= 7
      BY <3>1
    <3> QED
      BY <1>3, <3>2, Least
  <2>2. Min(held) \in held
    BY <2>1 DEF Min
  <2>3. NavMap[Min(held)] \in Keys
    BY <1>1, <2>2
  <2> QED
    BY <1>3, <2>3 DEF Read
<1> QED
  BY <1>2, <1>3

LEMMA KeypadInitially == Init => KeypadInv
<1> SUFFICES ASSUME Init PROVE KeypadInv
  OBVIOUS
<1>1. << >> \in Seq(Keys) /\ Len(<< >>) = 0
  OBVIOUS
<1> QED
  <2>1. /\ last = NONE /\ was_pressed = FALSE /\ alike = 0
        /\ waiting = NONE /\ btnQueue = << >>
    BY DEF Init, KeypadInit
  <2>2. 0 <= KeyQueueLength
    BY KeypadAssumption DEF KeypadAssumption
  <2>3. KeypadTypeOK
    <3>1. last \in Keys \cup {NONE} /\ waiting \in Keys \cup {NONE}
      BY <2>1
    <3>2. was_pressed \in BOOLEAN
      BY <2>1, Zenon
    <3>4. alike \in 0..2
      BY <2>1, SMT
    <3>3. btnQueue \in Seq(Keys) /\ Len(btnQueue) <= KeyQueueLength
      BY <1>1, <2>1, <2>2
    <3> QED
      BY <3>1, <3>2, <3>3, <3>4 DEF KeypadTypeOK
  <2> QED
    BY <2>1, <2>3 DEF KeypadInv

LEMMA NoneIsNoKey == NONE \notin Keys
<1>1. Keys = {"BACK", "CENTER", "ENTER", "UP", "DOWN", "LEFT", "RIGHT"}
  <2>1. DOMAIN NavMap = {1, 2, 3, 4, 5, 6, 7}
    BY DEF NavMap
  <2> QED
    BY <2>1 DEF Keys, NavMap
<1> QED
  BY <1>1 DEF NONE

\* A key that is reported is put into the queue, or waited with.
LEMMA EnqueueTypes ==
    ASSUME KeypadInv, NEW key \in Keys, Enqueue(key)
    PROVE  /\ waiting' \in {key, NONE}
           /\ btnQueue' \in Seq(Keys) /\ Len(btnQueue') <= KeyQueueLength
           /\ Len(btnQueue') > Len(btnQueue) \/ waiting' = key
<1>1. btnQueue \in Seq(Keys) /\ Len(btnQueue) \in Nat /\ Len(btnQueue) <= KeyQueueLength
  BY DEF KeypadInv, KeypadTypeOK
<1>2. CASE Len(btnQueue) < KeyQueueLength
  <2>1. btnQueue' = Append(btnQueue, key) /\ waiting' = NONE
    BY <1>2 DEF Enqueue
  <2>2. btnQueue' \in Seq(Keys) /\ Len(btnQueue') = Len(btnQueue) + 1
    BY <1>1, <2>1
  <2> QED
    BY <1>1, <1>2, <2>1, <2>2, KeypadAssumption DEF KeypadAssumption
<1>3. CASE ~(Len(btnQueue) < KeyQueueLength)
  BY <1>1, <1>3 DEF Enqueue
<1> QED
  BY <1>2, <1>3

\* One scan: the invariant is kept, and the second of two that find the same
\* button hands it on.
LEMMA ScanSteps ==
    ASSUME KeypadInv, NEW pressed \in Presses, Scan(pressed)
    PROVE  /\ KeypadInv'
           /\ Len(btnQueue') > Len(btnQueue) \/ waiting' # NONE
                 <=> alike = 1 /\ alike' = 2 /\ last' # NONE
<1> DEFINE current == Read(pressed)
<1>1. current \in Keys \cup {NONE}
  BY ReadsAKey, KeypadAssumption DEF KeypadAssumption
<1> HIDE DEF current
<1>2. /\ waiting = NONE /\ last' = current /\ was_pressed' = (current = last)
      /\ alike' = IF current = last THEN 2 ELSE 1
  BY DEF Scan, current
<1>3. /\ last' \in Keys \cup {NONE} /\ was_pressed' \in BOOLEAN /\ alike' \in 0..2
      /\ \/ was_pressed' = TRUE /\ alike' = 2
         \/ was_pressed' = FALSE /\ alike' = 1
  <2>1. CASE current = last
    <3>1. was_pressed' = TRUE
      BY <1>2, <2>1, Zenon
    <3>2. alike' = 2
      BY <1>2, <2>1
    <3> QED
      BY <1>1, <1>2, <3>1, <3>2
  <2>2. CASE current # last
    <3>1. was_pressed' = FALSE
      BY <1>2, <2>2, Zenon
    <3>2. alike' = 1
      BY <1>2, <2>2
    <3> QED
      BY <1>1, <1>2, <3>1, <3>2
  <2> QED
    BY <2>1, <2>2
<1>4. CASE Reported(current) /\ current # NONE
  <2>1. Enqueue(current)
    BY <1>4 DEF Scan, current
  <2>2. current \in Keys
    BY <1>1, <1>4
  <2>3. alike = 1 /\ alike' = 2 /\ last' # NONE
    BY <1>2, <1>4 DEF Reported, KeypadInv, KeypadTypeOK
  <2> QED
    BY <1>3, <2>1, <2>2, <2>3, EnqueueTypes, NoneIsNoKey DEF KeypadInv, KeypadTypeOK
<1>5. CASE ~(Reported(current) /\ current # NONE)
  <2>1. UNCHANGED <<btnQueue, waiting>>
    BY <1>5 DEF Scan, current
  <2>2. ~(alike = 1 /\ alike' = 2 /\ last' # NONE)
    BY <1>2, <1>5 DEF Reported, KeypadInv, KeypadTypeOK
  <2>3. Len(btnQueue') = Len(btnQueue) /\ Len(btnQueue) \in Nat /\ waiting' = NONE
    BY <1>2, <2>1 DEF KeypadInv, KeypadTypeOK
  <2> QED
    BY <1>3, <2>1, <2>2, <2>3 DEF KeypadInv, KeypadTypeOK
<1> QED
  BY <1>4, <1>5

LEMMA KeypadSteps ==
    ASSUME KeypadInv, [KeypadStep]_keypadVars
    PROVE  /\ KeypadInv'
           /\ waiting = NONE =>
                 (Len(btnQueue') > Len(btnQueue) \/ waiting' # NONE
                     <=> alike = 1 /\ alike' = 2 /\ last' # NONE)
<1>1. CASE \E pressed \in Presses : Scan(pressed)
  BY <1>1, ScanSteps
<1>2. CASE ScanGoesOn
  <2>1. waiting \in Keys /\ waiting # NONE
    BY <1>2 DEF ScanGoesOn, KeypadInv, KeypadTypeOK
  <2> QED
    BY <1>2, <2>1, EnqueueTypes DEF ScanGoesOn, KeypadInv, KeypadTypeOK
<1>3. CASE Take
  <2>1. /\ btnQueue \in Seq(Keys) /\ btnQueue # << >> /\ btnQueue' = Tail(btnQueue)
        /\ Len(btnQueue) <= KeyQueueLength /\ KeyQueueLength \in Nat
        /\ UNCHANGED <<last, was_pressed, alike, waiting>>
    BY <1>3, KeypadAssumption DEF Take, KeypadInv, KeypadTypeOK, KeypadAssumption
  <2>2. btnQueue' \in Seq(Keys) /\ Len(btnQueue') = Len(btnQueue) - 1 /\ Len(btnQueue) \in Nat
    BY <2>1
  <2> QED
    BY <2>1, <2>2 DEF KeypadInv, KeypadTypeOK
<1>4. CASE UNCHANGED keypadVars
  BY <1>4 DEF keypadVars, KeypadInv, KeypadTypeOK
<1> QED
  BY <1>1, <1>2, <1>3, <1>4 DEF KeypadStep

LEMMA KeypadInvariance == Spec => []KeypadInv
<1>1. KeypadInv /\ [Next]_vars => KeypadInv'
  BY StepIsComponents, KeypadSteps
<1> QED
  BY KeypadInitially, <1>1, PTL DEF Spec

\* A key is handed on when, and only when, a second scan in a row finds it: for
\* every length of the queue, every set of buttons pressed together, and however
\* long the timer service task was held up.
THEOREM KeysReportedOnce == Spec => ReportedOnce
<1>1. KeypadInv /\ [Next]_vars =>
        [waiting = NONE =>
            (Len(btnQueue') > Len(btnQueue) \/ waiting' # NONE
                <=> alike = 1 /\ alike' = 2 /\ last' # NONE)]_keypadVars
  BY StepIsComponents, KeypadSteps
<1> QED
  BY KeypadInvariance, <1>1, PTL DEF Spec, ReportedOnce
-----------------------------------------------------------------------------
\* The AT commands: until a command that found the module free has returned, the
\* module works on that command and on no other, and has answered no other since
\* the ring was emptied; and an answer that was read without being found came
\* when the response buffer was full.

Answers(from) == {Talk} \cup [says : {"OK", "ERROR"}, from : from]

AtInv == /\ cmd \in Commands \cup {"none"} /\ esp \in Commands \cup {"none"}
         /\ fill \in 0..BufLen /\ uart \in Seq(Answers(Commands))
         /\ cmd # "none" /\ ~late => esp \in {cmd, "none"} /\ uart \in Seq(Answers({cmd}))
         /\ seen => fill = BufLen

\* What the two properties say of one step.
AtPromises == /\ reply = "none" /\ reply' \in {"OK", "ERROR"} /\ ~late => Head(uart).from = cmd
              /\ reply = "none" /\ reply' = "TIMEOUT" /\ seen => fill = BufLen

LEMMA Words ==
    /\ Talk \in Answers({}) /\ Talk.says = "talk" /\ Talk.from = "none"
    /\ \A S : \A w \in Answers(S) : w = Talk \/ (w.says \in {"OK", "ERROR"} /\ w.from \in S)
    /\ \A S : Talk \in Answers(S)
    /\ \A S : \A c \in S : Says("OK", c) \in Answers(S) /\ Says("ERROR", c) \in Answers(S)
BY DEF Answers, Talk, Says

LEMMA NoneIsNoCommand == "none" \notin Commands
BY DEF Commands

LEMMA AtInitially == Init => AtInv
<1> SUFFICES ASSUME Init PROVE AtInv
  OBVIOUS
<1>1. 0 \in 0..BufLen
  BY AtEngineAssumption DEF AtEngineAssumption
<1> QED
  BY <1>1 DEF Init, AtInit, AtInv

LEMMA CommandSteps ==
    ASSUME AtInv, NEW c \in Commands, Command(c)
    PROVE  AtInv' /\ AtPromises
<1>1. /\ cmd' = c /\ reply' = "none" /\ fill' = 0 /\ ~seen' /\ esp' \in Commands \cup {"none"}
  BY DEF Command, AtInv
<1>2. 0 \in 0..BufLen
  BY AtEngineAssumption DEF AtEngineAssumption
<1>3. CASE esp = "none"
  <2>1. esp' = c /\ uart' = << >>
    BY <1>3 DEF Command, Flushed
  <2> QED
    BY <1>1, <1>2, <2>1 DEF AtInv, AtPromises
<1>4. CASE esp # "none"
  <2>1. uart' \in {<< >>, <<Talk>>}
    BY <1>4 DEF Command, Flushed
  <2>2. uart' \in Seq(Answers(Commands))
    <3>1. Talk \in Answers(Commands)
      BY Words
    <3>2. << >> \in Seq(Answers(Commands)) /\ <<Talk>> \in Seq(Answers(Commands))
      BY <3>1
    <3> QED
      BY <2>1, <3>2
  <2>3. late'
    BY <1>4 DEF Command
  <2> QED
    BY <1>1, <1>2, <2>2, <2>3 DEF AtInv, AtPromises
<1> QED
  BY <1>3, <1>4

LEMMA ReadCharSteps ==
    ASSUME AtInv, ReadChar
    PROVE  AtInv' /\ AtPromises
<1>1. /\ cmd \in Commands /\ uart # << >> /\ uart' = Tail(uart) /\ UNCHANGED esp
      /\ uart \in Seq(Answers(Commands)) /\ fill \in 0..BufLen /\ BufLen \in Nat
  BY AtEngineAssumption DEF ReadChar, AtInv, AtEngineAssumption
<1>2. uart' \in Seq(Answers(Commands)) /\ Head(uart) \in Answers(Commands)
  BY <1>1
<1>3. CASE Fits /\ Head(uart).says \in {"OK", "ERROR"}
  <2>1. Returned(Head(uart).says)
    BY <1>3 DEF ReadChar
  <2>2. ~late => Head(uart).from = cmd
    <3> SUFFICES ASSUME ~late PROVE Head(uart).from = cmd
      OBVIOUS
    <3>1. Head(uart) \in Answers({cmd})
      BY <1>1, NoneIsNoCommand DEF AtInv
    <3> QED
      BY <1>3, <3>1, Words
  <2> QED
    BY <1>1, <1>2, <1>3, <2>1, <2>2 DEF Returned, AtInv, AtPromises
<1>4. CASE ~(Fits /\ Head(uart).says \in {"OK", "ERROR"})
  <2>1. /\ UNCHANGED <<cmd, reply, late>> /\ fill' = (IF Fits THEN fill + 1 ELSE fill)
        /\ seen' <=> (seen \/ Head(uart).from = cmd)
    BY <1>4 DEF ReadChar
  <2>2. fill' \in 0..BufLen /\ (~Fits => fill = BufLen)
    BY <1>1, <2>1 DEF Fits
  <2>3. Head(uart).from = cmd => ~Fits
    BY <1>1, <1>2, <1>4, Words, NoneIsNoCommand
  <2>4. seen' => fill' = BufLen
    BY <1>1, <2>1, <2>2, <2>3 DEF AtInv, Fits
  <2>5. ~late => uart' \in Seq(Answers({cmd})) /\ esp \in {cmd, "none"}
    BY <1>1, NoneIsNoCommand DEF AtInv
  <2>6. AtInv'
    BY <1>1, <1>2, <2>1, <2>2, <2>4, <2>5 DEF AtInv
  <2> QED
    BY <2>1, <2>6 DEF AtPromises
<1> QED
  BY <1>3, <1>4

LEMMA EspSteps ==
    ASSUME AtInv, Esp
    PROVE  AtInv' /\ AtPromises
<1>1. UNCHANGED <<cmd, reply, fill, seen, late>>
  BY DEF Esp, EspAnswers, EspTalks
<1>2. uart \in Seq(Answers(Commands))
  BY DEF AtInv
<1>3. CASE EspAnswers
  <2>1. PICK word \in {"OK", "ERROR"} : uart' = Append(uart, Says(word, esp))
    BY <1>3 DEF EspAnswers
  <2>2. esp \in Commands /\ esp' = "none"
    BY <1>3 DEF EspAnswers, AtInv
  <2>3. Says(word, esp) \in Answers(Commands) /\ Says(word, esp) \in Answers({esp})
    BY <2>2, Words
  <2>4. uart' \in Seq(Answers(Commands))
    BY <1>2, <2>1, <2>3
  <2>5. cmd # "none" /\ ~late => uart' \in Seq(Answers({cmd}))
    <3> SUFFICES ASSUME cmd # "none", ~late PROVE uart' \in Seq(Answers({cmd}))
      OBVIOUS
    <3>1. esp = cmd /\ uart \in Seq(Answers({cmd}))
      BY <2>2, NoneIsNoCommand DEF AtInv
    <3> QED
      BY <2>1, <2>3, <3>1
  <2> QED
    BY <1>1, <2>2, <2>4, <2>5 DEF AtInv, AtPromises
<1>4. CASE EspTalks
  <2>1. uart' = Append(uart, Talk) /\ UNCHANGED esp
    BY <1>4 DEF EspTalks
  <2>2. uart' \in Seq(Answers(Commands))
    BY <1>2, <2>1, Words
  <2>3. cmd # "none" /\ ~late => uart' \in Seq(Answers({cmd}))
    BY <2>1, Words DEF AtInv
  <2> QED
    BY <1>1, <2>1, <2>2, <2>3 DEF AtInv, AtPromises
<1> QED
  BY <1>3, <1>4 DEF Esp

LEMMA AtSteps ==
    ASSUME AtInv, [AtStep]_atVars
    PROVE  AtInv' /\ AtPromises
<1>1. CASE \E c \in Commands : Command(c)
  BY <1>1, CommandSteps
<1>2. CASE Taken
  BY <1>2 DEF Taken, AtInv, AtPromises
<1>3. CASE ReadChar
  BY <1>3, ReadCharSteps
<1>4. CASE TimesOut
  <2>1. 0 \in 0..BufLen
    BY AtEngineAssumption DEF AtEngineAssumption
  <2> QED
    BY <1>4, <2>1 DEF TimesOut, Returned, AtInv, AtPromises
<1>5. CASE Esp
  BY <1>5, EspSteps
<1>6. CASE AtForgotten
  <2>1. 0 \in 0..BufLen /\ << >> \in Seq(Answers(Commands))
    BY AtEngineAssumption DEF AtEngineAssumption
  <2> QED
    BY <1>6, <2>1 DEF AtForgotten, AtInv, AtPromises
<1>7. CASE UNCHANGED atVars
  BY <1>7 DEF atVars, AtInv, AtPromises
<1> QED
  BY <1>1, <1>2, <1>3, <1>4, <1>5, <1>6, <1>7 DEF AtStep

LEMMA AtInvariance == Spec => []AtInv
<1>1. AtInv /\ [Next]_vars => AtInv'
  BY StepIsComponents, AtSteps
<1> QED
  BY AtInitially, <1>1, PTL DEF Spec

\* A command that found the module free reports the module's answer to itself,
\* whatever the module says in between, however large the buffer, and however
\* many commands came before whose time was up.
THEOREM AnswersAreOwn == Spec => AnswerIsOwn
<1>1. AtInv /\ [Next]_vars =>
        [reply = "none" /\ reply' \in {"OK", "ERROR"} /\ ~late => Head(uart).from = cmd]_atVars
  BY StepIsComponents, AtSteps DEF AtPromises
<1> QED
  BY AtInvariance, <1>1, PTL DEF Spec, AnswerIsOwn

\* An answer that came in time is missed only when the response buffer was full.
THEOREM TimeoutsMeanFull == Spec => TimeoutMeansFull
<1>1. AtInv /\ [Next]_vars =>
        [reply = "none" /\ reply' = "TIMEOUT" /\ seen => fill = BufLen]_atVars
  BY StepIsComponents, AtSteps DEF AtPromises
<1> QED
  BY AtInvariance, <1>1, PTL DEF Spec, TimeoutMeansFull
-----------------------------------------------------------------------------
\* The reading of the clock: each register was read before the tick or after it,
\* and a third reading is made only when the tick came before the second date.

Reg(t, i)  == IF i \in {3, 6, 9} THEN Tod(t) ELSE Date(t)
Moment(i, n, k) == IF k = 9 \/ k < i THEN n ELSE n - 1

RtcInv ==
    /\ reads \in Seq(0..DayLen) /\ Len(reads) \in 0..9 /\ ticked \in 0..9
    /\ phase # "read" => reads = << >> /\ ticked = 9
    /\ IF ticked = 9 THEN now \in 0..(DayLen - 1) ELSE now \in 1..DayLen /\ ticked <= Len(reads)
    /\ \A i \in 1..Len(reads) : reads[i] = Reg(Moment(i, now, ticked), i)
    /\ Len(reads) > 6 => ticked <= 5

\* A day has one date, up to the moment it ends.
LEMMA DayLemma ==
    /\ \A t \in 0..(DayLen - 1) : Date(t) = 0 /\ Tod(t) = t
    /\ Date(DayLen) = 1 /\ Tod(DayLen) = 0
BY RtcReadingAssumption DEF RtcReadingAssumption, Date, Tod

LEMMA RegTypes ==
    ASSUME NEW t \in 0..DayLen, NEW i
    PROVE  Reg(t, i) \in 0..DayLen
<1>1. DayLen \in Nat \ {0}
  BY RtcReadingAssumption DEF RtcReadingAssumption
<1> QED
  BY <1>1, DayLemma DEF Reg

\* What Startup does to the reading.
LEMMA RtcLift ==
    ASSUME [Next]_vars
    PROVE  \/ phase = "read" /\ phase' = "read" /\ (ReadRegister \/ Tick)
           \/ phase = "read" /\ ReadingEnds
           \/ phase # "read" /\ phase' # "read" /\ SetTime
           \/ UNCHANGED rtcVars /\ (phase = "read" => phase' = "read")
<1>1. CASE StartDisplay \/ StartButtons \/ StartPublisher \/ StartMenu \/ NoUart \/ StartClock
           \/ WifiReturns \/ RequestTime \/ RadioReturns
  BY <1>1 DEF StartDisplay, StartButtons, StartPublisher, StartMenu, NoUart, StartClock,
              WifiReturns, RequestTime, RadioReturns, Calls, Finish
<1>2. CASE Proceed \/ Begun
  BY <1>2 DEF Proceed, Begun
<1>3. CASE Emit \/ WifiSends \/ RadioWrites
  BY <1>3 DEF Emit, WifiSends, RadioWrites, Goes_on
<1>4. CASE ReadClock \/ ClockTicks
  BY <1>4 DEF ReadClock, ClockTicks, appVars
<1>5. CASE ClockRead
  BY <1>5 DEF ClockRead
<1>6. CASE TakeKey \/ ReadBack \/ BusWaits \/ DriverReads
  BY <1>6 DEF TakeKey, ReadBack, BusWaits, DriverReads, appVars
<1>7. CASE DisplayTask
  BY <1>7 DEF DisplayTask, ManagerStarts, appVars
<1>8. CASE Scans \/ TimerWakes \/ Module \/ BusInterrupt
  BY <1>8 DEF Scans, TimerWakes, Module, BusInterrupt, appVars
<1>9. CASE UNCHANGED vars
  BY <1>9 DEF vars, appVars
<1> QED
  BY <1>1, <1>2, <1>3, <1>4, <1>5, <1>6, <1>7, <1>8, <1>9 DEF Next, APP_Task

\* What has been read.
LEMMA ReadsAre ==
    ASSUME RtcInv
    PROVE  \A i \in 1..Len(reads) : reads[i] \in 0..DayLen /\ reads[i] = Reg(Moment(i, now, ticked), i)
<1>1. \A i \in 1..Len(reads) : reads[i] \in 0..DayLen
  <2>1. reads \in Seq(0..DayLen)
    BY DEF RtcInv
  <2> QED
    BY <2>1, ElementOfSeq
<1>2. \A i \in 1..Len(reads) : reads[i] = Reg(Moment(i, now, ticked), i)
  BY DEF RtcInv
<1> QED
  BY <1>1, <1>2

LEMMA RtcInitially == Init => RtcInv
<1>1. DayLen \in Nat \ {0}
  BY RtcReadingAssumption DEF RtcReadingAssumption
<1> QED
  BY <1>1, EmptySeq DEF Init, RtcInit, RtcInv

\* What the comparison of the first two readings compares.
LEMMA DifferMeans ==
    ASSUME RtcInv, Len(reads) = 6
    PROVE  Differ <=> Date(Moment(1, now, ticked)) # Date(Moment(4, now, ticked)) \/ Date(Moment(2, now, ticked)) # Date(Moment(5, now, ticked))
<1>1. \A i \in 1..6 : reads[i] \in 0..DayLen /\ reads[i] = Reg(Moment(i, now, ticked), i)
  BY ReadsAre
<1>2. GetTime(1)[1] = reads[1] /\ GetTime(1)[2] = reads[2]
  <2>1. \A i \in 1..3 : SubSeq(reads, 1, 3)[i] = reads[1 + i - 1]
    <3>1. \A i \in 1..3 : reads[i] \in 0..DayLen
      BY <1>1
    <3> QED
      BY <3>1, SubSeqProperties
  <2>2. GetTime(1) = SubSeq(reads, 1, 3)
    BY DEF GetTime
  <2> QED
    BY <2>1, <2>2
<1>3. GetTime(2)[1] = reads[4] /\ GetTime(2)[2] = reads[5]
  <2>1. \A i \in 1..3 : SubSeq(reads, 4, 6)[i] = reads[4 + i - 1]
    <3>1. \A i \in 4..6 : reads[i] \in 0..DayLen
      BY <1>1
    <3> QED
      BY <3>1, SubSeqProperties
  <2>2. GetTime(2) = SubSeq(reads, 4, 6)
    BY DEF GetTime
  <2> QED
    BY <2>1, <2>2
<1>4. reads[1] = Date(Moment(1, now, ticked)) /\ reads[2] = Date(Moment(2, now, ticked))
      /\ reads[4] = Date(Moment(4, now, ticked)) /\ reads[5] = Date(Moment(5, now, ticked))
  BY <1>1 DEF Reg
<1> QED
  BY <1>2, <1>3, <1>4 DEF Differ

\* Each reading has three registers.
LEMMA ThirdRegister ==
    ASSUME NEW t, NEW n \in 0..8
    PROVE  Shows(t)[(n % 3) + 1] = Reg(t, n + 1)
<1>1. n + 1 \in {3, 6, 9} <=> n % 3 = 2
  OBVIOUS
<1>2. n % 3 \in {0, 1, 2}
  OBVIOUS
<1> QED
  BY <1>1, <1>2 DEF Shows, Reg

\* A register that is read shows the present time; a third reading is begun only
\* when the tick came before the second one's date had been read.
LEMMA RegisterSteps ==
    ASSUME RtcInv, ReadRegister, phase = "read", phase' = "read"
    PROVE  RtcInv'
<1>1. PICK n \in 0..8 : n = Len(reads)
  <2>1. Len(reads) \in 0..9
    BY Zenon DEF RtcInv
  <2>2. Len(reads) < 9
    BY Zenon DEF ReadRegister
  <2>3. \A k \in 0..9 : k < 9 => k \in 0..8
    OBVIOUS
  <2> QED
    BY ONLY <2>1, <2>2, <2>3, Zenon
<1>2. Shows(now)[(n % 3) + 1] = Reg(now, n + 1)
  BY ThirdRegister, Zenon
<1>3. now \in 0..DayLen /\ Reg(now, n + 1) \in 0..DayLen
  <2>1. DayLen \in Nat
    BY RtcReadingAssumption DEF RtcReadingAssumption
  <2>2. now \in 0..DayLen
    BY <2>1 DEF RtcInv
  <2> QED
    BY <2>2, RegTypes
<1>4. reads' = Append(reads, Reg(now, n + 1)) /\ UNCHANGED <<now, ticked>>
  BY <1>1, <1>2 DEF ReadRegister
<1>5. /\ reads' \in Seq(0..DayLen) /\ Len(reads') = n + 1 /\ reads'[n + 1] = Reg(now, n + 1)
      /\ \A i \in 1..n : reads'[i] = reads[i]
  BY <1>1, <1>3, <1>4, AppendProperties DEF RtcInv
<1>7. Moment(n + 1, now, ticked) = now
  BY <1>1 DEF Moment, RtcInv
<1>8. \A i \in 1..Len(reads') : reads'[i] = Reg(Moment(i, now', ticked'), i)
  <2>1. \A i \in 1..(n + 1) : i \in 1..n \/ i = n + 1
    BY <1>1
  <2>2. \A i \in 1..n : reads[i] = Reg(Moment(i, now, ticked), i)
    BY <1>1, ReadsAre
  <2>3. \A i \in 1..(n + 1) : reads'[i] = Reg(Moment(i, now, ticked), i)
    BY <1>5, <1>7, <2>1, <2>2
  <2> QED
    BY <1>4, <1>5, <2>3
<1>9. Len(reads') > 6 => ticked' <= 5
  <2>1. CASE n > 6
    BY <1>1, <1>4, <2>1 DEF RtcInv
  <2>2. CASE n = 6
    <3>1. Differ
      BY <1>1, <2>2 DEF ReadRegister, Enough
    <3>2. Date(Moment(1, now, ticked)) # Date(Moment(4, now, ticked)) \/ Date(Moment(2, now, ticked)) # Date(Moment(5, now, ticked))
      BY <1>1, <2>2, <3>1, DifferMeans
    <3> QED
      BY <1>4, <3>2 DEF Moment, RtcInv
  <2> QED
    BY <1>1, <1>5, <2>1, <2>2
<1>10. /\ Len(reads') \in 0..9 /\ ticked' \in 0..9
       /\ IF ticked' = 9 THEN now' \in 0..(DayLen - 1) ELSE now' \in 1..DayLen /\ ticked' <= Len(reads')
  <2>1. IF ticked = 9 THEN now \in 0..(DayLen - 1) ELSE now \in 1..DayLen /\ ticked <= n
    BY <1>1 DEF RtcInv
  <2>2. ticked \in 0..9 /\ (ticked <= n => ticked <= n + 1) /\ n + 1 \in 0..9
    BY DEF RtcInv
  <2>3. Len(reads') = n + 1 /\ now' = now /\ ticked' = ticked
    BY <1>4, <1>5
  <2> QED
    BY <2>1, <2>2, <2>3
<1> QED
  BY <1>5, <1>8, <1>9, <1>10 DEF RtcInv

\* The tick leaves what has been read to the time before it.
LEMMA TickSteps ==
    ASSUME RtcInv, Tick, phase = "read", phase' = "read"
    PROVE  RtcInv'
<1>1. PICK n \in 0..9 : n = Len(reads) /\ ticked = 9 /\ ticked' = n /\ reads' = reads /\ now' = now + 1
  BY DEF RtcInv, Tick
<1>2. n <= 6
  BY <1>1 DEF RtcInv
<1>3. now \in 0..(DayLen - 1) /\ now' \in 1..DayLen /\ now' - 1 = now
  <2>1. DayLen \in Nat
    BY RtcReadingAssumption DEF RtcReadingAssumption
  <2> QED
    BY <1>1, <2>1 DEF RtcInv
<1>4. ASSUME NEW i \in 1..n
      PROVE  Moment(i, now, ticked) = now /\ Moment(i, now', ticked') = now
  <2>1. n # 9 /\ ~(n < i)
    BY <1>2
  <2> QED
    BY <1>1, <1>3, <2>1 DEF Moment
<1>5. \A i \in 1..Len(reads') : reads'[i] = Reg(Moment(i, now', ticked'), i)
  BY <1>1, <1>4, ReadsAre
<1>6. reads' \in Seq(0..DayLen) /\ Len(reads') \in 0..9 /\ ticked' \in 0..9
  <2>1. reads \in Seq(0..DayLen)
    BY DEF RtcInv
  <2> QED
    BY <1>1, <2>1, Zenon
<1>7. n # 9 /\ n <= n /\ ~(n > 6)
  BY <1>2
<1>8. /\ ticked' # 9 /\ now' \in 1..DayLen /\ ticked' <= Len(reads')
      /\ Len(reads') > 6 => ticked' <= 5
  BY <1>1, <1>3, <1>7, Zenon
<1> QED
  BY <1>5, <1>6, <1>8 DEF RtcInv

LEMMA RtcSteps ==
    ASSUME RtcInv, [Next]_vars
    PROVE  RtcInv'
<1>1. DayLen \in Nat \ {0}
  BY RtcReadingAssumption DEF RtcReadingAssumption
<1>2. CASE phase = "read" /\ phase' = "read" /\ (ReadRegister \/ Tick)
  BY <1>2, RegisterSteps, TickSteps
<1>3. CASE ReadingEnds
  <2>1. reads' = << >> /\ ticked' = 9 /\ now' = 0
    BY <1>3 DEF ReadingEnds
  <2> QED
    BY <1>1, <2>1, EmptySeq DEF RtcInv
<1>4. CASE phase # "read" /\ SetTime
  BY <1>1, <1>4, EmptySeq DEF SetTime, RtcInv
<1>5. CASE UNCHANGED rtcVars /\ (phase = "read" => phase' = "read")
  BY <1>5 DEF rtcVars, RtcInv, Moment
<1> QED
  BY <1>2, <1>3, <1>4, <1>5, RtcLift

\* The last three registers that were read.
LEMMA ResultIs ==
    ASSUME RtcInv, NEW n \in {3, 6}, Len(reads) = n + 3,
           NEW t, \A i \in (n + 1)..(n + 3) : Reg(Moment(i, now, ticked), i) = Reg(t, i)
    PROVE  DateTime = Shows(t)
<1>1. \A i \in (n + 1)..(n + 3) : reads[i] \in 0..DayLen /\ reads[i] = Reg(t, i)
  <2>1. \A i \in (n + 1)..(n + 3) : i \in 1..Len(reads)
    OBVIOUS
  <2> QED
    BY <2>1, ReadsAre
<1>2. DateTime = SubSeq(reads, n + 1, n + 3)
  BY DEF DateTime
<1>3. /\ DateTime \in Seq(0..DayLen) /\ Len(DateTime) = 3
      /\ \A i \in 1..3 : DateTime[i] = reads[n + 1 + i - 1]
  BY <1>1, <1>2, SubSeqProperties
<1>4. /\ DateTime[1] = Reg(t, n + 1) /\ DateTime[2] = Reg(t, n + 2) /\ DateTime[3] = Reg(t, n + 3)
  BY <1>1, <1>3
<1>5. DateTime = <<Date(t), Date(t), Tod(t)>>
  BY <1>3, <1>4 DEF Reg
<1> QED
  BY <1>5 DEF Shows

\* A second reading with the same date was made before the tick or after it, or
\* the tick was not a midnight; the exception is a midnight before its last register.
LEMMA EndsAtOneMoment ==
    ASSUME RtcInv, Enough
    PROVE  \/ DateTime = Shows(now)
           \/ ticked < 9 /\ DateTime = Shows(now - 1)
           \/ ticked = 5 /\ Tod(now) = 0
<1>1. DayLen \in Nat \ {0} /\ now \in 0..DayLen /\ ticked \in 0..9
  BY RtcReadingAssumption DEF RtcReadingAssumption, RtcInv
<1>2. CASE Len(reads) = 9
  <2>1. \A i \in 7..9 : Moment(i, now, ticked) = now
    BY <1>2 DEF RtcInv, Moment
  <2> QED
    BY <1>2, <2>1, ResultIs
<1>3. CASE Len(reads) = 6 /\ ~Differ
  <2>1. Date(Moment(1, now, ticked)) = Date(Moment(4, now, ticked)) /\ Date(Moment(2, now, ticked)) = Date(Moment(5, now, ticked))
    BY <1>3, DifferMeans
  <2>2. CASE ticked = 9 \/ ticked <= 3
    <3>1. \A i \in 4..6 : Moment(i, now, ticked) = now
      BY <1>1, <2>2 DEF Moment
    <3> QED
      BY <1>3, <3>1, ResultIs
  <2>3. CASE ticked = 6
    <3>1. \A i \in 4..6 : Moment(i, now, ticked) = now - 1
      BY <2>3 DEF Moment
    <3> QED
      BY <1>3, <2>3, <3>1, ResultIs
  <2>4. CASE ticked = 4
    <3>1. Date(now - 1) = Date(now) /\ Moment(4, now, ticked) = now - 1 /\ Moment(5, now, ticked) = now /\ Moment(6, now, ticked) = now
      BY <2>1, <2>4 DEF Moment
    <3>2. \A i \in 4..6 : Reg(Moment(i, now, ticked), i) = Reg(now, i)
      BY <3>1 DEF Reg
    <3> QED
      BY <1>3, <3>2, ResultIs
  <2>5. CASE ticked = 5 /\ Tod(now) # 0
    <3>1. Moment(4, now, ticked) = now - 1 /\ Moment(5, now, ticked) = now - 1 /\ Moment(6, now, ticked) = now
      BY <2>5 DEF Moment
    <3>2. now \in 1..DayLen /\ now # DayLen
      BY <2>5, DayLemma DEF RtcInv
    <3>3. Date(now - 1) = Date(now)
      <4>1. now \in 0..(DayLen - 1) /\ now - 1 \in 0..(DayLen - 1)
        BY <1>1, <3>2
      <4> QED
        BY <4>1, DayLemma
    <3>4. \A i \in 4..6 : Reg(Moment(i, now, ticked), i) = Reg(now, i)
      BY <3>1, <3>3 DEF Reg
    <3> QED
      BY <1>3, <3>4, ResultIs
  <2>6. ticked = 9 \/ ticked <= 6
    BY <1>3 DEF RtcInv
  <2> QED
    BY <1>1, <2>2, <2>3, <2>4, <2>5, <2>6
<1> QED
  BY <1>2, <1>3 DEF Enough

\* A clock of any day's length is read at one moment of the call, but for the
\* midnight that the comparison of the dates misses.
THEOREM ClockReadAtOnce == Spec => ReadAtOneMoment
<1>1. Init => RtcInv
  BY RtcInitially
<1>2. RtcInv /\ [Next]_vars => RtcInv'
  BY RtcSteps
<1>3. RtcInv /\ [Next]_vars =>
        [reads # << >> /\ reads' = << >> =>
          \/ DateTime = Shows(now)
          \/ ticked < 9 /\ DateTime = Shows(now - 1)
          \/ ticked = 5 /\ Tod(now) = 0]_rtcVars
  <2> SUFFICES ASSUME RtcInv, [Next]_vars, reads # << >>, reads' = << >>
               PROVE  \/ DateTime = Shows(now)
                      \/ ticked < 9 /\ DateTime = Shows(now - 1)
                      \/ ticked = 5 /\ Tod(now) = 0
    OBVIOUS
  <2>1. ~ReadRegister
    <3>1. ASSUME NEW x PROVE Append(reads, x) # << >>
      OBVIOUS
    <3> QED
      BY <3>1 DEF ReadRegister
  <2>2. Enough
    BY <2>1, RtcLift DEF Tick, SetTime, ReadingEnds, rtcVars
  <2> QED
    BY <2>2, EndsAtOneMoment
<1> QED
  BY <1>1, <1>2, <1>3, PTL DEF Spec, ReadAtOneMoment
-----------------------------------------------------------------------------
\* The bus: where a transfer is, of a write or a read, from the call to its end,
\* when the calls are paced.  index runs one byte ahead of what was acknowledged.
Address == {"TX_data", "Addr_NACK"}
Data    == {"TX_data_ACK", "TX_data_NACK"}
Request == {"Request_RX", "Request_RX_NACK"}
Byte    == {"RX_data"}
OneMore == {"RX_data_NACK"}

LEMMA NextsDiffer ==
    /\ Address # {} /\ Data # {} /\ Request # {} /\ Byte # {} /\ OneMore # {}
    /\ Address # Data /\ Address # Request /\ Address # Byte /\ Address # OneMore
    /\ Data # Request /\ Data # Byte /\ Data # OneMore
    /\ Request # Byte /\ Request # OneMore /\ Byte # OneMore
BY DEF Address, Data, Request, Byte, OneMore

TransferInv ==
    /\ next \in {{}, Address, Data, Request, Byte, OneMore}
    /\ size \in 0..MaxSize /\ index \in 0..(size + 1) /\ done \in 0..size
    /\ pc = "start" => next = {} /\ sta = FALSE /\ index = 0 /\ done = 0
    /\ sta = TRUE => next = {} /\ index = 0 /\ done = 0
    /\ next \in {Address, Request} => index = 0 /\ done = 0
    /\ next = Data => index = done + 1 /\ index <= size
    /\ next = Byte => index = done /\ index < size
    /\ next = OneMore => index = size /\ (pc # "idle" => done = size)
    /\ next \in {Address, Data} => read = FALSE
    /\ next \in {Request, Byte, OneMore} => read = TRUE
    /\ pc = "wait" /\ blocking = FALSE /\ state \in Success => done = size
    /\ pc = "idle" \/ (pc = "wait" /\ blocking = FALSE) =>
          next \in {{}, OneMore} /\ sta = FALSE
    /\ pc # "idle" => size # 0
KindsInv ==
    /\ pc \in {"idle", "start", "block", "wait"} /\ blocking \in BOOLEAN /\ missed \in BOOLEAN
    /\ read \in BOOLEAN /\ sta \in BOOLEAN
    /\ state \in Status \cup {"None"} /\ result \in Status \cup {"None"}

LEMMA BusIsTyped == TransferInv /\ KindsInv => BusTypeOK
<1> SUFFICES ASSUME TransferInv, KindsInv PROVE BusTypeOK
  OBVIOUS
<1>1. size \in 0..MaxSize /\ index \in 0..(size + 1) /\ done \in 0..size
  BY DEF TransferInv
<1>2. next \subseteq Status
  BY DEF TransferInv, Address, Data, Request, Byte, OneMore, Status
<1> QED
  BY <1>1, <1>2, Zenon DEF KindsInv, BusTypeOK

LEMMA TransferInitially == Init => TransferInv /\ KindsInv
<1> SUFFICES ASSUME Init PROVE TransferInv /\ KindsInv
  OBVIOUS
<1>1. /\ pc = "idle" /\ blocking = FALSE /\ read = FALSE /\ size = 0 /\ index = 0
      /\ state = "None" /\ sta = FALSE /\ next = {} /\ done = 0 /\ missed = FALSE /\ result = "None"
  BY DEF Init, BusInit
<1>2. KindsInv
  BY <1>1, Zenon DEF KindsInv
<1>3. TransferInv
  BY <1>1, I2CMasterAssumption DEF I2CMasterAssumption, TransferInv, Address, Data, Request, Byte, OneMore
<1> QED
  BY <1>2, <1>3

LEMMA TransferCalls ==
    ASSUME Paced, TransferInv, KindsInv, NEW n \in {1, 2, 3}, NEW r \in BOOLEAN, Call(r, n)
    PROVE  TransferInv' /\ KindsInv'
<1>1. /\ pc' = "start" /\ next' = {} /\ sta' = FALSE /\ index' = 0 /\ done' = 0 /\ missed' = FALSE
      /\ size' = n /\ read' = r /\ blocking' = blocking /\ result' = result /\ state' = "None"
  BY DEF Call
<1>2. KindsInv'
  BY <1>1, Zenon DEF KindsInv
<1>3. TransferInv'
  BY <1>1, I2CMasterAssumption, StartupAssumption, NextsDiffer
     DEF I2CMasterAssumption, StartupAssumption, TransferInv
<1> QED
  BY <1>2, <1>3

LEMMA TransferWaits ==
    ASSUME TransferInv, KindsInv, Waits
    PROVE  TransferInv' /\ KindsInv'
<1>1. CASE Start
  <2>1. pc = "start" /\ pc' = "block" /\ sta' = TRUE
        /\ UNCHANGED <<blocking, read, size, index, state, next, done, missed, result>>
    BY <1>1 DEF Start, conn
  <2>2. TransferInv'
    BY <2>1, NextsDiffer DEF TransferInv, Success
  <2> QED
    BY <2>1, <2>2, Zenon DEF KindsInv
<1>2. CASE Block
  <2>1. pc = "block" /\ pc' = "wait" /\ blocking' = TRUE
        /\ UNCHANGED <<read, size, index, state, sta, next, done, result>>
    BY <1>2 DEF Block, conn
  <2>2. TransferInv'
    BY <2>1, NextsDiffer DEF TransferInv
  <2>3. missed' \in BOOLEAN
    BY <1>2, Zenon DEF Block
  <2> QED
    BY <2>1, <2>2, <2>3, Zenon DEF KindsInv
<1>3. CASE Return
  <2>1. pc = "wait" /\ blocking = FALSE /\ pc' = "idle" /\ result' = state /\ done' = 0
        /\ UNCHANGED <<blocking, read, size, index, state, sta, next, missed>>
    BY <1>3 DEF Return, conn, KindsInv
  <2>2. TransferInv'
    BY <2>1, NextsDiffer DEF TransferInv, Success
  <2> QED
    BY <2>1, <2>2, Zenon DEF KindsInv
<1> QED
  BY <1>1, <1>2, <1>3 DEF Waits

\* One interrupt, of a write or a read.
LEMMA TransferInterrupts ==
    ASSUME TransferInv, KindsInv, Interrupt
    PROVE  TransferInv' /\ KindsInv'
<1>1. UNCHANGED <<pc, result, read, size, missed>>
  BY DEF Interrupt, task
<1>2. PICK code \in Possible :
         /\ state' = code
         /\ CASE code = "Start_tx"     -> OnStart
              [] code = "TX_data"      -> OnAddressed
              [] code = "TX_data_ACK"  -> OnAcked
              [] code = "Request_RX"   -> OnRequestAcked
              [] code = "RX_data"      -> OnReceived
              [] code = "RX_data_NACK" -> OnLastReceived
              [] OTHER                 -> OnNack
  BY DEF Interrupt
<1>3. /\ size \in Nat /\ index \in Nat /\ done \in Nat /\ size <= MaxSize /\ MaxSize \in Nat
      /\ index <= size + 1 /\ done <= size
  BY I2CMasterAssumption DEF TransferInv, I2CMasterAssumption
<1>4. KindsInv'
  <2>1. sta' \in {sta, FALSE} /\ blocking' \in {blocking, FALSE}
    BY DEF Interrupt, OnStart, OnAddressed, OnAcked, OnRequestAcked, OnReceived,
           OnLastReceived, OnNack, Goes, Ends
  <2>2. code \in Status
    BY DEF Possible, TransferInv, Address, Data, Request, Byte, OneMore, Status
  <2>3. sta' \in BOOLEAN /\ blocking' \in BOOLEAN
    BY <2>1, Zenon DEF KindsInv
  <2>4. state' \in Status
    BY <1>2, <2>2
  <2> QED
    BY <1>1, <2>3, <2>4, Zenon DEF KindsInv
<1> SUFFICES TransferInv'
  BY <1>4
<1>5. CASE next = {} /\ sta = TRUE
  <2>1. code = "Start_tx" /\ index = 0 /\ done = 0
    BY <1>2, <1>5 DEF Possible, TransferInv
  <2>2. /\ next' = (IF read THEN Request ELSE Address)
        /\ sta' = FALSE /\ UNCHANGED <<index, done, blocking>>
    BY <1>2, <2>1 DEF OnStart, Goes, Address, Request
  <2>3. pc \in {"block", "wait"} /\ ~(pc = "wait" /\ blocking = FALSE) /\ size # 0
    BY <1>5 DEF TransferInv, KindsInv
  <2>4. read \in BOOLEAN
    BY DEF KindsInv
  <2> QED
    BY <1>1, <1>3, <1>4, <2>1, <2>2, <2>3, <2>4, NextsDiffer DEF TransferInv
<1>6. CASE next = {} /\ sta # TRUE
  BY <1>2, <1>6 DEF Possible, KindsInv
<1>7. next # {} => sta = FALSE /\ pc # "start"
  BY DEF TransferInv, KindsInv
<1>8. /\ next # {} /\ next' = {} /\ blocking' = FALSE /\ sta' = sta
      /\ index' \in 0..(size + 1) /\ done' \in 0..size
      /\ pc = "wait" /\ state' \in Success => done' = size
      => TransferInv'
  BY <1>1, <1>3, <1>7, NextsDiffer DEF TransferInv, Success
<1>9. CASE next \in {Address, Request}
  <2>1. code \in {"TX_data", "Addr_NACK", "Request_RX", "Request_RX_NACK"} /\ index = 0 /\ done = 0
    BY <1>2, <1>9 DEF Possible, Address, Request, TransferInv
  <2>2. ~(pc = "wait" /\ blocking = FALSE) /\ pc # "idle" /\ size # 0 /\ next # {}
    BY <1>9, NextsDiffer DEF TransferInv
  <2>3. CASE code = "TX_data"
    <3>1. next' = Data /\ index' = 1 /\ done' = 0 /\ UNCHANGED <<sta, blocking>>
      BY <1>2, <2>1, <2>3 DEF OnAddressed, Goes, Data
    <3>2. read = FALSE
      BY <1>2, <1>9, <2>2, <2>3 DEF Possible, TransferInv, Address, Request
    <3> QED
      BY <1>1, <1>3, <1>7, <2>2, <3>1, <3>2, NextsDiffer DEF TransferInv
  <2>4. CASE code = "Request_RX"
    <3>1. next' = Byte /\ UNCHANGED <<index, done, sta, blocking>>
      BY <1>2, <2>4 DEF OnRequestAcked, Goes, Byte
    <3>2. read = TRUE
      BY <1>2, <1>9, <2>2, <2>4 DEF Possible, TransferInv, Address, Request
    <3> QED
      BY <1>1, <1>3, <1>7, <2>1, <2>2, <3>1, <3>2, NextsDiffer DEF TransferInv
  <2>5. CASE code \in {"Addr_NACK", "Request_RX_NACK"}
    <3>1. next' = {} /\ blocking' = FALSE /\ sta' = sta /\ UNCHANGED <<index, done>>
      BY <1>2, <2>5 DEF OnNack, Ends
    <3>2. state' \notin Success
      BY <1>1, <1>2, <2>5 DEF Success
    <3> QED
      BY <1>3, <1>8, <2>1, <2>2, <3>1, <3>2
  <2> QED
    BY <2>1, <2>3, <2>4, <2>5
<1>10. CASE next = Data
  <2>1. code \in {"TX_data_ACK", "TX_data_NACK"} /\ index = done + 1 /\ index <= size
    BY <1>2, <1>10 DEF Possible, Data, Address, Request, Byte, OneMore, TransferInv
  <2>2. ~(pc = "wait" /\ blocking = FALSE) /\ pc # "idle" /\ size # 0 /\ next # {}
    BY <1>10, NextsDiffer DEF TransferInv
  <2>3. CASE code = "TX_data_ACK" /\ LastByte
    <3>1. next' = {} /\ blocking' = FALSE /\ sta' = sta /\ index' = index /\ done' = done + 1
      BY <1>2, <2>3 DEF OnAcked, Ends
    <3>2. done' = size
      BY <1>3, <2>1, <2>3, <3>1 DEF LastByte
    <3> QED
      BY <1>3, <1>8, <2>1, <2>2, <3>1, <3>2
  <2>4. CASE code = "TX_data_ACK" /\ ~LastByte
    <3>1. next' = Data /\ index' = index + 1 /\ done' = done + 1 /\ UNCHANGED <<sta, blocking>>
      BY <1>2, <2>4 DEF OnAcked, Goes, Data
    <3>2. index' <= size
      BY <1>3, <2>1, <2>4, <3>1 DEF LastByte
    <3> QED
      BY <1>1, <1>3, <1>7, <2>1, <2>2, <3>1, <3>2, NextsDiffer DEF TransferInv
  <2>5. CASE code = "TX_data_NACK"
    <3>1. next' = {} /\ blocking' = FALSE /\ sta' = sta /\ UNCHANGED <<index, done>>
      BY <1>2, <2>5 DEF OnNack, Ends
    <3>2. state' \notin Success
      BY <1>1, <1>2, <2>5 DEF Success
    <3> QED
      BY <1>3, <1>8, <2>2, <3>1, <3>2
  <2> QED
    BY <2>1, <2>3, <2>4, <2>5
<1>11. CASE next = Byte
  <2>1. code = "RX_data" /\ index = done /\ index < size /\ read = TRUE
    BY <1>2, <1>11 DEF Possible, Data, Address, Request, Byte, OneMore, TransferInv
  <2>2. ~(pc = "wait" /\ blocking = FALSE) /\ pc # "idle" /\ size # 0
    BY <1>11, NextsDiffer DEF TransferInv
  <2>3. index' = index + 1 /\ done' = done + 1 /\ UNCHANGED sta
    BY <1>2, <2>1 DEF OnReceived, OneMore
  <2>4. CASE index + 1 >= size
    <3>1. blocking' = FALSE /\ next' = OneMore
      BY <1>2, <2>1, <2>4 DEF OnReceived, OneMore
    <3>2. index' = size /\ done' = size
      BY ONLY <1>3, <2>1, <2>3, <2>4
    <3>3. sta' = FALSE /\ pc' = pc /\ size' = size /\ read' = TRUE /\ pc # "start" /\ size \in 0..MaxSize
      BY <1>1, <1>7, <1>11, <2>1, <2>3, NextsDiffer DEF TransferInv
    <3> QED
      BY ONLY <1>3, <2>2, <3>1, <3>2, <3>3, NextsDiffer DEF TransferInv
  <2>5. CASE ~(index + 1 >= size)
    <3>1. blocking' = blocking /\ next' = Byte
      BY <1>2, <2>1, <2>5 DEF OnReceived, Goes, Byte
    <3> QED
      BY <1>1, <1>3, <1>7, <1>11, <2>1, <2>2, <2>3, <2>5, <3>1, NextsDiffer DEF TransferInv
  <2> QED
    BY <2>4, <2>5
<1>12. CASE next = OneMore
  <2>1. code = "RX_data_NACK" /\ index <= size
    BY <1>2, <1>12 DEF Possible, TransferInv, Address, Data, Request, Byte, OneMore
  <2>2. next' = {} /\ blocking' = FALSE /\ sta' = sta /\ index' = index + 1 /\ done' = done
    BY <1>2, <2>1 DEF OnLastReceived, Ends
  <2>3. pc # "idle" => done = size
    BY <1>12, NextsDiffer DEF TransferInv
  <2> QED
    BY <1>3, <1>8, <1>12, <2>1, <2>2, <2>3, NextsDiffer
<1> QED
  BY <1>5, <1>6, <1>9, <1>10, <1>11, <1>12, NextsDiffer DEF TransferInv

LEMMA TransferSteps ==
    ASSUME Paced, TransferInv, KindsInv, [BusStep]_busVars
    PROVE  TransferInv' /\ KindsInv'
<1>1. CASE Call(FALSE, 1) \/ Call(FALSE, 3) \/ Call(TRUE, 2)
  BY <1>1, TransferCalls
<1>2. CASE Waits
  BY <1>2, TransferWaits
<1>3. CASE Interrupt
  BY <1>3, TransferInterrupts
<1>4. CASE UNCHANGED busVars
  <2>1. UNCHANGED <<pc, result, blocking, read, size, index, state, sta, next, done, missed>>
    BY <1>4 DEF busVars, task, conn
  <2> QED
    BY <2>1 DEF TransferInv, KindsInv, Success
<1> QED
  BY <1>1, <1>2, <1>3, <1>4 DEF BusStep

LEMMA TransferInvariance == ASSUME Paced PROVE Spec => [](TransferInv /\ KindsInv)
<1>1. TransferInv /\ KindsInv /\ [Next]_vars => TransferInv' /\ KindsInv'
  BY StepIsComponents, TransferSteps
<1> QED
  BY <1>1, TransferInitially, PTL DEF Spec

\* What Radio_setReg takes for a success has been acknowledged by the device to
\* its last byte, and what Radio_getReg takes for one has all of its bytes, when no
\* call begins before the transfer of the last one is over; also when the wake-up
\* of a call was missed.
THEOREM SuccessIsDone == ASSUME Paced PROVE Spec => SuccessMeansDone
<1>1. TransferInv /\ KindsInv /\ [Next]_vars => [Return /\ state \in Success => done = size]_busVars
  BY DEF Return, TransferInv, KindsInv
<1> QED
  BY <1>1, TransferInvariance, PTL DEF Spec, SuccessMeansDone

\* The AT commands: what AtInv does not say of their types.
AtKinds == /\ reply \in {"none", "OK", "ERROR", "TIMEOUT"}
           /\ seen \in BOOLEAN /\ late \in BOOLEAN /\ joined \in BOOLEAN
           /\ uart \in Seq(Answers(Commands)) /\ Len(uart) <= MaxUart

LEMMA SeqWiden ==
    ASSUME NEW S, NEW T, S \subseteq T, NEW s \in Seq(S)
    PROVE  s \in Seq(T)
<1>1. Len(s) \in Nat /\ s = [i \in 1..Len(s) |-> s[i]] /\ \A i \in 1..Len(s) : s[i] \in T
  OBVIOUS
<1> QED
  BY <1>1

LEMMA AtIsTyped == AtInv /\ AtKinds => AtTypeOK
<1>1. Answers(Commands) \subseteq [says : {"OK", "ERROR", "talk"}, from : Commands \cup {"none"}]
  BY DEF Answers, Talk, Says
<1> SUFFICES ASSUME AtInv, AtKinds PROVE AtTypeOK
  OBVIOUS
<1>2. uart \in Seq([says : {"OK", "ERROR", "talk"}, from : Commands \cup {"none"}])
  BY <1>1, SeqWiden DEF AtKinds
<1> QED
  BY <1>2, Zenon DEF AtInv, AtKinds, AtTypeOK

\* An empty ring, and one with a word of talk.
LEMMA ShortUart ==
    /\ << >> \in Seq(Answers(Commands)) /\ Len(<< >>) <= MaxUart
    /\ <<Talk>> \in Seq(Answers(Commands)) /\ Len(<<Talk>>) <= MaxUart
<1>1. Talk \in Answers(Commands)
  BY Words
<1>2. << >> \in Seq(Answers(Commands)) /\ <<Talk>> \in Seq(Answers(Commands))
      /\ Len(<< >>) = 0 /\ Len(<<Talk>>) = 1
  BY <1>1
<1>3. 0 <= MaxUart /\ 1 <= MaxUart
  BY AtEngineAssumption DEF AtEngineAssumption
<1> QED
  BY <1>2, <1>3, Zenon

LEMMA AtKindsInitially == Init => AtKinds
<1> SUFFICES ASSUME Init PROVE AtKinds
  OBVIOUS
<1>1. reply = "none" /\ seen = FALSE /\ late = FALSE /\ joined = FALSE /\ uart = << >>
  BY DEF Init, AtInit
<1> QED
  BY <1>1, ShortUart, Zenon DEF AtKinds

LEMMA AtKindsSteps ==
    ASSUME AtInv, AtKinds, [AtStep]_atVars
    PROVE  AtKinds'
<1>1. ASSUME NEW c \in Commands, Command(c) PROVE AtKinds'
  <2>1. reply' = "none" /\ seen' = FALSE /\ joined' = joined /\ uart' \in {<< >>, <<Talk>>}
    <3>1. reply' = "none" /\ seen' = FALSE /\ joined' = joined
      BY <1>1 DEF Command
    <3>2. CASE esp = "none"
      BY <1>1, <3>1, <3>2 DEF Command, Flushed
    <3>3. CASE esp # "none"
      <4>1. PICK busy \in {<< >>, <<Talk>>} : uart' = << >> \o busy
        BY <1>1, <3>3 DEF Command, Flushed
      <4>2. << >> \o busy = busy
        <5>1. busy \in Seq(Answers(Commands))
          BY ShortUart
        <5> QED
          BY <5>1
      <4> QED
        BY <3>1, <4>1, <4>2
    <3> QED
      BY <3>2, <3>3
  <2>2. late' = (esp # "none")
    BY <1>1 DEF Command
  <2>3. late' \in BOOLEAN
    BY <2>2, Zenon
  <2> QED
    BY <2>1, <2>3, ShortUart, Zenon DEF AtKinds
<1>2. CASE Taken
  BY <1>2, Zenon DEF Taken, AtKinds
<1>3. ASSUME NEW r \in {"OK", "ERROR", "TIMEOUT"}, Returned(r)
      PROVE  /\ reply' \in {"none", "OK", "ERROR", "TIMEOUT"} /\ seen' \in BOOLEAN /\ late' \in BOOLEAN
  BY <1>3, Zenon DEF Returned
<1>4. CASE ReadChar
  <2>1. uart # << >> /\ uart' = Tail(uart) /\ joined' = joined
    BY <1>4 DEF ReadChar
  <2>2. uart' \in Seq(Answers(Commands)) /\ Len(uart') <= MaxUart
    BY <2>1, AtEngineAssumption DEF AtKinds, AtEngineAssumption
  <2>3. CASE Fits /\ Head(uart).says \in {"OK", "ERROR"}
    <3>1. Returned(Head(uart).says)
      BY <1>4, <2>3 DEF ReadChar
    <3> QED
      BY <1>3, <2>1, <2>2, <2>3, <3>1 DEF AtKinds
  <2>4. CASE ~(Fits /\ Head(uart).says \in {"OK", "ERROR"})
    <3>1. reply' = reply /\ late' = late /\ seen' = (seen \/ Head(uart).from = cmd)
      BY <1>4, <2>4 DEF ReadChar
    <3>2. seen' \in BOOLEAN
      BY <3>1, Zenon
    <3> QED
      BY <2>1, <2>2, <3>1, <3>2, Zenon DEF AtKinds
  <2> QED
    BY <2>3, <2>4
<1>5. CASE TimesOut
  BY <1>3, <1>5 DEF TimesOut, AtKinds
<1>6. CASE Esp
  <2>1. UNCHANGED <<reply, seen, late>> /\ Len(uart) < MaxUart
    BY <1>6 DEF Esp, EspAnswers, EspTalks
  <2>2. joined' \in BOOLEAN
    <3>1. CASE EspAnswers
      <4>1. PICK word \in {"OK", "ERROR"} : joined' = (IF esp = "AT+CWJAP" THEN word = "OK" ELSE joined)
        BY <3>1, Zenon DEF EspAnswers
      <4> QED
        BY <4>1, Zenon DEF AtKinds
    <3>2. CASE EspTalks
      BY <3>2, Zenon DEF EspTalks, AtKinds
    <3> QED
      BY <1>6, <3>1, <3>2 DEF Esp
  <2>3. AtInv'
    BY <1>6, EspSteps
  <2>4. PICK w : uart' = Append(uart, w)
    BY <1>6 DEF Esp, EspAnswers, EspTalks
  <2>5. Len(uart') <= MaxUart
    BY <2>1, <2>4, AtEngineAssumption DEF AtKinds, AtEngineAssumption
  <2> QED
    BY <2>1, <2>2, <2>3, <2>5, Zenon DEF AtInv, AtKinds
<1>7. CASE AtForgotten
  <2>1. reply' = "none" /\ seen' = FALSE /\ late' = FALSE /\ joined' = FALSE /\ uart' = << >>
    BY <1>7 DEF AtForgotten
  <2> QED
    BY <2>1, ShortUart, Zenon DEF AtKinds
<1>8. CASE UNCHANGED atVars
  BY <1>8, Zenon DEF atVars, AtKinds
<1> QED
  BY <1>1, <1>2, <1>4, <1>5, <1>6, <1>7, <1>8 DEF AtStep

LEMMA RtcIsTyped == RtcInv => RtcTypeOK
<1> SUFFICES ASSUME RtcInv PROVE RtcTypeOK
  OBVIOUS
<1>1. DayLen \in Nat \ {0}
  BY RtcReadingAssumption DEF RtcReadingAssumption
<1>2. now \in 0..DayLen
  BY <1>1 DEF RtcInv
<1>3. Len(reads) <= 9
  <2>1. Len(reads) \in 0..9
    BY Zenon DEF RtcInv
  <2>2. \A n \in 0..9 : n <= 9
    OBVIOUS
  <2> QED
    BY <2>1, <2>2, Zenon
<1> QED
  BY <1>2, <1>3, Zenon DEF RtcInv, RtcTypeOK
-----------------------------------------------------------------------------
\* The order of the steps; the last one has none that follows.
LEMMA StepFacts ==
    /\ ToSet(Steps) = {"display", "buttons", "wifi", "mode", "join", "ntp",
                       "clock", "radio", "mqtt", "menu", "main"}
    /\ \A s \in ToSet(Steps) \ {"main"} : Following(s) \in ToSet(Steps) \ {"display"}
    /\ \A s \in ToSet(Steps) \ {"main", "menu"} : Following(s) # "main"
    /\ Following("clock") = "radio"
    /\ \A s \in ToSet(Steps) \ {"main"} :
          Following(s) \in {"display", "buttons", "wifi", "mode", "join", "ntp"}
          => s \in {"display", "buttons", "wifi", "mode", "join"}
<1>1. /\ DOMAIN Steps = 1..11
      /\ Steps[1] = "display" /\ Steps[2] = "buttons" /\ Steps[3] = "wifi" /\ Steps[4] = "mode"
      /\ Steps[5] = "join" /\ Steps[6] = "ntp" /\ Steps[7] = "clock" /\ Steps[8] = "radio"
      /\ Steps[9] = "mqtt" /\ Steps[10] = "menu" /\ Steps[11] = "main"
  BY DEF Steps
<1>2. \A i, j \in 1..11 : Steps[i] = Steps[j] => i = j
  <2>1. \A i \in 1..11 : i \in {1, 2, 3, 4, 5, 6, 7, 8, 9, 10, 11}
    OBVIOUS
  <2> QED
    BY <1>1, <2>1
<1>3. ASSUME NEW i \in 1..10 PROVE Following(Steps[i]) = Steps[i + 1]
  <2>1. \A j \in DOMAIN Steps : Steps[j] = Steps[i] <=> j = i
    BY <1>1, <1>2
  <2>2. (CHOOSE j \in DOMAIN Steps : Steps[j] = Steps[i]) = i
    BY <1>1, <2>1
  <2> QED
    BY <2>2 DEF Following
<1>4. \A s \in ToSet(Steps) : \E i \in 1..11 : s = Steps[i]
  BY <1>1 DEF ToSet
<1>5. ToSet(Steps) = {"display", "buttons", "wifi", "mode", "join", "ntp",
                      "clock", "radio", "mqtt", "menu", "main"}
  <2>1. \A i \in 1..11 : i \in {1, 2, 3, 4, 5, 6, 7, 8, 9, 10, 11}
    OBVIOUS
  <2>2. \A i \in {1, 2, 3, 4, 5, 6, 7, 8, 9, 10, 11} : i \in DOMAIN Steps
    BY <1>1
  <2> QED
    BY <1>1, <2>1, <2>2 DEF ToSet
<1>6. ASSUME NEW s \in ToSet(Steps) \ {"main"}
      PROVE  Following(s) \in ToSet(Steps) \ {"display"} /\ (s # "menu" => Following(s) # "main")
  <2>1. PICK i \in 1..10 : s = Steps[i]
    <3>1. PICK i \in 1..11 : s = Steps[i]
      BY <1>4
    <3>2. i # 11
      BY <1>1, <3>1
    <3> QED
      BY <3>1, <3>2
  <2>2. Following(s) = Steps[i + 1] /\ i + 1 \in 1..11 /\ i + 1 # 1 /\ (i # 10 => i + 1 # 11)
    BY <1>3, <2>1
  <2>3. Steps[i + 1] # Steps[1] /\ (i # 10 => Steps[i + 1] # Steps[11])
    BY <1>2, <2>2
  <2> QED
    BY <1>1, <2>1, <2>2, <2>3 DEF ToSet
<1>7. Following("clock") = "radio"
  BY <1>1, <1>3
<1>8. ASSUME NEW s \in ToSet(Steps) \ {"main"},
             Following(s) \in {"display", "buttons", "wifi", "mode", "join", "ntp"}
      PROVE  s \in {"display", "buttons", "wifi", "mode", "join"}
  <2>1. s \in {"display", "buttons", "wifi", "mode", "join", "ntp", "clock", "radio", "mqtt", "menu"}
    BY <1>5
  <2>2. /\ Following("ntp") = "clock" /\ Following("clock") = "radio" /\ Following("radio") = "mqtt"
        /\ Following("mqtt") = "menu" /\ Following("menu") = "main"
    BY <1>1, <1>3
  <2> QED
    BY <1>8, <2>1, <2>2
<1> QED
  BY <1>5, <1>6, <1>7, <1>8

\* What the start-up writes are texts.
LEMMA BeginsType == \A s \in ToSet(Steps) \ {"main"} : Begins(s) \in Seq(Chars)
<1> TAKE s \in ToSet(Steps) \ {"main"}
<1>1. s \in CharNames /\ "begins" \in CharKinds
  BY StepFacts DEF CharNames, CharKinds
<1>2. \A n, m \in Nat : TwoLines("begins", s, n, m) \in Seq(Chars)
  BY <1>1, TwoLinesType
<1>3. Text("begins", s, 15) \in Seq(Chars)
  BY <1>1, TextType
<1> QED
  BY <1>2, <1>3, StepFacts DEF Begins

LEMMA OutcomeType == \A fails \in BOOLEAN : Outcome(fails) \in Seq(Chars)
<1>1. "error" \in CharKinds /\ "sucess" \in CharKinds /\ "none" \in CharNames
  BY DEF CharKinds, CharNames
<1> QED
  BY <1>1, TwoLinesType, TextType DEF Outcome

LEMMA ScreenType == \A t \in Seq(Chars) : Screen(t) \in Seq(Items)
BY ItemTypes DEF Screen

-----------------------------------------------------------------------------
\* What a step does to APP_Task and to the display.  The call of a step returns:
CallReturns ==
    \E s \in ToSet(Steps) \ {"main"}, fails \in BOOLEAN :
       /\ Calls(s) /\ Finish(fails) /\ UNCHANGED displayVars
       /\ manager' \in (IF s = "display" THEN {"none", "created"} ELSE {manager})
       /\ scanning' \in {scanning, TRUE} /\ time' \in {time, "ntp"}
\* and something that changes neither, but for the commands that were sent.
GoesOn == /\ UNCHANGED <<step, phase, todo, failed, manager, scanning, time, displayVars>>
          /\ tries' = tries \/ (tries < 3 /\ tries' = tries + 1)

LEMMA AppSteps ==
    ASSUME [Next]_vars, tries \in 0..3
    PROVE  Proceed \/ ClockRead \/ Emit \/ Begun \/ DisplayTask \/ CallReturns \/ GoesOn
<1>1. CASE StartDisplay \/ StartButtons \/ StartPublisher \/ StartMenu \/ NoUart \/ StartClock \/ RequestTime
  <2>1. CASE StartDisplay
    <3>1. PICK ok \in BOOLEAN : manager' = (IF ok THEN "created" ELSE "none") /\ Finish(~ok)
      BY <2>1 DEF StartDisplay
    <3>2. (~ok) \in BOOLEAN /\ Calls("display") /\ UNCHANGED <<displayVars, scanning, time>>
      BY <2>1 DEF StartDisplay
    <3> QED
      BY <3>1, <3>2, StepFacts DEF CallReturns
  <2>2. CASE StartButtons
    BY <2>2, StepFacts DEF StartButtons, CallReturns
  <2>3. CASE StartPublisher
    <3>1. PICK ok \in BOOLEAN : Finish(~ok)
      BY <2>3 DEF StartPublisher
    <3>2. (~ok) \in BOOLEAN /\ Calls("mqtt") /\ UNCHANGED <<displayVars, manager, scanning, time>>
      BY <2>3 DEF StartPublisher
    <3> QED
      BY <3>1, <3>2, StepFacts DEF CallReturns
  <2>4. CASE StartMenu
    BY <2>4, StepFacts DEF StartMenu, CallReturns
  <2>5. CASE NoUart
    BY <2>5, StepFacts DEF NoUart, CallReturns
  <2>6. CASE StartClock
    BY <2>6, StepFacts DEF StartClock, CallReturns
  <2>7. CASE RequestTime
    BY <2>7, StepFacts DEF RequestTime, CallReturns
  <2> QED
    BY <1>1, <2>1, <2>2, <2>3, <2>4, <2>5, <2>6, <2>7
<1>2. CASE WifiReturns
  <2>1. PICK s \in DOMAIN Sent : Calls(s)
    BY <1>2 DEF WifiReturns
  <2>2. s \in ToSet(Steps) \ {"main", "display"}
    BY StepFacts DEF Sent
  <2>3. (reply # "OK") \in BOOLEAN /\ Finish(reply # "OK")
    BY <1>2 DEF WifiReturns
  <2>4. PICK fails \in BOOLEAN : Finish(fails)
    BY <2>3
  <2> QED
    BY <1>2, <2>1, <2>2, <2>4 DEF WifiReturns, CallReturns
<1>3. CASE RadioReturns
  <2>1. Calls("radio") /\ Finish(~Written) /\ (~Written) \in BOOLEAN
    BY <1>3 DEF RadioReturns, Written
  <2>2. PICK fails \in BOOLEAN : Finish(fails)
    BY <2>1
  <2> QED
    BY <1>3, <2>1, <2>2, StepFacts DEF RadioReturns, CallReturns
<1>4. CASE WifiSends
  <2>1. PICK s \in {"wifi", "mode", "join"} : tries < Retries[s]
    BY <1>4 DEF WifiSends, Sent
  <2>2. Retries[s] \in 1..3
    BY DEF Retries
  <2>3. tries' = tries + 1
    BY <1>4 DEF WifiSends
  <2> QED
    BY <1>4, <2>1, <2>2, <2>3 DEF WifiSends, Goes_on, GoesOn
<1>5. CASE RadioWrites
  BY <1>5 DEF RadioWrites, Goes_on, GoesOn
<1>6. CASE ReadClock \/ TakeKey \/ ReadBack \/ BusWaits \/ DriverReads
  BY <1>6 DEF ReadClock, TakeKey, ReadBack, BusWaits, DriverReads, appVars, GoesOn
<1>7. CASE Scans \/ TimerWakes \/ Module \/ ClockTicks \/ BusInterrupt
  BY <1>7 DEF Scans, TimerWakes, Module, ClockTicks, BusInterrupt, appVars, GoesOn
<1>8. CASE UNCHANGED vars
  BY <1>8 DEF vars, appVars, GoesOn
<1> QED
  BY <1>1, <1>2, <1>3, <1>4, <1>5, <1>6, <1>7, <1>8 DEF Next, APP_Task

-----------------------------------------------------------------------------
\* Where the start-up is.
AppInv ==
    /\ step \in ToSet(Steps) /\ phase \in {"begin", "call", "result", "read"}
    /\ phase \in {"call", "result"} => step # "main"
    /\ phase = "read" => step = "radio"
    /\ step = "display" /\ phase # "result" => manager = "none"
    /\ failed \in BOOLEAN /\ manager \in {"none", "created", "runs"} /\ scanning \in BOOLEAN
    /\ tries \in 0..3 /\ time \in {"unwritten", "ntp"}

LEMMA AppInitially == Init => AppInv
<1> SUFFICES ASSUME Init PROVE AppInv
  OBVIOUS
<1>1. /\ step = "display" /\ phase = "begin" /\ failed = FALSE /\ manager = "none"
      /\ scanning = FALSE /\ tries = 0 /\ time = "unwritten"
  BY DEF Init
<1>2. failed \in BOOLEAN /\ scanning \in BOOLEAN
  BY <1>1, Zenon
<1>3. 0 \in 0..3
  OBVIOUS
<1> QED
  BY <1>1, <1>2, <1>3, StepFacts, Zenon DEF AppInv

LEMMA AppKeeps ==
    ASSUME AppInv, [Next]_vars
    PROVE  AppInv'
<1>1. CASE CallReturns
  <2>1. PICK s \in ToSet(Steps) \ {"main"}, fails \in BOOLEAN :
           /\ Calls(s) /\ Finish(fails)
           /\ manager' \in (IF s = "display" THEN {"none", "created"} ELSE {manager})
           /\ scanning' \in {scanning, TRUE} /\ time' \in {time, "ntp"}
    BY <1>1 DEF CallReturns
  <2>2. step = s /\ step' = step /\ phase' = "result" /\ failed' = fails /\ tries' = 0
    BY <2>1 DEF Calls, Finish
  <2>3. failed' \in BOOLEAN /\ scanning' \in BOOLEAN
    BY <2>1, <2>2, Zenon DEF AppInv
  <2>4. manager' \in {"none", "created", "runs"} /\ time' \in {"unwritten", "ntp"} /\ tries' \in 0..3
    BY <2>1, <2>2 DEF AppInv
  <2> QED
    BY <2>1, <2>2, <2>3, <2>4 DEF AppInv
<1>2. CASE GoesOn
  <2>1. tries' \in 0..3
    BY <1>2 DEF GoesOn, AppInv
  <2> QED
    BY <1>2, <2>1, Zenon DEF GoesOn, AppInv
<1>3. CASE Proceed
  <2>1. phase = "result" /\ step' = Following(step) /\ phase' = (IF step = "clock" THEN "read" ELSE "begin")
        /\ failed' = FALSE /\ UNCHANGED <<manager, scanning, tries, time>>
    BY <1>3 DEF Proceed
  <2>2. step' \in ToSet(Steps) \ {"display"} /\ (step = "clock" => step' = "radio")
    BY <2>1, StepFacts DEF AppInv
  <2>3. failed' \in BOOLEAN
    BY <2>1, Zenon
  <2> QED
    BY <2>1, <2>2, <2>3 DEF AppInv
<1>4. CASE ClockRead
  BY <1>4, Zenon DEF ClockRead, AppInv
<1>5. CASE Emit
  BY <1>5, Zenon DEF Emit, AppInv
<1>6. CASE Begun
  BY <1>6, Zenon DEF Begun, AppInv
<1>7. CASE DisplayTask
  <2>1. CASE ManagerStarts
    BY <2>1, Zenon DEF ManagerStarts, AppInv
  <2>2. CASE UNCHANGED appVars
    BY <2>2, Zenon DEF appVars, AppInv
  <2> QED
    BY <1>7, <2>1, <2>2 DEF DisplayTask
<1> QED
  BY <1>1, <1>2, <1>3, <1>4, <1>5, <1>6, <1>7, AppSteps DEF AppInv
-----------------------------------------------------------------------------
\* The result of a step on the LCD.
Tells(l, fails) == Reads(l, Outcome(fails))

\* The items of a result say it, whatever is on the LCD before.
LEMMA ToldTells ==
    ASSUME NEW l \in LCDs, NEW fails \in BOOLEAN
    PROVE  Tells(Drawn(l, Told(fails)), fails)
<1> DEFINE t == Outcome(fails)
<1>1. PICK c \in LCDs : /\ c.cursor = <<0, 0>>
                        /\ Drawn(l, <<CLEAR, WRITE_STR(t)>>) = WriteString(c, t)
                        /\ OnlyTexts(WriteString(c, t), {t})
  BY OutcomeType, DrawnOne
<1>2. Drawn(l, Told(fails)) = WriteString(c, t)
  BY <1>1 DEF Told, Screen
<1>3. \A feed, i : Place(Power, feed, i) = Place(c, feed, i)
  BY <1>1 DEF Place, Power
<1>4. \A i \in DOMAIN t : i # Feed(t) => WriteString(c, t).cells[Place(c, Feed(t), i)] = t[i]
  <2>1. CASE fails = TRUE
    <3>1. t = TwoLines("error", "none", 13, 12)
      BY <2>1 DEF Outcome
    <3>2. "error" \in CharKinds /\ "none" \in CharNames /\ 13 \in 1..16 /\ 12 \in 0..16
      BY DEF CharKinds, CharNames
    <3> HIDE DEF t
    <3>3. LinesAt(c, "error", "none", 13, 12, t)
      BY <1>1, <3>1, <3>2, TwoLinesWritten
    <3>4. Feed(t) = 13 + 1
      BY <3>3 DEF LinesAt
    <3> QED
      BY <3>3, <3>4 DEF LinesAt
  <2>2. CASE fails = FALSE
    <3>1. t = Text("sucess", "none", 6)
      BY <2>2 DEF Outcome
    <3>2. "sucess" \in CharKinds /\ "none" \in CharNames /\ 6 \in Nat /\ 0 \in 0..1 /\ 0 \in 0..15
      BY DEF CharKinds, CharNames
    <3> HIDE DEF t
    <3>3. HasRoom(0, 0, 6)
      BY DEF HasRoom
    <3> DEFINE m == WriteString(c, t)
    <3>4. WrittenAt(c, 0, 0, 6, t, m)
      BY <1>1, <3>1, <3>2, <3>3, TextWritten
    <3>5. DOMAIN t = 1..6 /\ Feed(t) = 7
      <4>1. PICK kind \in CharKinds, name \in CharNames, k \in Nat : t = Text(kind, name, k) /\ k = 6
        BY <3>1, <3>2, Zenon
      <4>2. DOMAIN t = 1..k /\ Feed(t) = k + 1
        <5>1. t = Text(kind, name, k)
          BY <4>1
        <5> QED
          BY ONLY <5>1, TextType
      <4> QED
        BY <4>1, <4>2
    <3>6. ASSUME NEW i \in 1..6
          PROVE  m.cells[Place(c, 7, i)] = t[i]
      <4>1. Place(c, 7, i) = <<0, i - 1>>
        BY <1>1 DEF Place, MAX_COLUMNS
      <4>2. <<(i - 1) \div (MAX_COLUMNS + 1), (i - 1) % (MAX_COLUMNS + 1)>> = <<0, i - 1>>
        <5>1. i - 1 \in 0..31 /\ i - 1 < 16
          OBVIOUS
        <5> QED
          BY <5>1, CellOf
      <4>3. 0 * (MAX_COLUMNS + 1) + 0 + i - 1 = i - 1
        BY DEF MAX_COLUMNS
      <4> HIDE DEF m
      <4> QED
        BY <3>4, <3>5, <4>1, <4>2, <4>3 DEF WrittenAt, Visible
    <3> QED
      BY <3>5, <3>6
  <2> QED
    BY <2>1, <2>2
<1> HIDE DEF t
<1>5. OnlyTexts(WriteString(c, t), {t})
  BY <1>1
<1> QED
  BY <1>2, <1>3, <1>4, <1>5 DEF Tells, Reads, t

ShownInv ==
    /\ DisplayInv /\ todo \in Seq(Items)
    /\ manager # "runs" => lcd = Power /\ hand = << >>
    /\ phase = "result" => Tells(Drawn(CaughtUp, todo), failed)
    /\ phase = "read" => todo = << >>

LEMMA PowerOn ==
    /\ Power \in LCDs /\ SetCursor(Clear(Power), 0, 0) = Power
<1>1. Power \in LCDs
  <2>1. Cleared \in [Cells -> Chars]
    BY BlankType DEF Cleared
  <2>2. <<0, 0>> \in (0..MAX_ROWS) \X Nat
    BY DEF MAX_ROWS
  <2> QED
    BY <2>1, <2>2, Zenon DEF Power, LCDs
<1>2. ASSUME NEW l \in LCDs, NEW m \in LCDs,
             m.cells = l.cells, m.cursor = l.cursor, m.blink = l.blink
      PROVE  m = l
  <2>1. \A p \in LCDs : p = [cells |-> p.cells, cursor |-> p.cursor, blink |-> p.blink]
    BY DEF LCDs
  <2> QED
    BY <1>2, <2>1
<1>3. Power.cells = Cleared /\ Power.cursor = <<0, 0>>
  BY DEF Power
<1>4. Clear(Power) = Power
  <2>1. Clear(Power) = Obey(Power, CLEAR)
    BY DEF Obey, CLEAR
  <2> QED
    BY <1>1, <1>2, <1>3, <2>1, ObeyClear
<1>5. SetCursor(Power, 0, 0) = Power
  <2>1. SetCursor(Power, 0, 0) = Obey(Power, CURSOR_SET(0, 0))
    BY DEF Obey, CURSOR_SET
  <2>2. 0 \in 0..1 /\ 0 \in 0..15
    OBVIOUS
  <2> DEFINE m == Obey(Power, CURSOR_SET(0, 0))
  <2>3. m \in LCDs /\ m.cells = Power.cells /\ m.cursor = <<0, 0>> /\ m.blink = Power.blink
    BY <1>1, <2>2, ObeyCursor
  <2> HIDE DEF m
  <2> QED
    BY <1>1, <1>2, <1>3, <2>1, <2>3 DEF m
<1> QED
  BY <1>1, <1>4, <1>5

LEMMA ShownInitially == Init => ShownInv
<1> SUFFICES ASSUME Init PROVE ShownInv
  OBVIOUS
<1>1. DisplayInit /\ lcd = Power /\ todo = Screen(Begins("display")) /\ phase = "begin" /\ hand = << >>
  BY DEF Init, DisplayInit
<1>2. DisplayInv
  BY <1>1, PowerOn, DisplayStarts
<1>3. todo \in Seq(Items)
  BY <1>1, BeginsType, ScreenType, StepFacts
<1> QED
  BY <1>1, <1>2, <1>3 DEF ShownInv

\* What has been drawn stays so when the display is left alone.
LEMMA DisplayAlone ==
    ASSUME UNCHANGED displayVars
    PROVE  CaughtUp' = CaughtUp /\ lcd' = lcd /\ hand' = hand /\ (DisplayInv => DisplayInv')
BY DEF displayVars, CaughtUp, DisplayInv, Between, NoLeak

LEMMA ShownKeeps ==
    ASSUME AppInv, ShownInv, [Next]_vars
    PROVE  ShownInv'
<1>1. CASE CallReturns
  <2>1. PICK s \in ToSet(Steps) \ {"main"}, fails \in BOOLEAN :
           /\ Calls(s) /\ Finish(fails) /\ UNCHANGED displayVars
           /\ manager' \in (IF s = "display" THEN {"none", "created"} ELSE {manager})
    BY <1>1 DEF CallReturns
  <2>2. /\ step = s /\ phase = "call" /\ phase' = "result" /\ failed' = fails /\ todo' = Told(fails)
        /\ manager' # "runs" => manager # "runs"
    BY <2>1 DEF Calls, Finish, AppInv
  <2>3. DisplayInv' /\ CaughtUp' = CaughtUp /\ lcd' = lcd /\ hand' = hand
    BY <2>1, DisplayAlone DEF ShownInv
  <2>4. CaughtUp' \in LCDs /\ todo' \in Seq(Items)
    BY <2>2, <2>3, DisplayTypes, OutcomeType, ScreenType DEF ShownInv, Told
  <2>5. Tells(Drawn(CaughtUp', todo'), failed')
    BY <2>2, <2>4, ToldTells
  <2> QED
    BY <2>2, <2>3, <2>4, <2>5 DEF ShownInv
<1>2. CASE GoesOn
  <2>1. DisplayInv' /\ CaughtUp' = CaughtUp /\ lcd' = lcd /\ hand' = hand
    BY <1>2, DisplayAlone DEF GoesOn, ShownInv
  <2> QED
    BY <1>2, <2>1 DEF GoesOn, ShownInv
<1>3. CASE Proceed
  <2>1. /\ phase' # "result" /\ UNCHANGED <<manager, displayVars>> /\ phase = "result"
        /\ todo' = CASE step \in {"clock", "menu"} -> << >>
                     [] OTHER -> Screen(Begins(Following(step)))
    BY <1>3 DEF Proceed
  <2>2. DisplayInv' /\ lcd' = lcd /\ hand' = hand
    BY <2>1, DisplayAlone DEF ShownInv
  <2>3. todo' \in Seq(Items)
    <3>1. CASE step \in {"clock", "menu"}
      BY <2>1, <3>1
    <3>2. CASE step \notin {"clock", "menu"}
      <4>1. Following(step) \in ToSet(Steps) \ {"main"}
        BY <2>1, <3>2, StepFacts DEF AppInv
      <4> QED
        BY <2>1, <3>2, <4>1, BeginsType, ScreenType
    <3> QED
      BY <3>1, <3>2
  <2>4. phase' = "read" => todo' = << >>
    BY <1>3 DEF Proceed
  <2> QED
    BY <2>1, <2>2, <2>3, <2>4 DEF ShownInv
<1>4. CASE ClockRead
  <2>1. phase' = "begin" /\ UNCHANGED <<manager, displayVars>> /\ todo' = Screen(Begins("radio"))
    BY <1>4 DEF ClockRead
  <2>2. DisplayInv' /\ lcd' = lcd /\ hand' = hand
    BY <2>1, DisplayAlone DEF ShownInv
  <2>3. todo' \in Seq(Items)
    BY <2>1, BeginsType, ScreenType, StepFacts
  <2> QED
    BY <2>1, <2>2, <2>3 DEF ShownInv
<1>5. CASE Emit
  <2>1. todo # << >> /\ Send(Head(todo)) /\ todo' = Tail(todo) /\ UNCHANGED <<phase, failed, manager, hand, lcd>>
    BY <1>5 DEF Emit, Send
  <2>2. Head(todo) \in Items /\ Tail(todo) \in Seq(Items)
    BY <2>1, HeadTailProperties DEF ShownInv
  <2>3. DisplayInv' /\ CaughtUp' = Obey(CaughtUp, Head(todo))
    BY <2>1, <2>2, SendStep DEF ShownInv
  <2>4. Drawn(CaughtUp', todo') = Drawn(CaughtUp, todo)
    BY <2>1, <2>3, DrawnHead DEF ShownInv
  <2> QED
    BY <2>1, <2>2, <2>3, <2>4 DEF ShownInv
<1>6. CASE Begun
  <2>1. phase' = "call" /\ UNCHANGED <<todo, manager, displayVars>>
    BY <1>6 DEF Begun
  <2>2. DisplayInv' /\ lcd' = lcd /\ hand' = hand
    BY <2>1, DisplayAlone DEF ShownInv
  <2> QED
    BY <2>1, <2>2 DEF ShownInv
<1>7. CASE ManagerStarts
  <2>1. /\ manager # "runs" /\ manager' = "runs" /\ lcd' = SetCursor(Clear(lcd), 0, 0)
        /\ UNCHANGED <<disp_queue, hand, heap, phase, todo, failed>>
    BY <1>7 DEF ManagerStarts
  <2>2. UNCHANGED displayVars
    BY <2>1, PowerOn DEF ShownInv, displayVars
  <2>3. DisplayInv' /\ CaughtUp' = CaughtUp
    BY <2>2, DisplayAlone DEF ShownInv
  <2> QED
    BY <2>1, <2>3 DEF ShownInv
<1>8. CASE manager = "runs" /\ Manager /\ UNCHANGED appVars
  <2>1. DisplayInv' /\ CaughtUp' = CaughtUp
    BY <1>8, ManagerStep DEF ShownInv
  <2>2. manager' = "runs" /\ UNCHANGED <<phase, todo, failed>>
    BY <1>8 DEF appVars
  <2> QED
    BY <2>1, <2>2 DEF ShownInv
<1> QED
  BY <1>1, <1>2, <1>3, <1>4, <1>5, <1>6, <1>7, <1>8, AppSteps DEF AppInv, DisplayTask

-----------------------------------------------------------------------------
\* What TRY_START takes the result of a call for is what the call has done.
OutcomeInv ==
    /\ phase = "result" => (failed = TRUE <=> ~Achieved(step))
    /\ phase = "result" /\ step = "radio" => pc = "idle"
    /\ step \in {"display", "buttons", "wifi", "mode", "join"} \/ (step = "ntp" /\ phase # "result")
       => time = "unwritten"

LEMMA OutcomeInitially == Init => OutcomeInv
BY DEF Init, OutcomeInv

LEMMA OutcomeReturns ==
    ASSUME AppInv, OutcomeInv,
           StartDisplay \/ StartButtons \/ StartPublisher \/ StartMenu \/ NoUart \/ StartClock
           \/ WifiReturns \/ RequestTime \/ RadioReturns
    PROVE  OutcomeInv'
<1>1. CASE StartDisplay
  <2>1. PICK ok \in BOOLEAN : manager' = (IF ok THEN "created" ELSE "none") /\ failed' = ~ok
    BY <1>1 DEF StartDisplay, Finish
  <2>2. step = "display" /\ step' = "display" /\ phase' = "result" /\ phase = "call" /\ time' = time
    BY <1>1 DEF StartDisplay, Finish, Calls
  <2>3. failed' = TRUE <=> manager' = "none"
    <3>1. CASE ok = TRUE
      BY <2>1, <3>1, Zenon
    <3>2. CASE ok = FALSE
      BY <2>1, <3>2, Zenon
    <3> QED
      BY <3>1, <3>2
  <2> QED
    BY <2>2, <2>3 DEF OutcomeInv, Achieved
<1>2. CASE StartButtons
  <2>1. /\ step = "buttons" /\ step' = "buttons" /\ phase' = "result" /\ time' = time
        /\ scanning' = TRUE /\ failed' = FALSE
    BY <1>2 DEF StartButtons, Finish, Calls
  <2> QED
    BY <2>1 DEF OutcomeInv, Achieved
<1>3. CASE StartMenu \/ StartClock
  <2>1. step \in {"menu", "clock"} /\ step' = step /\ failed' = FALSE
    BY <1>3 DEF StartMenu, StartClock, Finish, Calls
  <2> QED
    BY <2>1 DEF OutcomeInv, Achieved
<1>4. CASE StartPublisher \/ NoUart \/ WifiReturns
  <2>1. step \in {"mqtt", "wifi", "mode", "join"} /\ step' = step /\ time' = time /\ phase = "call"
    BY <1>4 DEF StartPublisher, NoUart, WifiReturns, Finish, Calls, Sent
  <2>2. failed' \in BOOLEAN
    BY <1>4, Zenon DEF StartPublisher, NoUart, WifiReturns, Finish
  <2>3. Achieved(step)' <=> ~(failed' = TRUE)
    BY <2>1, <2>2 DEF Achieved
  <2> QED
    BY <2>1, <2>3 DEF OutcomeInv
<1>5. CASE RequestTime
  <2>1. step = "ntp" /\ step' = "ntp" /\ phase = "call" /\ phase' = "result" /\ time = "unwritten"
    BY <1>5 DEF RequestTime, Finish, Calls, OutcomeInv
  <2>2. (time' = "ntp" /\ failed' = FALSE) \/ (time' = time /\ failed' = TRUE)
    BY <1>5 DEF RequestTime, Finish
  <2> QED
    BY <2>1, <2>2 DEF OutcomeInv, Achieved
<1>6. CASE RadioReturns
  <2>1. /\ step = "radio" /\ step' = "radio" /\ pc = "idle" /\ UNCHANGED <<pc, result>>
        /\ failed' = ~Written
    BY <1>6 DEF RadioReturns, Finish, Calls, busVars, task
  <2>2. Written' <=> Written
    BY <2>1 DEF Written
  <2>3. failed' = TRUE <=> ~Written
    BY <2>1, Zenon
  <2>4. Achieved(step)' <=> Written'
    BY <2>1 DEF Achieved
  <2> QED
    BY <2>1, <2>2, <2>3, <2>4 DEF OutcomeInv
<1> QED
  BY <1>1, <1>2, <1>3, <1>4, <1>5, <1>6

LEMMA OutcomeKeeps ==
    ASSUME AppInv, OutcomeInv, [Next]_vars
    PROVE  OutcomeInv'
<1>1. CASE Proceed
  <2>1. /\ phase = "result" /\ step' = Following(step) /\ phase' \in {"read", "begin"}
        /\ UNCHANGED time
    BY <1>1 DEF Proceed
  <2>2. step \in ToSet(Steps) \ {"main"}
    BY <2>1 DEF AppInv
  <2>3. step' \in {"display", "buttons", "wifi", "mode", "join", "ntp"} => time' = "unwritten"
    BY <2>1, <2>2, StepFacts DEF OutcomeInv
  <2> QED
    BY <2>1, <2>3 DEF OutcomeInv
<1>2. CASE ClockRead
  BY <1>2 DEF ClockRead, OutcomeInv
<1>3. CASE Begun
  BY <1>3 DEF Begun, OutcomeInv
<1>4. CASE ManagerStarts
  <2>1. /\ manager # "none" /\ manager' # "none"
        /\ UNCHANGED <<step, phase, failed, scanning, time, pc, result>>
    BY <1>4 DEF ManagerStarts, busVars, task
  <2>2. Achieved(step)' <=> Achieved(step)
    BY <2>1 DEF Achieved, Written
  <2> QED
    BY <2>1, <2>2 DEF OutcomeInv
<1>5. ASSUME UNCHANGED <<step, phase, failed, manager, scanning, time>>,
             phase = "result" /\ step = "radio" => UNCHANGED <<pc, result>>
      PROVE  OutcomeInv'
  <2>1. phase = "result" => (Achieved(step)' <=> Achieved(step))
    BY <1>5 DEF Achieved, Written
  <2> QED
    BY <1>5, <2>1 DEF OutcomeInv
<1>6. CASE WifiSends \/ ReadClock \/ Emit \/ DriverReads \/ Scans \/ TimerWakes \/ Module \/ ClockTicks
  <2>1. UNCHANGED <<step, phase, failed, manager, scanning, time, pc, result>>
    BY <1>6 DEF WifiSends, ReadClock, Emit, DriverReads, Scans, TimerWakes, Module, ClockTicks,
                Goes_on, appVars, busVars, task
  <2> QED
    BY <2>1, <1>5
<1>7. CASE RadioWrites
  BY <1>5, <1>7 DEF RadioWrites, Calls, Goes_on
<1>8. CASE TakeKey \/ ReadBack
  BY <1>5, <1>8 DEF TakeKey, ReadBack, Selected, appVars
<1>9. CASE BusWaits
  <2>1. pc # "idle" /\ UNCHANGED appVars
    BY <1>9 DEF BusWaits, Waits, Start, Block, Return
  <2>2. ~(phase = "result" /\ step = "radio")
    BY <2>1 DEF OutcomeInv
  <2> QED
    BY <1>5, <2>1, <2>2 DEF appVars
<1>10. CASE BusInterrupt
  BY <1>5, <1>10 DEF BusInterrupt, Interrupt, task, appVars
<1>11. CASE manager = "runs" /\ Manager /\ UNCHANGED <<keypadVars, atVars, rtcVars, busVars, appVars>>
  BY <1>5, <1>11 DEF appVars, busVars, task
<1>12. CASE UNCHANGED vars
  BY <1>5, <1>12 DEF vars, appVars, busVars, task
<1> QED
  BY <1>1, <1>2, <1>3, <1>4, <1>6, <1>7, <1>8, <1>9, <1>10, <1>11, <1>12, OutcomeReturns
     DEF Next, APP_Task, DisplayTask

LEMMA ShownInvariance == Spec => []AppInv /\ []ShownInv /\ []OutcomeInv
<1>1. AppInv /\ [Next]_vars => AppInv'
  BY AppKeeps
<1>2. AppInv /\ ShownInv /\ [Next]_vars => ShownInv'
  BY ShownKeeps
<1>3. AppInv /\ OutcomeInv /\ [Next]_vars => OutcomeInv'
  BY OutcomeKeeps
<1> QED
  BY <1>1, <1>2, <1>3, AppInitially, ShownInitially, OutcomeInitially, PTL DEF Spec

\* When a step has ended, the LCD comes to show whether its call has done what it
\* is for, and nothing else: whatever was waiting for it, however far the display
\* task is behind, and also when it was started late; whatever convention the
\* result of the call follows (the TRY_START of task_app.c, and display.c).
THEOREM ResultsShown == Spec => []ResultIsShown
<1>1. ShownInv /\ OutcomeInv /\ AppInv => ResultIsShown
  <2> SUFFICES ASSUME ShownInv, OutcomeInv, AppInv, phase = "result", todo = << >>
               PROVE  Reads(CaughtUp, Outcome(~Achieved(step)))
    BY DEF ResultIsShown
  <2>1. Drawn(CaughtUp, todo) = CaughtUp
    BY DrawnEmpty
  <2>2. Reads(CaughtUp, Outcome(failed))
    BY <2>1 DEF ShownInv, Tells
  <2>3. Outcome(failed) = Outcome(~Achieved(step))
    <3>1. failed \in BOOLEAN /\ (failed = TRUE <=> ~Achieved(step))
      BY DEF AppInv, OutcomeInv
    <3>2. CASE failed = TRUE
      <4>1. ~Achieved(step)
        BY <3>1, <3>2
      <4> QED
        BY <3>2, <4>1 DEF Outcome
    <3>3. CASE failed = FALSE
      <4>1. Achieved(step)
        BY <3>1, <3>3
      <4> QED
        BY <3>3, <4>1 DEF Outcome
    <3> QED
      BY <3>1, <3>2, <3>3
  <2> QED
    BY <2>2, <2>3
<1> QED
  BY <1>1, ShownInvariance, PTL
-----------------------------------------------------------------------------
\* What APP_Task has begun to write, wherever it is by now.
Unwritten == hand \o disp_queue \o todo

LEMMA UnwrittenType == ShownInv => Unwritten \in Seq(Items)
<1> SUFFICES ASSUME ShownInv PROVE Unwritten \in Seq(Items)
  OBVIOUS
<1>1. hand \in Seq(Items) /\ disp_queue \in Seq(Items) /\ todo \in Seq(Items)
  BY DEF ShownInv, DisplayInv
<1> QED
  BY <1>1, ConcatProperties DEF Unwritten

\* The abstract specification has the operators of Lcd.
LEMMA SameLcd ==
    /\ Direct!Items = Items /\ Direct!LCDs = LCDs
    /\ \A l, item : Direct!Obey(l, item) = Obey(l, item)
<1>1. Direct!Items = Items
  BY DEF Direct!Items, Items, Direct!Chars, Chars, Direct!CharKinds, CharKinds, Direct!CharNames, CharNames
<1>2. Direct!Chars = Chars
  BY DEF Direct!Chars, Chars, Direct!CharKinds, CharKinds, Direct!CharNames, CharNames
<1>3. Direct!Cells = Cells /\ Direct!MAX_ROWS = MAX_ROWS /\ Direct!MAX_COLUMNS = MAX_COLUMNS
  BY DEF Direct!Cells, Cells, Direct!MAX_ROWS, MAX_ROWS, Direct!MAX_COLUMNS, MAX_COLUMNS
<1>4. Direct!LCDs = LCDs
  BY <1>2, <1>3 DEF Direct!LCDs, LCDs
<1>5. \A t : Direct!Feed(t) = Feed(t)
  BY Zenon DEF Direct!Feed, Feed
<1>6. \A l, feed, i : Direct!Place(l, feed, i) = Place(l, feed, i)
  BY <1>3 DEF Direct!Place, Place
<1>7. ASSUME NEW l, NEW t PROVE Direct!WriteString(l, t) = WriteString(l, t)
  <2> DEFINE places(feed) == [i \in DOMAIN t \ {feed} |-> Place(l, feed, i)]
             direct(feed) == [i \in DOMAIN t \ {feed} |-> Direct!Place(l, feed, i)]
             Filled(p, end, cells) ==
                [l EXCEPT !.cells = [c \in cells |->
                             IF {t[i] : i \in {k \in DOMAIN p : p[k] = c}} = {} THEN @[c]
                             ELSE CHOOSE x \in {t[i] : i \in {k \in DOMAIN p : p[k] = c}} : TRUE],
                          !.cursor = <<end[1], end[2] + 1>>]
  <2>1. WriteString(l, t) = Filled(places(Feed(t)), Place(l, Feed(t), Len(t)), Cells)
    BY Zenon DEF WriteString
  <2>2. Direct!WriteString(l, t)
          = Filled(direct(Direct!Feed(t)), Direct!Place(l, Direct!Feed(t), Len(t)), Direct!Cells)
    BY Zenon DEF Direct!WriteString
  <2>3. \A feed : direct(feed) = places(feed)
    BY <1>6
  <2> HIDE DEF Filled, places, direct
  <2> QED
    BY <1>3, <1>5, <1>6, <2>1, <2>2, <2>3
<1>8. \A l, r, k : Direct!SetCursor(l, r, k) = SetCursor(l, r, k)
  BY <1>3 DEF Direct!SetCursor, SetCursor
<1>9. \A l : Direct!Clear(l) = Clear(l)
  BY <1>3 DEF Direct!Clear, Clear, Direct!Cleared, Cleared, Direct!Blank, Blank
<1>10. ASSUME NEW l, NEW item PROVE Direct!Obey(l, item) = Obey(l, item)
  BY <1>7, <1>8, <1>9 DEF Direct!Obey, Obey
<1> QED
  BY <1>1, <1>4, <1>10

LEMMA LongerPrefix ==
    ASSUME NEW s \in Seq(Items), NEW u \in Seq(Items)
    PROVE  Direct!IsPrefix(s, s \o u)
<1>1. Len(s \o u) = Len(s) + Len(u) /\ Len(s) \in Nat /\ Len(u) \in Nat /\ s \o u \in Seq(Items)
  BY ConcatProperties, LenProperties
<1>2. SubSeq(s, 1, Len(s)) = SubSeq(s \o u, 1, Len(s))
  OBVIOUS
<1> QED
  BY <1>1, <1>2 DEF Direct!IsPrefix

\* A call that returns, or the next step: more is to be written, and the LCD is as it was.
LEMMA PlanStep ==
    ASSUME ShownInv, ShownInv', UNCHANGED displayVars, todo = << >>
    PROVE  Direct!Plan
<1>1. UNCHANGED <<disp_queue, hand, lcd>>
  BY DEF displayVars
<1>2. Between \in Seq(Items) /\ todo' \in Seq(Items)
  BY DisplayTypes DEF ShownInv
<1>3. Unwritten = Between /\ Unwritten' = Between \o todo'
  <2>1. \A s \in Seq(Items) : s \o << >> = s
    OBVIOUS
  <2> QED
    BY <1>1, <1>2, <2>1 DEF Unwritten, Between
<1>4. Direct!IsPrefix(Unwritten, Unwritten')
  BY <1>2, <1>3, LongerPrefix
<1> QED
  BY <1>1, <1>4 DEF Direct!Plan, Unwritten

\* Sending and receiving hand an item on.
LEMMA HandedOn ==
    ASSUME ShownInv, Emit \/ (Receive /\ UNCHANGED todo)
    PROVE  Unwritten' = Unwritten /\ lcd' = lcd
<1>1. CASE Emit
  <2>1. /\ todo # << >> /\ disp_queue' = Append(disp_queue, Head(todo)) /\ todo' = Tail(todo)
        /\ hand' = hand /\ lcd' = lcd
    BY <1>1 DEF Emit, Send
  <2>2. \A h, d, t \in Seq(Items) : t # << >> => (h \o Append(d, Head(t))) \o Tail(t) = (h \o d) \o t
    <3> SUFFICES ASSUME NEW h \in Seq(Items), NEW d \in Seq(Items), NEW t \in Seq(Items), t # << >>
                 PROVE  (h \o Append(d, Head(t))) \o Tail(t) = (h \o d) \o t
      OBVIOUS
    <3>1. Head(t) \in Items /\ Tail(t) \in Seq(Items) /\ t = <<Head(t)>> \o Tail(t)
      OBVIOUS
    <3> DEFINE x == Head(t)
               u == Tail(t)
    <3>2. x \in Items /\ u \in Seq(Items) /\ t = <<x>> \o u
      BY <3>1
    <3> HIDE DEF x, u
    <3>3. <<x>> \in Seq(Items) /\ Append(d, x) = d \o <<x>>
      BY <3>2
    <3>4. h \o (d \o <<x>>) = (h \o d) \o <<x>> /\ h \o d \in Seq(Items)
      BY <3>3, ConcatAssociative, ConcatProperties
    <3>5. ((h \o d) \o <<x>>) \o u = (h \o d) \o (<<x>> \o u)
      BY <3>2, <3>3, <3>4, ConcatAssociative
    <3> QED
      BY <3>2, <3>3, <3>4, <3>5 DEF x, u
  <2> QED
    BY <2>1, <2>2 DEF Unwritten, ShownInv, DisplayInv
<1>2. CASE Receive /\ UNCHANGED todo
  <2>1. /\ hand = << >> /\ disp_queue # << >> /\ hand' = <<Head(disp_queue)>>
        /\ disp_queue' = Tail(disp_queue) /\ lcd' = lcd /\ todo' = todo
    BY <1>2 DEF Receive
  <2>2. \A d \in Seq(Items) : d # << >> => <<Head(d)>> \o Tail(d) = << >> \o d
    OBVIOUS
  <2> QED
    BY <2>1, <2>2 DEF Unwritten, ShownInv, DisplayInv
<1> QED
  BY <1>1, <1>2

\* Carrying an item out is a write.
LEMMA WriteStep ==
    ASSUME ShownInv, Carry, UNCHANGED todo
    PROVE  Direct!Write
<1>1. hand # << >> /\ lcd' = Obey(lcd, Head(hand)) /\ hand' = << >> /\ UNCHANGED <<disp_queue, todo>>
  BY DEF Carry
<1>2. PICK x \in Items : hand = <<x>>
  <2>1. Len(hand) \in Nat /\ Len(hand) <= 1 /\ hand \in Seq(Items)
    BY LenProperties DEF ShownInv, DisplayInv
  <2>2. Len(hand) # 0
    BY <1>1, <2>1, EmptySeq
  <2>3. \A n \in Nat : n <= 1 /\ n # 0 => n = 1
    OBVIOUS
  <2>4. Len(hand) = 1
    BY <2>1, <2>2, <2>3, Zenon
  <2>5. hand[1] \in Items /\ hand = <<hand[1]>>
    BY ONLY <2>1, <2>4
  <2> QED
    BY <2>5
<1>3. \A d, t \in Seq(Items) : LET u == (<<x>> \o d) \o t
         IN u # << >> /\ Head(u) = x /\ Tail(u) = (<< >> \o d) \o t
  OBVIOUS
<1>4. Unwritten # << >> /\ Head(Unwritten) = x /\ Unwritten' = Tail(Unwritten)
  BY <1>1, <1>2, <1>3 DEF Unwritten, ShownInv, DisplayInv
<1>5. lcd' = Direct!Obey(lcd, Head(Unwritten))
  BY <1>1, <1>2, <1>4, SameLcd
<1> QED
  BY <1>4, <1>5 DEF Direct!Write, Unwritten

\* APP_Task writes to the LCD as if it had it to itself: nothing is lost, doubled
\* or overtaken, not even what it sent before the display task existed, which
\* clears the LCD when it begins (DISPLAY_TaskStart and DISPLAY_Manager,
\* display.c:53-160).
THEOREM InOrder == Spec => WritesInOrder
<1>1. ShownInv => Direct!DirectInit
  BY UnwrittenType, SameLcd DEF Direct!DirectInit, Unwritten, ShownInv, DisplayInv
<1>2. AppInv /\ ShownInv /\ ShownInv' /\ [Next]_vars => [Direct!DirectNext]_<<lcd, Unwritten>>
  <2> SUFFICES ASSUME AppInv, ShownInv, ShownInv', [Next]_vars
               PROVE  Direct!Write \/ Direct!Plan \/ UNCHANGED <<lcd, Unwritten>>
    BY DEF Direct!DirectNext
  <2>1. CASE CallReturns \/ Proceed \/ ClockRead
    <3>1. UNCHANGED displayVars /\ todo = << >>
      BY <2>1 DEF CallReturns, Calls, Proceed, ClockRead, ShownInv
    <3> QED
      BY <3>1, PlanStep
  <2>2. CASE GoesOn \/ Begun
    BY <2>2 DEF GoesOn, Begun, displayVars, Unwritten
  <2>3. CASE Emit
    BY <2>3, HandedOn
  <2>4. CASE ManagerStarts
    <3>1. lcd' = lcd /\ UNCHANGED <<disp_queue, hand, todo>>
      BY <2>4, PowerOn DEF ManagerStarts, ShownInv
    <3> QED
      BY <3>1 DEF Unwritten
  <2>5. CASE Manager /\ UNCHANGED appVars
    <3>1. UNCHANGED todo
      BY <2>5 DEF appVars
    <3> QED
      BY <2>5, <3>1, HandedOn, WriteStep DEF Manager
  <2> QED
    BY <2>1, <2>2, <2>3, <2>4, <2>5, AppSteps DEF AppInv, DisplayTask
<1> QED
  BY <1>1, <1>2, ShownInitially, ShownInvariance, PTL DEF Spec, WritesInOrder, Direct!DirectSpec, Unwritten
-----------------------------------------------------------------------------
\* Each variable of the start-up, and of the components that it composes, holds a
\* value of its kind, and no queue is longer than it is.
THEOREM TypeCorrect == ASSUME Paced PROVE Spec => []TypeOK
<1>1. AtInv /\ AtKinds /\ [Next]_vars => AtKinds'
  BY StepIsComponents, AtKindsSteps
<1>2. RtcInv /\ [Next]_vars => RtcInv'
  BY RtcSteps
<1>3. Init => RtcInv
  BY RtcInitially
<1>4. AppInv /\ ShownInv /\ KeypadInv /\ AtInv /\ AtKinds /\ RtcInv /\ TransferInv /\ KindsInv => TypeOK
  <2> SUFFICES ASSUME AppInv, ShownInv, KeypadInv, AtInv, AtKinds, RtcInv, TransferInv, KindsInv
               PROVE  TypeOK
    OBVIOUS
  <2>1. DisplayTypeOK /\ todo \in Seq(Items)
    BY DisplayTypes DEF ShownInv
  <2>2. KeypadTypeOK /\ AtTypeOK /\ RtcTypeOK /\ BusTypeOK
    BY AtIsTyped, RtcIsTyped, BusIsTyped DEF KeypadInv
  <2> QED
    BY <2>1, <2>2, Zenon DEF AppInv, TypeOK
<1> QED
  BY <1>1, <1>2, <1>3, <1>4, ShownInvariance, KeypadInvariance, AtInvariance,
     AtKindsInitially, TransferInvariance, PTL DEF Spec
=============================================================================
