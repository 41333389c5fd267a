# TLA+ models of the FM radio with telemetry

The program is the firmware of an FM radio: an LPC1769 that runs FreeRTOS, with an RDA5807 radio chip on I2C, an LCD, seven buttons, the on-chip RTC and flash, and an ESP8266 Wi-Fi module on a UART, driven by AT commands. This directory holds TLA+ models of it, TLC configurations that check them, and proofs for TLAPS. Paths below are relative to `src/`.

## 1. Inventory

### Tasks and how they interact

| Task | Code | Talks to |
|---|---|---|
| menu task (`APP_Task`) | `FreeRTOS-Env/src/task_app.c`, `menu_rtos.c`, `DRIVERS/src/Menu.c`, `DRIVERS/src/Fields/*` | buttons (queue), display (queue), radio, RTC and Wi-Fi (mutex wrappers); owns `radio_data` |
| publisher task | `FreeRTOS-Env/src/publisher.c`, `transport.c` | Wi-Fi (mutex wrapper); reads `radio_data` without a lock |
| display task | `FreeRTOS-Env/src/display.c`, `DRIVERS/src/LCD.c` | takes items from the display queue |
| timer service task | `FreeRTOS-Env/src/button.c`, `DRIVERS/src/Nav7Btn.c` | scans the buttons every 100 ms, fills the button queue |
| I2C interrupt | `DRIVERS/src/I2C.c` | shares `conn` and `blocking` with the task that waits |

The application's tasks have the priority `tskIDLE_PRIORITY + 1`, the timer service task a higher one. Each wrapper (`wifi_rtos.c`, `radio_rtos.c`, `clock.c`) has one mutex, held for the length of one call. `DELAY_Microseconds` is shared by the display task, the timer task and the menu task without one.

### Components

| Component | State | Operations | What is hard | What makes it correct |
|---|---|---|---|---|
| Publisher task | protocol state, one packet buffer, `transporter` | connect, subscribe, receive, publish | the connection is lost at any moment; a send is reported as failed although it was delivered; answers of an earlier connection; messages in pieces | agreement with the broker, order of messages, recovery |
| Receive buffer | `_recv_buf`, `_recv_buf_p`, `_recv_buf_len` | `get_recv_buffer` | wrap-around, short reads | a lossless byte queue |
| ESP8266 driver | the module's one connection, the UART ring, the `+IPD` parser, the response buffer | AT commands, send, receive | one connection for two tasks; every command flushes the ring; late answers; headers, noise and payload look alike | a receive yields the payload, a command takes its own answer, a task uses its own connection |
| Time synchronisation | the NTP request | `TIME_SYNC_RequestUnixTime` | interleaves with the publisher call by call | the clock is set from an NTP answer; it ends |
| Radio settings and flash | `radio_data`, the chip's registers, sector 29 | step, shift, save, delete, load | power fails inside a save; a register write fails | what was saved is loaded; chip and RAM agree |
| I2C master | `conn`, `blocking` | transmit, receive, interrupt | interrupt against task; boundary of the last byte | success means acknowledged, or received, to the last byte; a call returns |
| Microsecond delay | Timer 2 | `DELAY_Microseconds` | several tasks program one timer | a delay ends; it is not short |
| Date editor and RTC | `DateField`, four `IntField`s, the RTC | keys, save, cancel, read | lengths of months, leap years, cursor between fields, midnight while it is open or read | what is shown exists and is what is saved; a reading is of one moment |
| Display queue and LCD | queue of heap copies, the LCD's cells and cursor | send, display | full queue, heap blocks that change hands, a screen in several items | the LCD comes to show the last screen and nothing else; nothing leaks |
| Buttons | `last`, `was_pressed`, queue of eight | scan, pressed | bounce, held buttons, a full queue blocks the timer task | a press counts once; the scan goes on |
| Spinner, text fields, main screen | selection, confirmation | keys | a key before the screen is drawn; a text longer than its buffer | what is deleted is what is asked |
| Start-up | the step, the time that was received | ten calls in a row | a call that fails, a full queue | what is shown of a step is what it has done; nothing sent is lost; it comes to the main screen |
| UART, LED, clock power, vendor code | registers | – | hardware | not modelled |

The hazards that this leads to, each at its line and with the properties that are about it, are in `PROJECT.json`.

## 2. Modules

| Module | Models | Parameters |
|---|---|---|
| `Publisher` | `Publisher_Task`, `transport.c`, the flush of `WIFI_SendATCommand`; environment: broker, ESP8266, network | `MaxSessions`, `MaxMsgs` (bounds), `Fragmented` |
| `RecvBuffer` | `get_recv_buffer` and its two helpers | `Byte`, `Size`, `Zero` |
| `ByteFifo` | abstract: what `NETWORK_Recv` promises its caller | `Byte`, `Capacity` |
| `WifiShare` | composition of publisher and menu task on the driver, at the grain of one wrapped call | `MaxSyncs` (bound) |
| `IpdParser` | `wifi_receive_ipd`, `wifi_match_seq` byte by byte | `BufferLen`, `MaxFrame` |
| `RadioStore` | `Radio.c`, `Flash.c`, the keys of the main screen and the deletions | `MaxVol`, `MaxChan`, `DefaultVol`, `DefaultChan` |
| `DelayTimer` | `DELAY_Microseconds` and Timer 2 | `Tasks`, `Waits`, `TickLen` |
| `DateEditor`, `DateEditorMC` | `Menu_SM` on the date field of `Calendar_Menu`, `DateField.c`, `IntField.c`, `RTC_SetTimeDate`; dates for TLC | `FirstYear`, `LastYear`, `Starts` |
| `Lcd` | values and operators: the LCD of `LCD.c`, and the items that tell it what to do | – |
| `Display` | component: the queue and the task of `display.c` | `QueueLength` |
| `DirectLcd` | abstract: what `display.h` promises a task that writes, the LCD as if it had it to itself | – |
| `Panel` | composition of `Display` with `Menu_SM` at its five uses: main screen, spinner, confirmation, editors, calls | `Leftovers` |
| `Keypad` | component: `NAVBTN_Read`, `NAVBTN_Pressed`, the timer callback and the queue of `button.c` | `KeyQueueLength`, `Presses` |
| `AtEngine` | component: `WIFI_SendATCommand` and the module it talks to, word by word | `BufLen`, `MaxUart` (bound) |
| `RtcReading` | component: `RTC_GetTimeDate`, register by register | `DayLen` |
| `I2CMaster` | component: `I2CMASTER_Transmit`, `I2CMASTER_Receive`, `I2C0_IRQHandler` | `MaxSize`, `Paced` |
| `Startup` | composition of `Display`, `Keypad`, `AtEngine`, `RtcReading` and `I2CMaster` by `main` and `APP_Task` | – |
| `*Proofs` | theorems: `ReceiveProofs` of `RecvBuffer` and `IpdParser`, `SettingsProofs` of `RadioStore` and `DateEditor`, `DisplayProofs` the lemmas about the display that `PanelProofs` and `StartupProofs` share, the others of the module they are named after | |

### How state and actions correspond to the code

**Publisher.** `state` is the task's variable of that name (`STATE_INIT` is `"INIT"`, and so on). A send is two actions, `Send` (serialise into `buffer`, data on the wire) and `Sent` (the result), because the broker may answer, or the link go, in between. A read is one step of `MQTTPacket_readnb` per unit: a unit is a whole packet, or its head or tail. `buf` is what lies in `buffer`, `trp` is `transporter.state`, `recvbuf` and `uart` are `_recv_buf` and the UART ring. The Paho library is not part of `src/`; `Outcomes` gives its results as this code uses it, with every result possible where payload bytes are parsed as a header. `link`, `brk`, `sess` and `sent` are the environment's; `shown` is what was printed last.

**RecvBuffer / ByteFifo.** One action per branch of `get_recv_buffer`; the loops of the helpers are functions on `0..Size-1`. The refinement maps the abstract queue to the `len` bytes from `p` on.

**WifiShare.** One action per wrapped call, since `LOCK`/`UNLOCK` make it one. `nap` says that the publisher is in `vTaskDelay`. Packets are reduced to kinds; what the publisher makes of a packet that it can use is left open. The NTP function's early returns, with a `Close` on each path that has one, are the `Ntp*` actions.

**IpdParser.** One action per state of the parser. A byte has a character, which the parser looks at, and a place, which only the properties look at. The sender may put any character into a payload and noise between frames. `Accepted` is the test that decides on a frame's length, in UDP mode also against the buffer; `plain` says that no datagram that fails it had a `+` in it.

**RadioStore.** `Boot` is `Init_Radio` with `Get_RData`; `StepVolume`, `ShiftChannel`, `SaveMenu` are the main screen's keys; `Erase`, `Copy`, `Compare` are the IAP commands of `Save_RData`, between and inside which `PowerLoss` may come: an erasure that is cut short leaves any values, and an identifier only if there was one. `behind` is the set of settings that the chip has not been told. Interrupts are off inside one, and the menu task is the only caller.

**DelayTimer.** One action per register access of `DELAY_Microseconds`, interleaved with the other tasks and with units of time.

**DateEditor.** One action per key (`Step`, `Shift`, `Save`, `Cancel`), `Open` for `date_init`; `date` is `d->_date`, `display` the `_display_val` of the integer fields. `NextDay` is the RTC at midnight.

**Display.** `Send` is `DISPLAY_Send` (one or two allocations and `xQueueSend`), `Receive` and `Carry` are `DISPLAY_Manager`'s `xQueueReceive` and its switch with the two `vPortFree`. A text is known by its kind and name, a character by its place in it; `WriteString` is `LCDText_WriteString`, with its line feed, the wrap into the second row, and what runs off the screen. `CaughtUp` is the LCD as it will be when what was sent has been carried out.

**DirectLcd.** `Write` carries out the next item at once, `Plan` adds items to the end of what is to be written. `Panel` implements it with `todo` as the items in the display task's hand, in the queue and not yet sent, in this order.

**Panel.** A `Turn` is one round of `Menu_SM`'s loop: at most one key, what the screen does with it, and the items it will send, which `Emit` then sends one at a time. A nested `Menu_SM` and its caller return together, so `ToMain` leads back to the main screen. What a key does to volume, channel, flash or date is a name in `effect`; the modules above say what it does. Of the station only `wide` is kept, whether it is at 100.0 MHz or above: the main screen's text then is one character too long for `strftime`, which leaves the buffer unspecified (DateField.c:281, 301). What is sent then is a text of its own kind, with a length from `Leftovers`.

**Keypad.** `Scan` is one run of the timer callback: `NAVBTN_Read`, the debouncing of `NAVBTN_Pressed`, and `xQueueSend`, which waits in `waiting` while the queue is full (`ScanGoesOn`). `Take` is `BUTTON_Pressed`.

**AtEngine.** `Command` is `WIFI_SendATCommand` up to its flush and write, `ReadChar` one round of its loop, `TimesOut` the end of its time. A word from the module carries the command it answers, which the driver does not look at.

**RtcReading.** `ReadRegister` reads one register into `reads`; `Enough` is the comparison that decides on a third `get_time`.

**I2CMaster.** The task's statements `STA`, `blocking = true`, the loop and the return; one operator per status code of the handler. `done` is what the device has acknowledged of a transmission, or the bytes that a receive has stored, and not the code's. `next` holds the status codes that the controller may raise next.

**Startup.** `step` and `phase` say where `APP_Task` is in its row of `TRY_START`s, `todo` what it has still to send to the display. Each `Start*` is the call of one step; `WifiSends`/`WifiReturns` are `WIFI_Init`, `WIFI_SetModeStation` and `WIFI_ConnectAP` with their number of attempts, `RadioWrites`/`RadioReturns` the three registers of `Init_Radio`, `ReadClock`/`ClockTicks`/`ClockRead` the reading of the time. On the main screen keys are taken and registers written (`TakeKey`). `StartupAssumption` says that the longest transfer, three bytes of `Radio_setReg`, is within the bound on sizes.

The specifications of `RecvBuffer` and `RadioStore` are called `BufferSpec` and `RadioSpec`, so that one module of theorems can hold two components.

## 3. Runs

| Run | Question | Bounds and why they are enough |
|---|---|---|
| `publisher` | does the task agree with the broker on this connection, start each connection with nothing buffered, show messages in order, and notice a loss once it is subscribed (liveness)? | 3 connections, 3 messages each, whole packets: an answer of one connection can meet the next two, and a message can be lost, doubled or swapped with two others; the proof covers the other numbers |
| `publisher_recovers` | README.md:345: is recovery automatic in every state? **violated** | 1 connection is enough |
| `publisher_reassembly` | README.md:264: are fragments reassembled? **violated** | 1 message is enough |
| `recv_buffer` | is the circular buffer a lossless queue? | 4 bytes of 2 values: every position, length and request size. The code depends on the size only through `% RECV_BUF_SIZE`; the proof covers the others |
| `wifi_share` | is the clock set from NTP only, and does a synchronisation end (liveness)? | 2 uses of the menu: one can leave a connection behind for the next |
| `wifi_share_own` | wifi_rtos.c:6: do tasks share the driver without racing? **violated** | 1 use |
| `ipd_parser` | does a receive return exactly the payload, and discard a datagram that is too long? | buffer of 6, frames of 1 to 9 bytes: shorter than, equal to and longer than the buffer, and payloads long enough to hold the whole of a false header `+IPD,1:` |
| `radio_store` | what survives a power failure? | volumes and channels 0..2: the code compares them only with their limits, and the proof covers the real ranges |
| `delay_timer` | does a delay end (liveness), and is it long enough? | 2 tasks, delays of 2 and 3 units of a 3-unit millisecond: the tick falls before, in and after a delay; the proof covers any number of tasks |
| `panel` | does the LCD come to show the menu's screen, are deletions of what is asked, do queue and display task implement `DirectLcd`, and does the menu go on (liveness)? | a queue of 3 items, shorter than any screen's, so that the menu meets a full queue on every screen; the real one (10) only lets it run further ahead, and the proofs are for any. An unspecified text has no character or 33, one more than the LCD. Any key, or none, at any turn |
| `startup` | does the LCD tell whether each step has done what it is for, does every item reach the LCD although its task starts late (`DirectLcd`), and does the application come to its main screen (liveness), whatever fails? | see below |
| `date_editor` | does the editor show and save dates that exist? | years 2094 to 2104 (a year that 4 divides and that is not a leap year, leap years, the step of 10 years), opened on 31 January 2096 or 28 February 2099, or on the day after either (a midnight while it is open); within these years the keys reach every date |

Bounds of `startup`: a display queue of 2 (real: 10), so that every step meets a full queue; a button queue of 1 (8), so that the second key holds up the timer task; either no button or two at once, so that the order of the scan decides; a response buffer of 2 words and a ring of 2, so that talk of the module fills it; a day of 2 seconds, in which half of the ticks are a midnight, and one tick at most in a reading, which takes microseconds; transfers of 1 to 3 bytes. The module talks only until the response buffer is full, after which more talk changes nothing. Between two readings the model's clock stands, and the AT state is forgotten after the start-up: what is said later is in `WifiShare` and `Publisher`. `Paced` lets a call on the bus wait for the last one's transfer to end: the code relies on the pace of its calls for it.

Deadlock is checked in every run but `startup`, which really may stop: when the display task could not be created, `APP_Task` fills the display queue and waits for ever.

### The properties

* `AgreesWithBroker`: while the connection is up, the task subscribes only after *this* connection's CONNECT was accepted and sends telemetry only after *this* connection's SUBSCRIBE was granted. It holds because each AT command flushes the ring and because whole packets leave `_recv_buf` empty (`NothingLeftOver`). When messages come in pieces the second reason goes, and the property with it; that is why its run has `Fragmented = FALSE`.
* `MessagesInOrder`: each message is shown at most once, in the broker's order, and only on its own connection.
* `NoticesLoss`, `RecoversFromLoss`: every receive error is turned into "no data", so the next telemetry message is the only thing that fails on a dead connection. It is sent in `STATE_PUBLISH`, which a task that waits for a CONNACK or a SUBACK does not reach: there the second property fails.
* `ShownCameFromBroker`: fails, since `STATE_PUBLISH` serialises telemetry into the buffer in which half a message waits for its other half.
* `TimeFromNtp`: holds because the publisher sleeps for a second after it has opened a connection: a menu task that is about to receive gets the mutex before the publisher can send its CONNECT, and so before the broker has anything to send. The mutant without that delay breaks it.
* `SyncEnds`: the publisher's loop in `STATE_WAIT_CONNECT` takes the mutex again and again without a delay; the property says that this, and a broker that sends without end, are the only ways to starve the menu.
* `PayloadInOrder`, `ReturnsBetweenFrames`, `WholeDatagram`: whatever noise and payload look like, for calls that begin between two frames; a timeout in the middle of a frame makes the next call begin inside one, and then nothing is promised. A datagram that is longer than the buffer is discarded, not cut (the mutant `AcceptedLong` cuts it), and the next one is received whole; only a `+` in the one that is discarded is excluded, since its payload is searched for a header.
* `SavedSurvives`: what was reported saved, up to the next erasure, whatever an erasure or a copy that was cut short leaves. `ChipInStep`: for each setting by itself. A write that fails, or a deletion, puts the one setting behind until its next write succeeds; that it leaves the other alone, and that nothing else puts a setting behind, is what the property says.
* `NeverEarlyAlone`: only for a delay that no other overlaps, since overlapped ones can be cut short. `Returns`: the escape after two ticks ends every delay.
* `ShownIsReal`, `SavedAsShown`, `ShiftsAreInverse`: the day's maximum is fixed when the editor is opened, and the clamp at the end of `date_step` makes up for it.
* `ScreenIsShown`: speaks of the LCD as it will be when the display task has caught up, so that it holds however far behind it is; it excludes that a shorter text leaves the end of a longer one, and that two screens mix. Of the main screen at 100.0 MHz and above it says the latter only, because nobody knows what is written there. `WritesInOrder`: every item takes effect once and in the order of sending; an item that a full queue drops, or that is sent twice, is what it excludes. `NoLeak`: each of an item's blocks is freed once. `MenuGoesOn`: a full queue holds the menu up, but not for ever.
* `DeletedAsShown`: nothing but the confirmation deletes, and it deletes what it was opened for. Its question is drawn or on its way, with the cursor on Yes; or it is in its first turn, since `Menu_SM` takes a key before it draws and Yes is its first answer, and then the LCD is blank: no other question can be answered by mistake.
* `ReportedOnce`: a scan alone is a bounce, two that agree are a press, and a held button counts once, also when the callback has been held up in between. `ScanResumes`: it is not held up for ever.
* `AnswerIsOwn`: for a command that found the module free. One that is sent while the module still works on an earlier one can take that one's late OK for its own. `TimeoutMeansFull`: an answer that was read whole is overlooked only because the response buffer was full.
* `ReadAtOneMoment`: names the one midnight that the comparison of the dates misses, between the last two registers of the second reading.
* `SuccessMeansDone`: what `Radio_setReg` takes for success was acknowledged to the last byte, and when `Radio_getReg` takes a receive for a success every byte that was asked for is stored. `done` counts on the device's side and `index` on the handler's, which runs one ahead of it in a transmission.
* `ResultIsShown`: what the LCD shows of a step is compared with what the step has done where that can be seen apart from its result (`Achieved`): the display task exists, the timer runs, the time was written, the last register was acknowledged. A result whose convention is read the wrong way round, as the mutant `RequestTimeInverted` does, shows a success for a time that was never written. For the commands to the module and the publisher's task only the result itself is there to compare with. `WritesInOrder` is about start-up here: items may fill the queue before the display task runs, and that task begins by clearing the LCD.
* `StartupEnds`: start-up goes on after a failure. It has two exceptions, which the code leaves open: no display task, and a lost wake-up of the I2C bus (`Hung`): STA is set before `blocking`, and if another task runs for the length of the whole transfer between the two statements, the call does not return.

Each property of a passing run has a mutant: a plausible bug in one definition, written beside it and marked `Mutant of`, under which TLC finds the property violated.

### Disagreements with the documentation

They are listed in `PROJECT.json` under `findings`, with the lines they contradict.

* Three violated runs: recovery from a lost connection (README.md:345), reassembly of fragments (README.md:264), sharing the driver "without racing" (wifi_rtos.c:6).
* Five that were met on the way to a property that holds with a condition the documentation does not have: the clock "always has a valid value" (README.md:197), while `CLOCK_Init` is called with a variable that was never written when the NTP request fails (`ResultIsShown` has only that the LCD reported the failure before); a full display queue is reported and never blocks (display.h:79, README.md:208), while `DISPLAY_Send` waits without end (`StartupEnds`); a date that changes while it is read cannot give a wrong result (RTC.h:54-55), while one midnight does (`ReadAtOneMoment`); Edit Calendar saves to flash (README.md:120), while it sets the RTC only (`SavedAsShown`); the LCD always shows date, time, volume and frequency (README.md:87), while from 100.0 MHz on their text does not fit its buffer and what is shown is unspecified (`ScreenIsShown`).

### Fairness

* `Publisher`: `WF(Task)`, since the task's delays and timeouts are bounded and it has the priority of the others, and `WF(Tick)`, time passes. Nothing is assumed of broker or network.
* `WifiShare`: `WF(PubCall)`, `WF(WakeUp)` and `WF(nap /\ AppCall)`. A FreeRTOS mutex that is given back is not handed over, and both tasks have the same priority, so the menu task is only sure to run while the publisher sleeps.
* `DelayTimer`: `WF` of time and of each task.
* `Panel`: `WF` of the menu task and of the display task: they have the same priority, take turns, and block on the queue.
* `Startup`: `WF` of `APP_Task` (a command's time passes, also when the module says nothing), of the display task, of the timer service task once there is room, and of the I2C interrupt. Nobody has to press a key, and the module has to say nothing.

## 4. Proofs

All proofs are checked by TLAPS for every value of the constants that the named assumptions allow.

| Theorem | Says | Argument |
|---|---|---|
| `PublisherProofs!TypeCorrect` | types, fragmented or not | one step per action; lemmas for the reader's outcomes |
| `PublisherProofs!Agreement`, `FreshStart` (`~Fragmented`) | `AgreesWithBroker`, `NothingLeftOver` | the inductive invariant `IInv`: see below |
| `PublisherProofs!ShownInOrder` (`~Fragmented`) | `MessagesInOrder` | `Order`: the queue holds messages of the present connection only, with growing numbers, and later ones than the last shown |
| `ReceiveProofs!BufferTypeCorrect`, `ImplementsFifo` | indices in range; `RecvBuffer` implements `ByteFifo` | lemmas about sums modulo `Size`; a step copies a prefix of the pending bytes and leaves the rest (`CopiedRest`), and a write extends them (`WrittenInOrder`) |
| `WifiShareProofs!TypeCorrect`, `ClockSource` | `TypeOK`, `TimeFromNtp` | a message is in the ring only after a SUBSCRIBE on the present connection, and the menu task's later calls exclude that: `NoMessage` |
| `ReceiveProofs!TypeCorrect`, `PayloadReceived`, `EndsBetweenFrames`, `DatagramReceived` | the four invariants of `IpdParser`, for buffers of any size | `Agrees`: where the parser is for each place in a frame, see below |
| `SettingsProofs!RadioTypeCorrect`, `ChipFollows`, `SavesSurvive` | `RadioTypeOK`, `ChipInStep`, `SavedSurvives` | flash holds a prefix of the record being written, and exactly the record that was reported (`Kept`); a prefix that `Valid` accepts is whole |
| `DelayTimerProofs!TypeCorrect`, `AloneIsLongEnough` | `TypeOK`, `NeverEarlyAlone`, for any number of tasks | a task that is alone has the timer as it has programmed it so far (`Programmed`), and since its call at least what the timer and the ticks count has passed (`Elapsed`) |
| `SettingsProofs!TypeCorrect`, `ShownDatesExist`, `SavesWhatItShows`, `ShiftsUndo` | `TypeOK`, `ShownIsReal`, `SavedAsShown`, `ShiftsAreInverse` | `InStep`: the integer fields display exactly `date`, and `date` is real; so the RTC's clamps change nothing |
| `PanelProofs!TypeCorrect`, `NothingLeaks`, `ScreenShown`, `DeletesAsShown` | `TypeOK`, `NoLeak`, `ScreenIsShown`, `DeletedAsShown`, for a display queue of any size | `PanelInv`: see below |
| `PanelProofs!InOrder` | `WritesInOrder`: `Panel` implements `DirectLcd` | a turn of the menu only adds to the end of what is unwritten (`PlanStep`), sending and receiving leave it as it is (`HandedOn`), carrying out writes its head (`WriteStep`) |
| `StartupProofs!ResultsShown` | `ResultIsShown`, for queues and buffers of any size | `AppInv`, `ShownInv`, `OutcomeInv`: see below |
| `StartupProofs!InOrder` | `WritesInOrder`: `Startup` implements `DirectLcd` | as in `PanelProofs`; before the display task runs the LCD is as it was powered, so its clearing changes nothing |
| `StartupProofs!TypeCorrect` (`Paced`) | `TypeOK` of `Startup` and of its five components | the invariants of the components, with `AtKinds` and `TransferInv`: see below |
| `StartupProofs!KeysReportedOnce`, `AnswersAreOwn`, `TimeoutsMeanFull`, `SuccessIsDone` (`Paced`), `ClockReadAtOnce` | the action properties of `Startup`, for queues and buffers of any size, days of any length | a step of `Startup` is a step of each component or leaves it alone (`StepIsComponents`, `RtcLift`); then an invariant of that component: see below |

**Publisher.** `AgreesWithBroker` is not inductive: an answer that is still on its way, in the ring or in `_recv_buf` could make the task believe it later. `IInv` adds to the types what `Queue`, the stretch `recvbuf \o uart \o net`, can hold in each state of the task (`Phase`): nothing, while a CONNECT or a SUBSCRIBE has not been sent; then at most a CONNACK; then messages and at most one SUBACK, which only messages follow if it grants and nothing if it does not; afterwards messages only. If the link is up, the CONNACK or SUBACK in it says what the broker has decided (`brk`). `Unbroken` says that every unit is whole and that `trp` is at the header, which ties the reader's result to the unit it consumes; it is where `~Fragmented` is used. Three facts about the queue carry the proof: a flush leaves a stretch of it (`FlushKeeps`), a read takes its head (`ReadKeeps`), and an answer joins its end (`AnswerStep`). The same three carry `Order`, which needs `IInv`: a connection is opened with the queue empty, so that no message of an earlier one is in it.

**IpdParser.** That a payload is received needs that the parser is in step with the sender, although it sees characters only. For a call that begins between two frames, it is in one of four places: between frames, with at most two characters of a match, since noise has no more of a header (`Idle`); in a header, with exactly the characters matched that were sent, whatever came before (`InHeader`); in a body, with exactly the bytes counted that were sent (`InBody`); or, in the body of a datagram that it discards, before any character of a header, since none has been sent (`InLong`, where `plain` is needed). So payload bytes are never taken for a header, and the buffer holds the first places in order.

**Panel.** `ScreenIsShown` is not inductive: it says nothing while a screen is drawn. `Drawing` therefore looks further ahead, to the LCD after what is in the display task's hand, in the queue and still with the menu task (`Ahead`): it shows the screen that has been drawn, or is what the screen that was opened expects to draw on (`Ready`: cleared for the editors, which draw their date only, and for the confirmation, whose first turn may delete; blinking or not as `Menu_LcdSetup` set it). Nothing that is sent, received or carried out changes `Ahead` (`SendStep`, `ManagerStep`), so only the turns of `Menu_SM` matter, and for these `MainDrawn`, `SpinnerDrawn`, `StrFieldDrawn`, `DateDrawn` and `OneTextDrawn` say what a screen's items make of any LCD. `Entered` says which entries a screen is opened for: a confirmation for the two deletions, an editor for the two dates. `DisplayInv` has the heap's blocks, which `NoLeak` counts.

**Folds.** What items make of an LCD is a recursive function over their number (`AfterItems`), which is proved about without the library's induction theorems: `SetInduction` says that a set of numbers with 0, and with each number the next, has them all, since `<` is well-founded (`WFMin`, which has no operator parameter). With it `RunExists` shows that the function exists, `AfterEach` that each item continues it, and `DrawnAppend` and `DrawnHead` that one more item can be put at the end, and the first one taken off.

**Startup.** Start-up: `AppInv` says where `APP_Task` can be in its row of calls, and `ShownInv` that, when a call has ended, the LCD will tell its outcome and nothing else once everything has been sent and carried out (`Tells`), and that before the display task runs the LCD is as it was powered, so that the clearing with which the task starts changes nothing of what it will show. The types need more than themselves in two places: of the AT engine, that words in the response buffer and the ring are words of the module (`AtKinds`, `AtInv`); of the bus, where each transfer stands when an interrupt comes, of a write and of a read (`TransferInv`): only the last interrupt of a read may come after its call has returned. `Paced` is needed for that: a call that began during the transfer of the last one would have its bytes counted in it. Buttons: `was_pressed` and `alike` agree. AT commands: every answer in the ring that is not `cmd`'s own can only be there if the module was at work when `cmd` was sent. Bus: in a transmission `index` runs one byte ahead of what the device has acknowledged, in a receive it counts what was stored, from the call to the end of its transfer, also when the wake-up was missed. Clock: each register holds the time before the tick or after it (`Moment`), and a third reading begins only if the tick came before the second date had been read; a day's date does not change but at its end (`DayLemma`). Results: `OutcomeInv` says that a step that has ended has failed exactly if it has not done what it is for (`Achieved`), and that no time is written before it was asked for; with `ShownInv` it gives `ResultIsShown`.

Every invariant and every action property of a passing run is a theorem. Only model-checked are the liveness properties (`NoticesLoss`, `SyncEnds`, `Returns`, `MenuGoesOn`, `StartupEnds`, `ScanResumes`), which need fairness and ENABLED and are beyond the prover. No RECURSIVE operator is used in any module; the recursive function `AfterItems` is the one recursion that proofs rest on.

## 5. Not modelled

* `TIME_SYNC_Task` and `TIME_SYNC_Start`: nothing starts the task. (Its tests `!WIFI_RTOS_Init()` and so on, time_sync.c:124, 133 and 142, take the success code, which is 0, for a failure.) `WIFI_Reset`, `WIFI_DisconnectAP`, `WIFI_IsConnected`, `WIFI_ListAPs`, `WIFI_GetStatus`, `RADIO_RTOS_GET_DATA`, `_SET_REG` and `__LCDText_Printf`: nothing calls them.
* AT answers are not matched character by character: a word is one character of the model. In `WifiShare` and `Publisher` every command may succeed, fail, or take effect and be reported as failed.
* The conversion of the NTP timestamp to a date, and formatting on the screen but for the lengths of the texts: pure functions of one call, without a state. Of a text that did not fit its buffer (DateField.c:301) no more is modelled than that it is an unknown one of an unknown length.
* A SUBACK that cannot be parsed (publisher.c:222, where the result is not looked at and `granted_qos` would be read without having been written): the broker of the model sends none.
* The Paho library, the FreeRTOS kernel, the UART driver (a prebuilt library), the ESP8266 and the broker are environment. LED, clock power, start-up code, printf and the RTOS hooks are hardware set-up and vendor code.
* I2C: other masters and bus errors. Flash: wear, and commands that fail for other reasons than the ones that end `Save_RData`. LCD: the nibbles and waits of its bus.
* Date editor: time of day and its editor Edit Clock beyond its screen, the day of the year, memory allocation that fails. Radio: the saved time stamp. The comparison of the identifier in `Get_RData` is a Boolean: the identifier is either whole or not.

## 6. Plan

What a next step would take up, in this order:

1. `Publisher` as an implementation of the publisher half of `WifiShare`, with kinds of packets as the refinement mapping: it would replace the remark that the latter allows what the former does.
2. `AtEngine` under `WifiShare`'s calls: a late answer of the publisher's command met by the menu task's.
3. The digits of Edit Clock beside a clock that runs.
