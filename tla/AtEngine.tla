------------------------------ MODULE AtEngine ------------------------------
(* WIFI_SendATCommand of DRIVERS/src/Wifi.c and the ESP8266 it talks to, for *)
(* the commands of the start-up.  A word of the module is one character of   *)
(* the model: an OK, an ERROR or FAIL, or other talk (an echo, "busy p...",  *)
(* "WIFI GOT IP").  A word carries the command it answers, which the driver  *)
(* cannot see.                                                               *)
EXTENDS Naturals, Sequences

CONSTANTS BufLen,  \* words that fit into the response buffer
          MaxUart  \* bound: words in the UART ring

ASSUME AtEngineAssumption == BufLen \in Nat \ {0} /\ MaxUart \in Nat \ {0}

Commands == {"AT", "AT+CWMODE", "AT+CWJAP"}

VARIABLES
    cmd,    \* the command WIFI_SendATCommand waits for, or "none"
    reply,  \* what it has returned, or "none"
    fill,   \* words in the response buffer
    seen,   \* the module's answer to cmd has been read
    late,   \* the module was busy with an earlier command when cmd was sent
    uart,   \* the words in the UART ring
    esp,    \* the command the module works on, or "none"
    joined  \* the module has joined the access point

atVars == <<cmd, reply, fill, seen, late, uart, esp, joined>>

Says(word, from) == [says |-> word, from |-> from]
Talk == Says("talk", "none")
-----------------------------------------------------------------------------
\* Mutant of Flushed: what is in the ring is kept.
Kept == uart

\* UART_FlushRx.
Flushed == << >>

\* The module takes one command at a time; what comes while it works is ignored,
\* or answered with busy.
Command(c) ==
    /\ cmd = "none" /\ cmd' = c /\ reply' = "none"
    /\ fill' = 0 /\ seen' = FALSE /\ late' = (esp # "none")
    /\ IF esp = "none"
       THEN esp' = c /\ uart' = Flushed
       ELSE UNCHANGED esp /\ \E busy \in {<< >>, <<Talk>>} : uart' = Flushed \o busy
    /\ UNCHANGED joined

Returned(r) == cmd' = "none" /\ reply' = r /\ fill' = 0 /\ seen' = FALSE /\ late' = FALSE

\* The caller has looked at what WIFI_SendATCommand returned.
Taken == cmd = "none" /\ reply' = "none" /\ UNCHANGED <<cmd, fill, seen, late, uart, esp, joined>>

\* Mutant of Fits: the buffer is taken to be smaller than it is.
FitsLess == fill < BufLen - 1

\* wifi_store_char: a word that does not fit is not stored, and not found.
Fits == fill < BufLen

ReadChar ==
    /\ cmd # "none" /\ uart # << >> /\ uart' = Tail(uart)
    /\ IF Fits /\ Head(uart).says \in {"OK", "ERROR"}
       THEN Returned(Head(uart).says)
       ELSE /\ fill' = IF Fits THEN fill + 1 ELSE fill
            /\ seen' = (seen \/ Head(uart).from = cmd)
            /\ UNCHANGED <<cmd, reply, late>>
    /\ UNCHANGED <<esp, joined>>

\* Mutant of TimesOut: the time counts only as long as the module is silent.
TimesOutSilent == /\ cmd # "none" /\ uart = << >> /\ fill = 0 /\ Returned("TIMEOUT")
                  /\ UNCHANGED <<uart, esp, joined>>

\* The loop looks at the time when it has read all there is.
TimesOut == /\ cmd # "none" /\ uart = << >> /\ Returned("TIMEOUT")
            /\ UNCHANGED <<uart, esp, joined>>
-----------------------------------------------------------------------------
EspAnswers ==
    /\ esp # "none" /\ esp' = "none" /\ Len(uart) < MaxUart
    /\ \E word \in {"OK", "ERROR"} :
          /\ uart' = Append(uart, Says(word, esp))
          /\ joined' = IF esp = "AT+CWJAP" THEN word = "OK" ELSE joined
    /\ UNCHANGED <<cmd, reply, fill, seen, late>>

\* Bound: talk beyond what fills the response buffer changes nothing more.
EspTalks == /\ Len(uart) < MaxUart /\ fill + Len(uart) < BufLen
            /\ uart' = Append(uart, Talk)
            /\ joined' \in {joined, FALSE}
            /\ UNCHANGED <<cmd, reply, fill, seen, late, esp>>

Esp == EspAnswers \/ EspTalks

\* The commands of the start-up are over.
AtForgotten == /\ cmd' = "none" /\ reply' = "none" /\ fill' = 0 /\ seen' = FALSE /\ late' = FALSE
               /\ uart' = << >> /\ esp' = "none" /\ joined' = FALSE

AtInit == /\ cmd = "none" /\ reply = "none" /\ fill = 0 /\ seen = FALSE /\ late = FALSE
          /\ uart = << >> /\ esp = "none" /\ joined = FALSE
-----------------------------------------------------------------------------
AtTypeOK ==
    /\ cmd \in Commands \cup {"none"} /\ reply \in {"none", "OK", "ERROR", "TIMEOUT"}
    /\ fill \in 0..BufLen /\ seen \in BOOLEAN /\ late \in BOOLEAN
    /\ uart \in Seq([says : {"OK", "ERROR", "talk"}, from : Commands \cup {"none"}])
    /\ Len(uart) <= MaxUart
    /\ esp \in Commands \cup {"none"} /\ joined \in BOOLEAN

\* A command that found the module free reports what the module said to it, and
\* not what it said to an earlier one whose time was up.  (One that was sent
\* while the module was still at work can take the earlier one's OK for its own.)
AnswerIsOwn ==
    [][reply = "none" /\ reply' \in {"OK", "ERROR"} /\ ~late => Head(uart).from = cmd]_atVars

\* A command whose answer came in time fails by time only when so much talk came
\* before the answer that the response buffer was full.
TimeoutMeansFull ==
    [][reply = "none" /\ reply' = "TIMEOUT" /\ seen => fill = BufLen]_atVars
=============================================================================
