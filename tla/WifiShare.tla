---------------------------- MODULE WifiShare ----------------------------
(* Two tasks on one ESP8266.  The publisher task keeps a TCP connection to   *)
(* the broker; the menu task closes whatever is open, opens a UDP connection *)
(* and asks an NTP server for the time.  Each WIFI_RTOS call holds the       *)
(* driver's mutex from its first to its last statement and is one step here; *)
(* between two calls of a task any number of calls of the other may come.    *)
(*                                                                           *)
(* Both tasks have priority tskIDLE_PRIORITY + 1.  Giving the mutex back     *)
(* does not hand it over: a task that loops without a delay may take it      *)
(* again every time, and only a vTaskDelay lets the other one in for sure.   *)
(* A delay is taken to be longer than a ready task needs to reach its next   *)
(* call.  Packets are modelled in Publisher; here a packet is of a kind, and *)
(* what a task makes of one it can use is left open.                         *)
EXTENDS Naturals

CONSTANT MaxSyncs  \* bound: uses of Sync Clock and Connect Wifi in a behaviour

ASSUME WifiShareAssumption == MaxSyncs \in Nat

VARIABLES
    pub,    \* next call of the publisher task
    nap,    \* the publisher is in vTaskDelay
    held,   \* kinds of packets in _recv_buf
    app,    \* next call of the menu task; "menu": it waits for the user
    reply,  \* what RequestUnixTime received: "none", "ntp" or "other"
    clock,  \* who set the clock last: "boot", "ntp" or "other"
    syncs,  \* menu items used
    conn,   \* the connection of the ESP8266: "none", "tcp" or "udp"
    asked,  \* requests the peer of the connection has seen
    rx      \* kinds of packets in the UART receive ring

mine == <<pub, nap, held>>
menu == <<app, reply, clock, syncs>>
wifi == <<conn, asked, rx>>
vars == <<mine, menu, wifi>>

Kinds == {"ack", "message", "ntp"}
Found == Kinds \cup {"none"}   \* by a read
Asks  == {"connect", "subscribe", "ntp"}
-----------------------------------------------------------------------------
\* Driver calls.  All but the receives flush the ring first.
Close ==
    /\ rx' = {}
    /\ \/ conn' = "none" /\ asked' = {}
       \/ conn # "none" /\ UNCHANGED <<conn, asked>>       \* timed out

\* AT+CIPMUX=0 fails while a connection is open.  An open may succeed and be
\* reported as failed.
Open(kind, reported) ==
    /\ rx' = {}
    /\ \/ conn = "none" /\ conn' = kind /\ asked' = {}
       \/ ~reported /\ UNCHANGED <<conn, asked>>

\* SEND OK says that the data went out, on whatever connection is open.
Send(ask, reported) ==
    /\ rx' = {} /\ UNCHANGED conn
    /\ \/ conn # "none" /\ asked' = asked \cup ask
       \/ ~reported /\ UNCHANGED asked
-----------------------------------------------------------------------------
\* The task delays before its next call.
Goes(to, delays) == pub' = to /\ nap' = delays

PubClose == /\ pub = "CLOSE" /\ Close
            /\ Goes("OPEN", FALSE) /\ UNCHANGED held

\* Mutant of PubOpen: no vTaskDelay(1000) after the connection is opened.
PubOpenAtOnce ==
    /\ pub = "OPEN" /\ UNCHANGED held
    /\ \E ok \in BOOLEAN : /\ Open("tcp", ok)
                           /\ Goes(IF ok THEN "CONNECT" ELSE "CLOSE", FALSE)

PubOpen == /\ pub = "OPEN" /\ UNCHANGED held
           /\ \E ok \in BOOLEAN : /\ Open("tcp", ok)
                                  /\ Goes(IF ok THEN "CONNECT" ELSE "CLOSE", TRUE)

PubSends(from, ask, next, delays) ==
    /\ pub = from /\ UNCHANGED held
    /\ \E ok \in BOOLEAN : /\ Send(ask, ok)
                           /\ Goes(IF ok THEN next ELSE "CLOSE", ok /\ delays)

PubConnect   == PubSends("CONNECT", {"connect"}, "WAIT_CONNECT", FALSE)
PubSubscribe == PubSends("SUBSCRIBE", {"subscribe"}, "SUBACK", FALSE)
PubTelemetry == PubSends("PUBLISH", {}, "RECEIVE", TRUE)

PubNotDue == /\ pub = "PUBLISH" /\ Goes("RECEIVE", TRUE)
             /\ UNCHANGED <<held, wifi>>

\* One MQTTPacket_readnb, which finds a packet of kind k, or returns 0 ("none"):
\* from _recv_buf if it holds anything, else with a ReceiveTcp that empties the
\* ring.
PubReads(from, k) ==
    /\ pub = from
    /\ IF held # {}
       THEN k \in held /\ held' \in {held, held \ {k}} /\ UNCHANGED wifi
       ELSE /\ rx' = {} /\ UNCHANGED <<conn, asked>>
            /\ \/ k = "none" /\ rx = {} /\ UNCHANGED held
               \/ k \in rx /\ held' \in {rx, rx \ {k}}

\* The loop of STATE_WAIT_CONNECT has no delay.
OnConnack(k) == IF k = "none" THEN Goes("WAIT_CONNECT", FALSE)
                ELSE \E to \in {"WAIT_CONNECT", "SUBSCRIBE", "CLOSE"} : Goes(to, FALSE)
OnSuback(k)  == IF k = "none" THEN Goes("SUBACK", TRUE)
                ELSE \E to \in {"SUBACK", "RECEIVE", "CLOSE"} : Goes(to, TRUE)

\* Mutant of OnMessage: the task does not delay when there is no packet.
OnMessageAtOnce(k) == \/ k # "none" /\ Goes("RECEIVE", FALSE)
                      \/ k # "none" /\ Goes("CLOSE", FALSE)
                      \/ Goes("RECEIVE", FALSE)

\* A PUBLISH is shown and the next packet read at once.
OnMessage(k) == \/ k # "none" /\ Goes("RECEIVE", FALSE)
                \/ k # "none" /\ Goes("CLOSE", FALSE)
                \/ Goes("PUBLISH", TRUE)

PubWaitConnect == \E k \in Found : PubReads("WAIT_CONNECT", k) /\ OnConnack(k)
PubSuback      == \E k \in Found : PubReads("SUBACK", k) /\ OnSuback(k)
PubReceive     == \E k \in Found : PubReads("RECEIVE", k) /\ OnMessage(k)

PubCall == /\ ~nap
           /\ \/ PubClose \/ PubOpen \/ PubConnect \/ PubWaitConnect
              \/ PubSubscribe \/ PubSuback \/ PubReceive \/ PubTelemetry \/ PubNotDue
           /\ UNCHANGED menu
-----------------------------------------------------------------------------
\* The user picks Sync Clock or Connect Wifi in the maintenance menu.
Pick ==
    /\ app = "menu" /\ syncs < MaxSyncs
    /\ syncs' = syncs + 1
    /\ app' \in {"ntpClose", "connectAp"} /\ reply' = "none"
    /\ UNCHANGED <<mine, clock, wifi>>

\* TIME_SYNC_RequestUnixTime, a call at a time.
NtpClose == /\ app = "ntpClose" /\ Close
            /\ app' = "ntpOpen" /\ UNCHANGED <<reply, clock>>

NtpOpen ==
    /\ app = "ntpOpen"
    /\ \E ok \in BOOLEAN : Open("udp", ok) /\ app' = IF ok THEN "ntpSend" ELSE "menu"
    /\ UNCHANGED <<reply, clock>>

NtpSend ==
    /\ app = "ntpSend"
    /\ \E ok \in BOOLEAN : Send({"ntp"}, ok) /\ app' = IF ok THEN "ntpReceive" ELSE "ntpEnd"
    /\ UNCHANGED <<reply, clock>>

\* The first frame of at most 64 bytes counts; one of 48 to 64 bytes is taken
\* for the answer, which a CONNACK or a SUBACK is too short for.
NtpReceive ==
    /\ app = "ntpReceive" /\ app' = "ntpEnd"
    /\ reply' \in {"none"} \cup {IF k = "ntp" THEN "ntp" ELSE "other" : k \in rx \ {"ack"}}
    /\ rx' = {} /\ UNCHANGED <<clock, conn, asked>>

\* Mutant of NtpEnd: the clock is set whatever the request returned.
NtpEndSets ==
    /\ app = "ntpEnd" /\ Close
    /\ app' = "menu" /\ clock' = reply
    /\ UNCHANGED reply

NtpEnd ==
    /\ app = "ntpEnd" /\ Close
    /\ app' = "menu" /\ clock' = IF reply = "none" THEN clock ELSE reply
    /\ UNCHANGED reply

\* AT+CWJAP leaves the access point, if it joined one, and with it the
\* connection.
ConnectAp ==
    /\ app = "connectAp" /\ app' = "menu"
    /\ rx' = {} /\ conn' = "none" /\ asked' = {}
    /\ UNCHANGED <<reply, clock>>

\* A call of the menu task may outlast the publisher's delay.
AppCall ==
    /\ NtpClose \/ NtpOpen \/ NtpSend \/ NtpReceive \/ NtpEnd \/ ConnectAp
    /\ nap' \in {nap, FALSE}
    /\ UNCHANGED <<pub, held, syncs>>

\* A delay ends on its own only if the menu task had no call to make.
WakeUp == /\ nap /\ app = "menu"
          /\ nap' = FALSE /\ UNCHANGED <<pub, held, menu, wifi>>
-----------------------------------------------------------------------------
\* What the peers do: answer what they were asked, or nothing; the broker
\* sends messages once it has seen a SUBSCRIBE, and has no use for a client
\* that sends it an NTP request.
Arrive ==
    /\ \E k \in Kinds :
         /\ conn = IF k = "ntp" THEN "udp" ELSE "tcp"
         /\ CASE k = "ack"     -> asked # {} /\ "ntp" \notin asked
              [] k = "message" -> "subscribe" \in asked /\ "ntp" \notin asked
              [] k = "ntp"     -> "ntp" \in asked
         /\ k \notin rx /\ rx' = rx \cup {k}
    /\ UNCHANGED <<mine, menu, conn, asked>>

LinkLost == /\ conn # "none" /\ conn' = "none" /\ asked' = {}
            /\ UNCHANGED <<mine, menu, rx>>
-----------------------------------------------------------------------------
Init == /\ pub = "CLOSE" /\ nap = FALSE /\ held = {}
        /\ app = "menu" /\ reply = "none" /\ clock = "boot" /\ syncs = 0
        /\ conn = "none" /\ asked = {} /\ rx = {}

Next == PubCall \/ AppCall \/ WakeUp \/ Pick \/ Arrive \/ LinkLost
Spec == Init /\ [][Next]_vars

\* A task that may run does, but when both want the mutex only a delay of the
\* publisher gives it to the menu task.
Fairness == WF_vars(PubCall) /\ WF_vars(WakeUp) /\ WF_vars(nap /\ AppCall)
LiveSpec == Spec /\ Fairness
-----------------------------------------------------------------------------
\* Every variable holds a value of its kind; the clock always has a source.
TypeOK ==
    /\ pub \in {"CLOSE", "OPEN", "CONNECT", "WAIT_CONNECT", "SUBSCRIBE",
                "SUBACK", "RECEIVE", "PUBLISH"}
    /\ nap \in BOOLEAN /\ held \subseteq Kinds /\ rx \subseteq Kinds
    /\ app \in {"menu", "ntpClose", "ntpOpen", "ntpSend", "ntpReceive", "ntpEnd",
                "connectAp"}
    /\ reply \in {"none", "ntp", "other"} /\ clock \in {"boot", "ntp", "other"}
    /\ syncs \in 0..MaxSyncs
    /\ conn \in {"none", "tcp", "udp"} /\ asked \subseteq Asks

\* The clock is never set from a message of the broker, although any frame of
\* 48 to 64 bytes passes for an NTP answer and the two tasks interleave.
TimeFromNtp == clock # "other"

\* A use of the menu ends, unless the publisher never leaves the loop of
\* STATE_WAIT_CONNECT or is fed messages without end.
SyncEnds ==
    \/ app # "menu" ~> app = "menu"
    \/ <>[](pub = "WAIT_CONNECT")
    \/ []<>(pub = "RECEIVE" /\ (rx \cup held) # {})

\* A task that sends does so over the connection that it opened itself, or it
\* finds none: what two tasks that share the driver without racing need.
OwnConnection ==
    [][/\ (PubConnect \/ PubSubscribe) /\ pub' # "CLOSE" => conn # "udp"
       /\ NtpSend /\ app' = "ntpReceive" => conn # "tcp"]_vars
=============================================================================
