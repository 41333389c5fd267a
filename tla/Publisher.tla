----------------------------- MODULE Publisher -----------------------------
(* The MQTT telemetry task of FreeRTOS-Env/src/publisher.c, with the part of *)
(* the ESP8266 driver and of the broker that it talks to.                    *)
(*                                                                           *)
(* A packet from the broker is a record; what travels is a unit: a whole     *)
(* packet, or (when Fragmented) its head, which holds the fixed header, and  *)
(* its tail, which may arrive apart.  Bytes go from the wire into the UART   *)
(* receive ring (uart); ReceiveTcp moves them into the circular buffer       *)
(* _recv_buf (recvbuf); MQTTPacket_readnb takes them from there into the     *)
(* task's one packet buffer (buf).                                           *)
EXTENDS Naturals, Sequences

CONSTANTS MaxSessions,  \* bound: TCP connections opened in a behaviour
          MaxMsgs,      \* bound: messages the broker publishes per connection
          Fragmented    \* TRUE: a message may reach the UART in two pieces

ASSUME PublisherAssumption ==
    /\ MaxSessions \in Nat \ {0}
    /\ MaxMsgs \in Nat
    /\ Fragmented \in BOOLEAN

VARIABLES
    state,    \* the task's state, enum states
    sending,  \* "no", or a WIFI_Send in progress: "lost" or "delivered"
    trp,      \* transporter.state: "header" (0) or "body" (2)
    buf,      \* the packet whose fixed header is in buffer[0]
    recvbuf,  \* _recv_buf, oldest unit first
    net,      \* units on their way from the broker
    uart,     \* the UART receive ring
    due,      \* 30 s have passed since start_tick
    link,     \* the ESP8266 has its TCP connection to the broker
    sess,     \* number of the last TCP connection opened
    brk,      \* what the broker has seen on this connection
    sent,     \* messages the broker has published on this connection
    shown     \* the last message handed to the application (printed)

device == <<state, sending, trp, buf, recvbuf, uart, due, shown>>
broker == <<link, sess, brk, sent, net>>
vars   == <<device, broker>>
-----------------------------------------------------------------------------
States == {"INIT", "CONNECT", "WAIT_CONNECT", "SUBSCRIBE", "SUBACK",
           "RECEIVE", "PUBLISH"}
Types  == {"CONNACK", "SUBACK", "PUBLISH"}

\* ok is the return code of a CONNACK, the granted QoS of a SUBACK.
\* Connection number 0 marks what no broker sent.
Packet == [type : Types \cup {"own"}, ok : BOOLEAN,
           sess : 0..MaxSessions, id : 0..MaxMsgs]
Unit   == [type : Types, ok : BOOLEAN, sess : 0..MaxSessions,
           id : 0..MaxMsgs, part : {"whole", "head", "tail"}]

\* The packet the task itself serialised into buffer.  A telemetry message
\* has the fixed header of any PUBLISH.
Outgoing(kind) == [type |-> kind, ok |-> TRUE, sess |-> 0, id |-> 0]
\* Payload bytes of u read where a fixed header was expected.
Garbage(u) == {[type |-> t, ok |-> b, sess |-> u.sess, id |-> 0] : t \in Types, b \in BOOLEAN}

PacketOf(u) == [type |-> u.type, ok |-> u.ok, sess |-> u.sess, id |-> u.id]

\* How a packet reaches the UART.  A CONNACK and a SUBACK, 4 and 5 bytes, come
\* whole.
Pieces(p) ==
    LET unit(part) == [type |-> p.type, ok |-> p.ok, sess |-> p.sess,
                       id |-> p.id, part |-> part]
    IN  IF Fragmented /\ p.type = "PUBLISH" THEN <<unit("head"), unit("tail")>> ELSE <<unit("whole")>>
-----------------------------------------------------------------------------
\* Mutant of FlushRx: an AT command leaves in the ring what it finds there.
NoFlush(q) == q

\* Every AT command starts with UART_FlushRx and swallows what arrives until
\* its answer: nothing received before the answer survives.
FlushRx(q) == << >>

\* STATE_INIT: close, open, sleep.  A link that was not closed makes
\* AT+CIPMUX=0 fail, so it is never opened a second time.  An open may take
\* effect and still be reported as failed.
StateInit ==
    /\ state = "INIT"
    /\ \E closed, opened, reported \in BOOLEAN :
         /\ ~link => closed
         /\ opened => closed /\ sess < MaxSessions
         /\ reported => opened
         /\ link' = (opened \/ (link /\ ~closed))
         /\ sess' = IF opened THEN sess + 1 ELSE sess
         /\ brk'  = IF closed THEN "none" ELSE brk
         /\ net'  = IF closed THEN << >> ELSE net
         /\ sent' = IF opened THEN 0 ELSE sent
         /\ state' = IF reported THEN "CONNECT" ELSE "INIT"
    /\ uart' = FlushRx(uart)
    /\ UNCHANGED <<sending, trp, buf, recvbuf, due, shown>>

\* transport_sendPacketBuffer up to the moment the data is on the wire: the
\* packet is serialised into buffer, and is delivered only over a live link.
Send(from, kind) ==
    /\ state = from /\ sending = "no"
    /\ buf' = Outgoing(IF kind = "telemetry" THEN "PUBLISH" ELSE "own")
    /\ uart' = FlushRx(uart)
    /\ \/ /\ link
          /\ sending' = "delivered"
          /\ brk' = CASE kind = "connect"   /\ brk = "none"      -> "connect"
                      [] kind = "subscribe" /\ brk = "connected" -> "subscribe"
                      [] OTHER -> brk
       \/ sending' = "lost" /\ UNCHANGED brk
    /\ UNCHANGED <<state, recvbuf, due, link, sess, sent, net, shown>>

\* Mutant of Sent: the result of the send is not looked at.
SentUnchecked(from, next) ==
    /\ state = from /\ sending # "no"
    /\ sending' = "no"
    /\ uart' = FlushRx(uart)
    /\ state' = next
    /\ UNCHANGED <<trp, buf, recvbuf, shown, broker>>

\* ... and from there to its return: SEND OK, or an error or a timeout, which
\* may also be what the task is told of data that was delivered.
Sent(from, next) ==
    /\ state = from /\ sending # "no"
    /\ sending' = "no"
    /\ uart' = FlushRx(uart)
    /\ \/ sending = "delivered" /\ state' = next
       \/ state' = "INIT"
    /\ UNCHANGED <<trp, buf, recvbuf, shown, broker>>

Connect       == Send("CONNECT", "connect") /\ trp' = "header"
ConnectDone   == Sent("CONNECT", "WAIT_CONNECT") /\ UNCHANGED due
Subscribe     == Send("SUBSCRIBE", "subscribe") /\ UNCHANGED trp
SubscribeDone == Sent("SUBSCRIBE", "SUBACK") /\ UNCHANGED due
Publish       == due /\ Send("PUBLISH", "telemetry") /\ UNCHANGED trp
PublishDone   == /\ Sent("PUBLISH", "RECEIVE")
                 /\ due' = (due /\ state' = "INIT")

\* Mutant of NotDue: state++ instead of STATE_SUBSCRIBE_RECEIVE.
NotDueCounts  == /\ state = "PUBLISH" /\ sending = "no" /\ ~due
                 /\ state' = "PUBLISH+1"
                 /\ UNCHANGED <<sending, trp, buf, recvbuf, uart, due, shown, broker>>
NotDue        == /\ state = "PUBLISH" /\ sending = "no" /\ ~due
                 /\ state' = "RECEIVE"
                 /\ UNCHANGED <<sending, trp, buf, recvbuf, uart, due, shown, broker>>
-----------------------------------------------------------------------------
\* get_recv_buffer serves what is buffered first and calls ReceiveTcp only
\* when the buffer is empty.
Available == recvbuf # << >> \/ uart # << >>
NextUnit  == IF recvbuf # << >> THEN Head(recvbuf) ELSE Head(uart)

\* Mutant of Consume: fresh data is written at _recv_buf_p.
ConsumeFresh(left) ==
    IF recvbuf # << >>
    THEN recvbuf' = left \o uart \o Tail(recvbuf) /\ uart' = << >>
    ELSE recvbuf' = left \o Tail(uart) /\ uart' = << >>

Consume(left) ==
    IF recvbuf # << >>
    THEN recvbuf' = left \o Tail(recvbuf) /\ UNCHANGED uart
    ELSE recvbuf' = left \o Tail(uart) /\ uart' = << >>

\* What one unit does to MQTTPacket_readnb: the result, the reader's stage,
\* the packet in buffer and what is left of the unit ("more": the call goes
\* on with the body; "short": it returns 0).  A tail met where a header is
\* expected is parsed as one; a unit met inside another packet is taken for the
\* missing body, whole or in part.
Outcomes(u) ==
    LET Got(res, stage, p, left) == [res |-> res, trp |-> stage, buf |-> p, left |-> left]
        rest == <<[u EXCEPT !.part = "tail"]>>
    IN  CASE trp = "header" /\ u.part = "whole" ->
               {Got(u.type, "header", PacketOf(u), << >>)}
          [] trp = "header" /\ u.part = "head" ->
               {Got("more", "body", PacketOf(u), << >>)}
          [] trp = "header" /\ u.part = "tail" ->
               UNION {{Got("error", "header", g, << >>),
                       Got("short", "body", g, << >>),
                       Got(g.type, "header", g, << >>)} : g \in Garbage(u)}
          [] trp = "body" /\ u.part = "tail" ->
               {Got(buf.type, "header", buf, << >>)}
          [] OTHER ->
               {Got(buf.type, "header", buf, << >>), Got("short", "body", buf, << >>),
                Got(buf.type, "header", buf, rest)}

Results == IF Available THEN Outcomes(NextUnit) ELSE {}

\* A step of MQTTPacket_readnb in the state from.  What the task does with the
\* result and with the packet in buffer follows ("more": it has not returned).
Read(from, o) ==
    /\ state = from
    /\ trp' = o.trp /\ buf' = o.buf /\ Consume(o.left)
    /\ UNCHANGED <<sending, due, broker>>

\* STATE_WAIT_CONNECT: only a CONNACK or an error ends the loop.
OnConnack(r, p) ==
    /\ state' = CASE r = "CONNACK" -> IF p.ok THEN "SUBSCRIBE" ELSE "INIT"
                  [] r = "error" -> "INIT"
                  [] OTHER -> "WAIT_CONNECT"
    /\ UNCHANGED shown

\* Mutant of OnSuback: a packet that is not the SUBACK is a failure.
OnlySuback(r, p) ==
    /\ state' = IF r = "more" THEN "SUBACK"
                ELSE IF r = "SUBACK" /\ p.ok THEN "RECEIVE" ELSE "INIT"
    /\ UNCHANGED shown

\* STATE_SUBSCRIBE_SUBACK: any other packet is dropped.
OnSuback(r, p) ==
    /\ state' = CASE r = "SUBACK" -> IF p.ok THEN "RECEIVE" ELSE "INIT"
                  [] r = "error" -> "INIT"
                  [] OTHER -> "SUBACK"
    /\ UNCHANGED shown

\* STATE_SUBSCRIBE_RECEIVE: a PUBLISH is shown and the next packet is read;
\* any other packet ends the turn.  A message is intact when its body joins
\* the header it was sent with.
OnMessage(r, p) ==
    /\ state' = CASE r = "error" -> "INIT"
                  [] r \in {"PUBLISH", "more"} -> "RECEIVE"
                  [] OTHER -> "PUBLISH"
    /\ shown' = IF r = "PUBLISH"
                THEN [sess |-> p.sess, id |-> p.id, intact |-> p = PacketOf(NextUnit)]
                ELSE shown

ReadConnack == \E o \in Results : Read("WAIT_CONNECT", o) /\ OnConnack(o.res, o.buf)
ReadSuback  == \E o \in Results : Read("SUBACK", o) /\ OnSuback(o.res, o.buf)
ReadMessage == \E o \in Results : Read("RECEIVE", o) /\ OnMessage(o.res, o.buf)

\* No data within the 5 s of ReceiveTcp: readnb returns 0, whatever became of
\* the link.  Waiting for a CONNACK or a SUBACK, the task tries again.
ReadNothing ==
    /\ state \in {"WAIT_CONNECT", "SUBACK", "RECEIVE"} /\ ~Available
    /\ state' = IF state = "RECEIVE" THEN "PUBLISH" ELSE state
    /\ UNCHANGED <<sending, trp, buf, recvbuf, uart, due, shown, broker>>

Tick == ~due /\ due' = TRUE
        /\ UNCHANGED <<state, sending, trp, buf, recvbuf, uart, shown, broker>>
-----------------------------------------------------------------------------
\* The broker answers; the ESP8266 puts each unit into the UART as one +IPD
\* frame.  What is on its way when the connection ends is lost.
Answer(type, ok, id) ==
    net' = net \o Pieces([type |-> type, ok |-> ok, sess |-> sess, id |-> id])

BrokerConnack ==
    /\ link /\ brk = "connect"
    /\ \E ok \in BOOLEAN : /\ Answer("CONNACK", ok, 0)
                           /\ brk' = IF ok THEN "connected" ELSE "refused"
    /\ UNCHANGED <<device, link, sess, sent>>

BrokerSuback ==
    /\ link /\ brk = "subscribe"
    /\ \E ok \in BOOLEAN : /\ Answer("SUBACK", ok, 0)
                           /\ brk' = IF ok THEN "subscribed" ELSE "rejected"
    /\ UNCHANGED <<device, link, sess, sent>>

\* Attribute updates may overtake the SUBACK.
BrokerPublish ==
    /\ link /\ brk \in {"subscribe", "subscribed"} /\ sent < MaxMsgs
    /\ sent' = sent + 1
    /\ Answer("PUBLISH", TRUE, sent + 1)
    /\ UNCHANGED <<device, link, sess, brk>>

Deliver ==
    /\ net # << >>
    /\ uart' = Append(uart, Head(net))
    /\ net' = Tail(net)
    /\ UNCHANGED <<state, sending, trp, buf, recvbuf, due, shown, link, sess, brk, sent>>

LinkLost ==
    /\ link /\ link' = FALSE
    /\ brk' = "none" /\ net' = << >>
    /\ UNCHANGED <<device, sess, sent>>
-----------------------------------------------------------------------------
Init ==
    /\ state = "INIT" /\ sending = "no" /\ trp = "header"
    /\ buf = Outgoing("own") /\ recvbuf = << >> /\ uart = << >>
    /\ due = FALSE /\ link = FALSE /\ sess = 0 /\ brk = "none" /\ sent = 0
    /\ net = << >>
    /\ shown = [sess |-> 0, id |-> 0, intact |-> TRUE]

Task == \/ StateInit
        \/ Connect \/ ConnectDone \/ ReadConnack
        \/ Subscribe \/ SubscribeDone \/ ReadSuback
        \/ ReadMessage \/ ReadNothing
        \/ Publish \/ PublishDone \/ NotDue

Environment == BrokerConnack \/ BrokerSuback \/ BrokerPublish \/ Deliver \/ LinkLost

Next == Task \/ Tick \/ Environment

Spec == Init /\ [][Next]_vars

\* The task is always ready again after a bounded delay, and time passes; the
\* broker and the network promise nothing.
Fairness == WF_vars(Task) /\ WF_vars(Tick)
LiveSpec == Spec /\ Fairness
-----------------------------------------------------------------------------
\* Every variable holds a value of its kind.
TypeOK ==
    /\ state \in States /\ sending \in {"no", "lost", "delivered"}
    /\ trp \in {"header", "body"} /\ buf \in Packet
    /\ recvbuf \in Seq(Unit) /\ uart \in Seq(Unit) /\ net \in Seq(Unit)
    /\ due \in BOOLEAN /\ link \in BOOLEAN /\ sess \in 0..MaxSessions
    /\ brk \in {"none", "connect", "refused", "connected",
                "subscribe", "rejected", "subscribed"}
    /\ sent \in 0..MaxMsgs
    /\ shown \in [sess : 0..MaxSessions, id : 0..MaxMsgs, intact : BOOLEAN]

\* While the connection is up, the task never believes more than the broker
\* granted on this very connection: it subscribes only once its CONNECT was
\* accepted and sends telemetry only once its SUBSCRIBE was.  An answer to an
\* earlier connection, left in the ring or in _recv_buf (which no reconnect
\* clears), would break this.
AgreesWithBroker ==
    link => /\ state \in {"SUBSCRIBE", "SUBACK"} =>
                  brk \in {"connected", "subscribe", "rejected", "subscribed"}
            /\ state \in {"RECEIVE", "PUBLISH"} => brk = "subscribed"

\* A new connection starts with nothing buffered from the last one, although
\* neither STATE_INIT nor STATE_CONNECT empties _recv_buf.
NothingLeftOver == state \in {"INIT", "CONNECT"} => recvbuf = << >>

\* Messages are shown in the order in which the broker published them, none
\* twice, and none of an earlier connection.
MessagesInOrder ==
    [][shown' # shown =>
         /\ shown'.sess = sess
         /\ shown.sess = sess => shown.id < shown'.id]_vars

\* A task that has its subscription and loses the connection comes back to
\* STATE_INIT: its next telemetry message fails.
NoticesLoss == (~link /\ state \in {"RECEIVE", "PUBLISH"}) ~> (state = "INIT")

\* The recovery the README promises in every state of the task.
RecoversFromLoss == ~link ~> (state = "INIT")

\* The reassembly of fragmented messages the README promises, at its weakest:
\* what is shown as received came from the broker, and is not telemetry that the
\* task serialised into buffer while half a message was in it.
ShownCameFromBroker == shown.intact \/ shown.sess # 0
=============================================================================
