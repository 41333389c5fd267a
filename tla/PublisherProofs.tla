-------------------------- MODULE PublisherProofs --------------------------
(* For any number of connections and of messages: Publisher's variables keep *)
(* their types and, when packets arrive whole, the task never believes more  *)
(* than the broker granted, no connection starts with left-over data, and    *)
(* messages are shown in order.                                              *)
EXTENDS Publisher, SequenceTheorems, TLAPS

\* What readnb reports of a unit is of the right kind, and so is what it leaves.
LEMMA OutcomeTypes ==
    ASSUME TypeOK, NEW u \in Unit, NEW o \in Outcomes(u)
    PROVE  /\ o.trp \in {"header", "body"} /\ o.buf \in Packet
           /\ o.left \in Seq(Unit)
  <1> DEFINE Got(res, stage, p, left) ==
               [res |-> res, trp |-> stage, buf |-> p, left |-> left]
             rest == <<[u EXCEPT !.part = "tail"]>>
  <1>1. << >> \in Seq(Unit) /\ rest \in Seq(Unit)
    <2>1. [u EXCEPT !.part = "tail"] \in Unit
      BY DEF Unit
    <2>2. QED
      BY <2>1, EmptySeq
  <1>2. buf \in Packet /\ PacketOf(u) \in Packet
    BY DEF TypeOK, PacketOf, Unit, Packet
  <1>3. Garbage(u) \subseteq Packet
    BY PublisherAssumption DEF Garbage, Unit, Packet
  <1>4. \E res, stage, p, left :
          /\ o = Got(res, stage, p, left)
          /\ stage \in {"header", "body"}
          /\ p \in {PacketOf(u), buf} \cup Garbage(u)
          /\ left \in {<< >>, rest}
    <2> HIDE DEF rest
    <2>1. CASE trp = "header" /\ u.part = "whole"
      BY <2>1 DEF Outcomes
    <2>2. CASE trp = "header" /\ u.part = "head"
      BY <2>2 DEF Outcomes
    <2>3. CASE trp = "header" /\ u.part = "tail"
      <3>1. o \in UNION {{Got("error", "header", g, << >>), Got("short", "body", g, << >>),
                          Got(g.type, "header", g, << >>)} : g \in Garbage(u)}
        BY <2>3 DEF Outcomes
      <3>2. PICK g \in Garbage(u) :
              o \in {Got("error", "header", g, << >>), Got("short", "body", g, << >>),
                     Got(g.type, "header", g, << >>)}
        BY <3>1
      <3>3. QED
        BY <3>2
    <2>4. CASE trp = "body" /\ u.part = "tail"
      BY <2>4 DEF Outcomes
    <2>5. CASE trp = "body" /\ u.part # "tail"
      <3>1. Outcomes(u) = {Got(buf.type, "header", buf, << >>), Got("short", "body", buf, << >>),
                           Got(buf.type, "header", buf, rest)}
        BY <2>5 DEF Outcomes, rest
      <3>2. QED
        BY <3>1
    <2>6. QED
      BY <2>1, <2>2, <2>3, <2>4, <2>5 DEF TypeOK, Unit
  <1>5. QED
    <2> HIDE DEF rest
    <2>1. PICK res, stage, p, left :
            /\ o = Got(res, stage, p, left)
            /\ stage \in {"header", "body"}
            /\ p \in {PacketOf(u), buf} \cup Garbage(u)
            /\ left \in {<< >>, rest}
      BY <1>4
    <2>2. o.trp = stage /\ o.buf = p /\ o.left = left
      BY <2>1
    <2>3. QED
      BY <1>1, <1>2, <1>3, <2>1, <2>2

\* The next unit comes off the queue; the queues stay queues of units.
LEMMA ConsumeTypes ==
    ASSUME TypeOK, Available, NEW left \in Seq(Unit), Consume(left)
    PROVE  /\ NextUnit \in Unit
           /\ recvbuf' \in Seq(Unit) /\ uart' \in Seq(Unit)
  <1>1. CASE recvbuf # << >>
    <2>1. Head(recvbuf) \in Unit /\ Tail(recvbuf) \in Seq(Unit)
      BY <1>1, HeadTailProperties DEF TypeOK
    <2>2. left \o Tail(recvbuf) \in Seq(Unit)
      BY <2>1, ConcatProperties
    <2>3. QED
      BY <1>1, <2>1, <2>2 DEF NextUnit, Consume, TypeOK
  <1>2. CASE recvbuf = << >>
    <2>1. Head(uart) \in Unit /\ Tail(uart) \in Seq(Unit)
      BY <1>2, HeadTailProperties DEF TypeOK, Available
    <2>2. left \o Tail(uart) \in Seq(Unit)
      BY <2>1, ConcatProperties
    <2>3. QED
      BY <1>2, <2>1, <2>2, EmptySeq DEF NextUnit, Consume
  <1>3. QED
    BY <1>1, <1>2

\* The broker's answers are units on their way.
LEMMA AnswerTypes ==
    ASSUME TypeOK, NEW type \in Types, NEW ok \in BOOLEAN, NEW id \in 0..MaxMsgs,
           Answer(type, ok, id)
    PROVE  net' \in Seq(Unit)
  <1> DEFINE unit(part) == [type |-> type, ok |-> ok, sess |-> sess,
                            id |-> id, part |-> part]
             pieces == Pieces([type |-> type, ok |-> ok, sess |-> sess, id |-> id])
  <1>1. \A part \in {"whole", "head", "tail"} : unit(part) \in Unit
    BY DEF Unit, TypeOK
  <1>2. pieces = <<unit("whole")>> \/ pieces = <<unit("head"), unit("tail")>>
    BY DEF Pieces
  <1>3. pieces \in Seq(Unit)
    <2> HIDE DEF unit, pieces
    <2>1. <<unit("whole")>> \in Seq(Unit)
      BY <1>1
    <2>2. <<unit("head"), unit("tail")>> \in Seq(Unit)
      BY <1>1
    <2>3. QED
      BY <1>2, <2>1, <2>2
  <1>4. QED
    BY <1>3, ConcatProperties DEF Answer, TypeOK

LEMMA InitTypes == Init => TypeOK
  <1>1. Outgoing("own") \in Packet
    BY PublisherAssumption DEF Outgoing, Packet
  <1>2. [sess |-> 0, id |-> 0, intact |-> TRUE]
          \in [sess : 0..MaxSessions, id : 0..MaxMsgs, intact : BOOLEAN]
    BY PublisherAssumption
  <1>3. QED
    BY <1>1, <1>2, EmptySeq, PublisherAssumption DEF Init, TypeOK, States

LEMMA StepTypes == TypeOK /\ [Next]_vars => TypeOK'
  <1> SUFFICES ASSUME TypeOK, [Next]_vars PROVE TypeOK'
    OBVIOUS
  <1> USE PublisherAssumption
  <1>1. CASE StateInit
    BY <1>1 DEF StateInit, FlushRx, TypeOK, States
  <1>2. CASE Connect
    BY <1>2 DEF Connect, Send, FlushRx, Outgoing, TypeOK, States, Packet, Types
  <1>3. CASE ConnectDone
    BY <1>3 DEF ConnectDone, Sent, FlushRx, TypeOK, States, broker
  <1>4. CASE Subscribe
    BY <1>4 DEF Subscribe, Send, FlushRx, Outgoing, TypeOK, States, Packet, Types
  <1>5. CASE SubscribeDone
    BY <1>5 DEF SubscribeDone, Sent, FlushRx, TypeOK, States, broker
  <1>6. CASE Publish
    BY <1>6 DEF Publish, Send, FlushRx, Outgoing, TypeOK, States, Packet, Types
  <1>7. CASE PublishDone
    BY <1>7 DEF PublishDone, Sent, FlushRx, TypeOK, States, broker
  <1>8. CASE NotDue
    BY <1>8 DEF NotDue, TypeOK, States, broker
  <1>9. CASE ReadConnack
    <2>1. PICK o \in Outcomes(NextUnit) :
             /\ Available /\ trp' = o.trp /\ buf' = o.buf /\ Consume(o.left)
             /\ OnConnack(o.res, o.buf)
             /\ UNCHANGED <<sending, due, broker>>
      BY <1>9 DEF ReadConnack, Read, Results
    <2>2. NextUnit \in Unit
      BY <2>1, HeadTailProperties DEF TypeOK, Available, NextUnit
    <2>3. trp' \in {"header", "body"} /\ buf' \in Packet /\ o.left \in Seq(Unit)
      BY <2>1, <2>2, OutcomeTypes
    <2>4. recvbuf' \in Seq(Unit) /\ uart' \in Seq(Unit)
      BY <2>1, <2>3, ConsumeTypes
    <2>5. state' \in States /\ shown' = shown
      BY <2>1 DEF OnConnack, States
    <2>6. QED
      BY <2>1, <2>3, <2>4, <2>5 DEF TypeOK, broker
  <1>10. CASE ReadSuback
    <2>1. PICK o \in Outcomes(NextUnit) :
             /\ Available /\ trp' = o.trp /\ buf' = o.buf /\ Consume(o.left)
             /\ OnSuback(o.res, o.buf)
             /\ UNCHANGED <<sending, due, broker>>
      BY <1>10 DEF ReadSuback, Read, Results
    <2>2. NextUnit \in Unit
      BY <2>1, HeadTailProperties DEF TypeOK, Available, NextUnit
    <2>3. trp' \in {"header", "body"} /\ buf' \in Packet /\ o.left \in Seq(Unit)
      BY <2>1, <2>2, OutcomeTypes
    <2>4. recvbuf' \in Seq(Unit) /\ uart' \in Seq(Unit)
      BY <2>1, <2>3, ConsumeTypes
    <2>5. state' \in States /\ shown' = shown
      BY <2>1 DEF OnSuback, States
    <2>6. QED
      BY <2>1, <2>3, <2>4, <2>5 DEF TypeOK, broker
  <1>11. CASE ReadMessage
    <2>1. PICK o \in Outcomes(NextUnit) :
             /\ Available /\ trp' = o.trp /\ buf' = o.buf /\ Consume(o.left)
             /\ OnMessage(o.res, o.buf)
             /\ UNCHANGED <<sending, due, broker>>
      BY <1>11 DEF ReadMessage, Read, Results
    <2>2. NextUnit \in Unit
      BY <2>1, HeadTailProperties DEF TypeOK, Available, NextUnit
    <2>3. trp' \in {"header", "body"} /\ buf' \in Packet /\ o.left \in Seq(Unit)
      BY <2>1, <2>2, OutcomeTypes
    <2>4. recvbuf' \in Seq(Unit) /\ uart' \in Seq(Unit)
      BY <2>1, <2>3, ConsumeTypes
    <2>5. /\ state' \in States
          /\ shown' \in [sess : 0..MaxSessions, id : 0..MaxMsgs, intact : BOOLEAN]
      <3>1. o.buf.sess \in 0..MaxSessions /\ o.buf.id \in 0..MaxMsgs
        BY <2>1, <2>3 DEF Packet
      <3>2. QED
        BY <2>1, <3>1 DEF OnMessage, States, TypeOK
    <2>6. QED
      BY <2>1, <2>3, <2>4, <2>5 DEF TypeOK, broker
  <1>12. CASE ReadNothing
    BY <1>12 DEF ReadNothing, TypeOK, States, broker
  <1>13. CASE Tick
    BY <1>13 DEF Tick, TypeOK, broker
  <1>14. CASE BrokerConnack
    <2>1. net' \in Seq(Unit)
      BY <1>14, AnswerTypes DEF BrokerConnack, Types
    <2>2. QED
      BY <1>14, <2>1 DEF BrokerConnack, TypeOK, device
  <1>15. CASE BrokerSuback
    <2>1. net' \in Seq(Unit)
      BY <1>15, AnswerTypes DEF BrokerSuback, Types
    <2>2. QED
      BY <1>15, <2>1 DEF BrokerSuback, TypeOK, device
  <1>16. CASE BrokerPublish
    <2>1. sent' \in 0..MaxMsgs /\ sent + 1 \in 0..MaxMsgs
      BY <1>16 DEF BrokerPublish, TypeOK
    <2>2. net' \in Seq(Unit)
      BY <1>16, <2>1, AnswerTypes DEF BrokerPublish, Types
    <2>3. QED
      BY <1>16, <2>1, <2>2 DEF BrokerPublish, TypeOK, device
  <1>17. CASE Deliver
    <2>1. uart' \in Seq(Unit) /\ net' \in Seq(Unit)
      BY <1>17, HeadTailProperties, AppendProperties DEF Deliver, TypeOK
    <2>2. QED
      BY <1>17, <2>1 DEF Deliver, TypeOK
  <1>18. CASE LinkLost
    BY <1>18, EmptySeq DEF LinkLost, TypeOK, device
  <1>19. CASE UNCHANGED vars
    BY <1>19 DEF vars, device, broker, TypeOK
  <1>20. QED
    BY <1>1, <1>2, <1>3, <1>4, <1>5, <1>6, <1>7, <1>8, <1>9, <1>10, <1>11,
       <1>12, <1>13, <1>14, <1>15, <1>16, <1>17, <1>18, <1>19
       DEF Next, Task, Environment

\* Every variable keeps its type, whether or not messages are fragmented.
THEOREM TypeCorrect == Spec => []TypeOK
  BY InitTypes, StepTypes, PTL DEF Spec
-----------------------------------------------------------------------------
(* The strengthening: what may be on its way to the task in each phase of a  *)
(* connection.  It speaks of one queue, from the wire to the task.           *)
Queue == recvbuf \o (uart \o net)

\* No packet is in two pieces.
Unbroken(q) == trp = "header" /\ \A i \in 1..Len(q) : q[i].part = "whole"

\* Between CONNECT and CONNACK: at most the CONNACK, and the broker is where
\* it says.
ConnackPending(q) ==
    /\ Len(q) <= 1
    /\ link => brk \in {"none", "connect", "connected", "refused"}
    /\ \A i \in 1..Len(q) :
         /\ q[i].type = "CONNACK"
         /\ link => brk = IF q[i].ok THEN "connected" ELSE "refused"

\* Between SUBSCRIBE and SUBACK: one SUBACK at most, which is the last packet
\* if it is a refusal, and messages.
SubackPending(q) ==
    /\ link => brk \in {"connected", "subscribe", "rejected", "subscribed"}
    /\ \A i \in 1..Len(q) : q[i].type \in {"SUBACK", "PUBLISH"}
    /\ \A i \in 1..Len(q) : q[i].type = "SUBACK" =>
         /\ link => brk = IF q[i].ok THEN "subscribed" ELSE "rejected"
         /\ \A j \in i + 1..Len(q) : q[j].type = "PUBLISH" /\ q[i].ok

\* Afterwards: messages only.
Granted(q) ==
    /\ link => brk = "subscribed"
    /\ \A i \in 1..Len(q) : q[i].type = "PUBLISH"

Phase ==
    /\ state \in {"INIT", "WAIT_CONNECT", "SUBACK", "RECEIVE"} => sending = "no"
    /\ state \in {"INIT", "CONNECT", "SUBSCRIBE", "PUBLISH"} => recvbuf = << >>
    /\ state = "CONNECT" /\ sending = "no" => Len(Queue) = 0 /\ (link => brk = "none")
    /\ state = "CONNECT" /\ sending # "no" => ConnackPending(Queue)
    /\ state = "WAIT_CONNECT" => ConnackPending(Queue)
    /\ state = "SUBSCRIBE" /\ sending = "no" => Len(Queue) = 0 /\ (link => brk = "connected")
    /\ state = "SUBSCRIBE" /\ sending # "no" => SubackPending(Queue)
    /\ state = "SUBACK" => SubackPending(Queue)
    /\ state \in {"RECEIVE", "PUBLISH"} => Granted(Queue)

IInv == TypeOK /\ Unbroken(Queue) /\ Phase
-----------------------------------------------------------------------------
\* What steps do to the queue: t is a stretch of q that starts after skip units.
Stretch(t, q, skip) ==
    /\ Len(t) + skip <= Len(q)
    /\ \A i \in 1..Len(t) : t[i] = q[i + skip]

\* A stretch of a queue is as harmless as the queue.
LEMMA StretchKeeps ==
    ASSUME NEW q \in Seq(Unit), NEW t \in Seq(Unit), NEW skip \in Nat,
           Stretch(t, q, skip)
    PROVE  /\ Unbroken(q) => Unbroken(t)
           /\ ConnackPending(q) => ConnackPending(t)
           /\ SubackPending(q) => SubackPending(t)
           /\ Granted(q) => Granted(t)
           /\ Len(q) = 0 => Len(t) = 0
  <1>1. Len(q) \in Nat /\ Len(t) \in Nat
    OBVIOUS
  <1>2. \A i \in 1..Len(t) : i + skip \in 1..Len(q) /\ t[i] = q[i + skip]
    BY <1>1 DEF Stretch
  <1>3. Unbroken(q) => Unbroken(t)
    BY <1>2 DEF Unbroken
  <1>4. ConnackPending(q) => ConnackPending(t)
    BY <1>1, <1>2 DEF ConnackPending, Stretch
  <1>5. ASSUME SubackPending(q)
        PROVE  SubackPending(t)
    <2>1. ASSUME NEW i \in 1..Len(t), t[i].type = "SUBACK"
          PROVE  /\ link => brk = IF t[i].ok THEN "subscribed" ELSE "rejected"
                 /\ \A j \in i + 1..Len(t) : t[j].type = "PUBLISH" /\ t[i].ok
      <3>1. /\ link => brk = IF q[i + skip].ok THEN "subscribed" ELSE "rejected"
            /\ \A j \in i + skip + 1..Len(q) :
                 q[j].type = "PUBLISH" /\ q[i + skip].ok
        BY <1>2, <1>5, <2>1 DEF SubackPending
      <3>2. \A j \in i + 1..Len(t) : j + skip \in i + skip + 1..Len(q) /\ j \in 1..Len(t)
        BY <1>1, <1>2
      <3>3. QED
        BY <1>2, <3>1, <3>2
    <2>2. QED
      BY <1>2, <1>5, <2>1 DEF SubackPending
  <1>6. Granted(q) => Granted(t)
    BY <1>2 DEF Granted
  <1>7. QED
    BY <1>1, <1>3, <1>4, <1>5, <1>6 DEF Stretch

\* Three sequences in a row, position by position.
LEMMA ThreeParts ==
    ASSUME NEW a \in Seq(Unit), NEW b \in Seq(Unit), NEW c \in Seq(Unit)
    PROVE  /\ a \o (b \o c) \in Seq(Unit)
           /\ Len(a \o (b \o c)) = Len(a) + (Len(b) + Len(c))
           /\ \A i \in 1..Len(a) : (a \o (b \o c))[i] = a[i]
           /\ \A i \in 1..Len(b) : (a \o (b \o c))[Len(a) + i] = b[i]
           /\ \A i \in 1..Len(c) : (a \o (b \o c))[Len(a) + (Len(b) + i)] = c[i]
  <1>1. PICK r \in Seq(Unit) : r = b \o c
    BY ConcatProperties
  <1>2. /\ Len(r) = Len(b) + Len(c)
        /\ \A i \in 1..Len(b) : r[i] = b[i]
        /\ \A i \in 1..Len(c) : r[Len(b) + i] = c[i]
    BY <1>1, ConcatProperties
  <1>3. /\ a \o r \in Seq(Unit) /\ Len(a \o r) = Len(a) + Len(r)
        /\ \A i \in 1..Len(a) : (a \o r)[i] = a[i]
        /\ \A i \in 1..Len(r) : (a \o r)[Len(a) + i] = r[i]
    BY ConcatProperties
  <1>4. \A i \in 1..Len(b) : i \in 1..Len(r)
    BY <1>2
  <1>5. \A i \in 1..Len(c) : Len(b) + i \in 1..Len(r)
    BY <1>2
  <1>6. QED
    BY <1>1, <1>2, <1>3, <1>4, <1>5

\* An AT command: with nothing in _recv_buf, at most the wire is left.
LEMMA FlushStep ==
    ASSUME TypeOK, TypeOK', recvbuf = << >>, recvbuf' = recvbuf, uart' = << >>,
           net' \in {net, << >>}
    PROVE  \E skip \in Nat : Stretch(Queue', Queue, skip)
  <1>1. /\ recvbuf \in Seq(Unit) /\ uart \in Seq(Unit) /\ net \in Seq(Unit)
        /\ recvbuf' \in Seq(Unit) /\ uart' \in Seq(Unit) /\ net' \in Seq(Unit)
    BY DEF TypeOK
  <1>2. /\ Len(Queue) = Len(uart) + Len(net) /\ Len(Queue') = Len(net')
        /\ \A i \in 1..Len(net) : Queue[Len(uart) + i] = net[i]
        /\ \A i \in 1..Len(net') : Queue'[i] = net'[i]
    <2>1. Len(recvbuf) = 0 /\ Len(recvbuf') = 0 /\ Len(uart') = 0
      BY EmptySeq
    <2>2. /\ Len(Queue) = 0 + (Len(uart) + Len(net))
          /\ \A i \in 1..Len(net) : Queue[0 + (Len(uart) + i)] = net[i]
      BY <1>1, <2>1, ThreeParts DEF Queue
    <2>3. /\ Len(Queue') = 0 + (0 + Len(net'))
          /\ \A i \in 1..Len(net') : Queue'[0 + (0 + i)] = net'[i]
      BY <1>1, <2>1, ThreeParts DEF Queue
    <2>4. QED
      BY <1>1, <2>2, <2>3
  <1>3. CASE net' = net
    <2>1. Stretch(Queue', Queue, Len(uart))
      BY <1>1, <1>2, <1>3 DEF Stretch
    <2>2. QED
      BY <1>1, <2>1
  <1>4. CASE net' = << >>
    <2>1. Stretch(Queue', Queue, 0)
      BY <1>1, <1>2, <1>4 DEF Stretch
    <2>2. QED
      BY <2>1
  <1>5. QED
    BY <1>3, <1>4

\* The end of the connection takes away the end of the queue.
LEMMA LossStep ==
    ASSUME TypeOK, TypeOK', recvbuf' = recvbuf, uart' = uart, net' = << >>
    PROVE  Stretch(Queue', Queue, 0)
  <1>1. /\ recvbuf \in Seq(Unit) /\ uart \in Seq(Unit) /\ net \in Seq(Unit)
        /\ net' \in Seq(Unit) /\ Len(net') = 0
    BY DEF TypeOK
  <1>2. /\ Len(Queue') = Len(recvbuf) + Len(uart)
        /\ Len(Queue) = Len(recvbuf) + (Len(uart) + Len(net))
    BY <1>1, ThreeParts DEF Queue
  <1>3. ASSUME NEW i \in 1..Len(Queue')
        PROVE  Queue'[i] = Queue[i]
    <2>1. CASE i \in 1..Len(recvbuf)
      BY <1>1, <2>1, ThreeParts DEF Queue
    <2>2. CASE i \notin 1..Len(recvbuf)
      <3> DEFINE k == i - Len(recvbuf)
      <3>1. k \in 1..Len(uart) /\ i = Len(recvbuf) + k
        BY <1>1, <1>2, <2>2
      <3> HIDE DEF k
      <3>2. QED
        BY <1>1, <3>1, ThreeParts DEF Queue
    <2>3. QED
      BY <2>1, <2>2
  <1>4. QED
    BY <1>1, <1>2, <1>3 DEF Stretch

\* A queue is its first unit followed by the others.
LEMMA HeadFirst ==
    ASSUME NEW s \in Seq(Unit), s # << >>
    PROVE  \E h \in Unit, t \in Seq(Unit) : h = Head(s) /\ t = Tail(s) /\ s = <<h>> \o t
  <1>1. PICK h \in Unit, t \in Seq(Unit) : h = Head(s) /\ t = Tail(s)
    BY HeadTailProperties
  <1>2. s = <<h>> \o t
    BY <1>1
  <1>3. QED
    BY <1>1, <1>2

\* A delivery moves the border between wire and ring, nothing else.
LEMMA DeliverStep ==
    ASSUME TypeOK, Deliver
    PROVE  Queue' = Queue
  <1>1. /\ recvbuf \in Seq(Unit) /\ uart \in Seq(Unit) /\ net \in Seq(Unit)
        /\ net # << >>
    BY DEF TypeOK, Deliver
  <1>2. PICK h \in Unit, t \in Seq(Unit) : h = Head(net) /\ t = Tail(net)
    BY <1>1, HeadTailProperties
  <1>3. net = <<h>> \o t
    BY <1>1, <1>2
  <1>4. uart' = uart \o <<h>> /\ net' = t /\ recvbuf' = recvbuf
    BY <1>1, <1>2, AppendIsConcat DEF Deliver
  <1>5. (uart \o <<h>>) \o t = uart \o (<<h>> \o t)
    <2>1. uart \in Seq(Unit) /\ <<h>> \in Seq(Unit) /\ t \in Seq(Unit)
      BY <1>1, <1>2
    <2> QED
      BY ONLY <2>1, ConcatAssociative
  <1>6. QED
    BY <1>3, <1>4, <1>5 DEF Queue

\* Reading takes the first unit.
LEMMA ReadStep ==
    ASSUME TypeOK, TypeOK', Available, Consume(<< >>), net' = net
    PROVE  /\ Len(Queue) > 0 /\ NextUnit = Queue[1]
           /\ Stretch(Queue', Queue, 1)
           /\ Len(Queue') = Len(Queue) - 1
  <1>1. /\ recvbuf \in Seq(Unit) /\ uart \in Seq(Unit) /\ net \in Seq(Unit)
    BY DEF TypeOK
  <1>2. Queue \in Seq(Unit) /\ Queue # << >> /\ Head(Queue) = NextUnit /\ Queue' = Tail(Queue)
    <2>1. CASE recvbuf # << >>
      <3>1. recvbuf' = Tail(recvbuf) /\ uart' = uart /\ NextUnit = Head(recvbuf)
        <4>1. Tail(recvbuf) \in Seq(Unit)
          BY <1>1, <2>1, HeadTailProperties
        <4>2. QED
          BY <2>1, <4>1, ConcatEmptySeq DEF Consume, NextUnit
      <3>2. PICK h \in Unit, t \in Seq(Unit) :
              h = Head(recvbuf) /\ t = Tail(recvbuf) /\ recvbuf = <<h>> \o t
        BY <1>1, <2>1, HeadFirst
      <3>3. PICK r \in Seq(Unit) : r = uart \o net
        BY <1>1, ConcatProperties
      <3>4. Queue = <<h>> \o (t \o r) /\ Queue' = t \o r
        <4>1. (<<h>> \o t) \o r = <<h>> \o (t \o r)
          <5>1. <<h>> \in Seq(Unit) /\ t \in Seq(Unit) /\ r \in Seq(Unit)
            BY <3>2, <3>3
          <5> QED
            BY ONLY <5>1, ConcatAssociative
        <4> QED
          BY <3>1, <3>2, <3>3, <4>1 DEF Queue
      <3>5. PICK w \in Seq(Unit) : w = t \o r
        BY <3>2, <3>3, ConcatProperties
      <3>6. <<h>> \o w \in Seq(Unit) /\ Head(<<h>> \o w) = h /\ Tail(<<h>> \o w) = w
            /\ <<h>> \o w # << >>
        BY <3>2, <3>5
      <3>7. QED
        BY <3>1, <3>2, <3>4, <3>5, <3>6
    <2>2. CASE recvbuf = << >>
      <3>1. uart # << >>
        BY <2>2 DEF Available
      <3>2. recvbuf' = Tail(uart) /\ uart' = << >> /\ NextUnit = Head(uart)
        <4>1. Tail(uart) \in Seq(Unit)
          BY <1>1, <3>1, HeadTailProperties
        <4>2. QED
          BY <2>2, <4>1, ConcatEmptySeq DEF Consume, NextUnit
      <3>3. PICK h \in Unit, t \in Seq(Unit) :
              h = Head(uart) /\ t = Tail(uart) /\ uart = <<h>> \o t
        BY <1>1, <3>1, HeadFirst
      <3>4. Queue = uart \o net
        <4>1. uart \o net \in Seq(Unit)
          BY <1>1, ConcatProperties
        <4>2. QED
          BY <2>2, <4>1, ConcatEmptySeq DEF Queue
      <3>5. Queue = <<h>> \o (t \o net) /\ Queue' = t \o net
        <4>1. (<<h>> \o t) \o net = <<h>> \o (t \o net)
          BY <1>1, <3>3, ConcatAssociative
        <4>2. << >> \o net = net
          BY <1>1, ConcatEmptySeq
        <4>3. QED
          BY <3>2, <3>3, <3>4, <4>1, <4>2 DEF Queue
      <3>6. PICK w \in Seq(Unit) : w = t \o net
        BY <1>1, <3>3, ConcatProperties
      <3>7. <<h>> \o w \in Seq(Unit) /\ Head(<<h>> \o w) = h /\ Tail(<<h>> \o w) = w
            /\ <<h>> \o w # << >>
        BY <3>3, <3>6
      <3>8. QED
        BY <3>2, <3>3, <3>5, <3>6, <3>7
    <2>3. QED
      BY <2>1, <2>2
  <1>3. Head(Queue) = Queue[1] /\ Len(Queue) > 0
    BY <1>2
  <1>4. /\ Len(Tail(Queue)) = Len(Queue) - 1
        /\ \A i \in 1..Len(Tail(Queue)) : Tail(Queue)[i] = Queue[i + 1]
    BY <1>2, HeadTailProperties
  <1>5. QED
    BY <1>2, <1>3, <1>4 DEF Stretch

\* What joins the end of the last part joins the end of the whole.
LEMMA JoinsEnd ==
    ASSUME NEW a \in Seq(Unit), NEW b \in Seq(Unit), NEW c \in Seq(Unit), NEW d \in Seq(Unit)
    PROVE  a \o (b \o (c \o d)) = (a \o (b \o c)) \o d
  <1>1. (b \o c) \o d = b \o (c \o d)
    BY ConcatAssociative
  <1>2. PICK r \in Seq(Unit) : r = b \o c
    BY ConcatProperties
  <1>3. (a \o r) \o d = a \o (r \o d)
    <2>1. a \in Seq(Unit) /\ r \in Seq(Unit) /\ d \in Seq(Unit)
      OBVIOUS
    <2> QED
      BY ONLY <2>1, ConcatAssociative
  <1>4. QED
    BY <1>1, <1>2, <1>3, Zenon

\* A whole packet from the broker joins the end.
LEMMA AnswerStep ==
    ASSUME TypeOK, ~Fragmented, NEW type \in Types, NEW ok \in BOOLEAN,
           NEW id \in 0..MaxMsgs, Answer(type, ok, id),
           recvbuf' = recvbuf, uart' = uart
    PROVE  \E u \in Unit : /\ u.type = type /\ u.ok = ok /\ u.part = "whole"
                           /\ u.sess = sess /\ u.id = id
                           /\ Queue' = Append(Queue, u)
  <1> DEFINE u == [type |-> type, ok |-> ok, sess |-> sess, id |-> id, part |-> "whole"]
  <1>1. u \in Unit
    BY DEF Unit, TypeOK
  <1>2. net' = net \o <<u>>
    BY DEF Answer, Pieces
  <1> HIDE DEF u
  <1>3. recvbuf \in Seq(Unit) /\ uart \in Seq(Unit) /\ net \in Seq(Unit) /\ <<u>> \in Seq(Unit)
    BY <1>1 DEF TypeOK
  <1>4. Queue' = recvbuf \o (uart \o (net \o <<u>>))
    BY <1>2 DEF Queue
  <1>5. recvbuf \o (uart \o (net \o <<u>>)) = Queue \o <<u>>
    BY ONLY <1>3, JoinsEnd DEF Queue
  <1>6. Queue' = Queue \o <<u>>
    BY <1>4, <1>5
  <1>7. Queue \in Seq(Unit)
    BY <1>3, ThreeParts DEF Queue
  <1>8. Queue' = Append(Queue, u)
    BY <1>1, <1>6, <1>7, AppendIsConcat
  <1>9. u.type = type /\ u.ok = ok /\ u.part = "whole" /\ u.sess = sess /\ u.id = id
    BY DEF u
  <1>10. QED
    BY <1>1, <1>8, <1>9

LEMMA PublishStep ==
    ASSUME TypeOK, ~Fragmented, BrokerPublish
    PROVE  \E u \in Unit : /\ u.type = "PUBLISH" /\ u.part = "whole"
                           /\ u.sess = sess /\ u.id = sent + 1
                           /\ Queue' = Append(Queue, u)
  <1> DEFINE id == sent + 1
  <1>1. id \in 0..MaxMsgs
    BY PublisherAssumption DEF BrokerPublish, TypeOK, PublisherAssumption
  <1>2. PICK ok \in BOOLEAN : Answer("PUBLISH", ok, id)
    BY DEF BrokerPublish
  <1> HIDE DEF id
  <1>3. recvbuf' = recvbuf /\ uart' = uart /\ "PUBLISH" \in Types
    BY DEF BrokerPublish, device, Types
  <1>4. PICK u \in Unit : /\ u.type = "PUBLISH" /\ u.part = "whole"
                          /\ u.sess = sess /\ u.id = id /\ Queue' = Append(Queue, u)
    BY <1>1, <1>2, <1>3, AnswerStep
  <1>5. QED
    BY <1>4 DEF id
-----------------------------------------------------------------------------
\* What is read first is the head of the queue.
LEMMA NextIsFirst ==
    ASSUME TypeOK, Available
    PROVE  Len(Queue) > 0 /\ NextUnit = Queue[1] /\ NextUnit \in Unit
  <1>1. recvbuf \in Seq(Unit) /\ uart \in Seq(Unit) /\ net \in Seq(Unit)
    BY DEF TypeOK
  <1>2. CASE recvbuf # << >>
    <2>1. Len(recvbuf) > 0 /\ NextUnit = recvbuf[1] /\ recvbuf[1] \in Unit
      BY <1>1, <1>2 DEF NextUnit
    <2>2. QED
      BY <1>1, <2>1, ThreeParts DEF Queue
  <1>3. CASE recvbuf = << >>
    <2>1. Len(recvbuf) = 0 /\ Len(uart) > 0 /\ NextUnit = uart[1] /\ uart[1] \in Unit
      BY <1>1, <1>3 DEF NextUnit, Available
    <2>2. Queue[0 + 1] = uart[1] /\ Len(Queue) = 0 + (Len(uart) + Len(net))
      BY <1>1, <2>1, ThreeParts DEF Queue
    <2>3. QED
      BY <1>1, <2>1, <2>2
  <1>4. QED
    BY <1>2, <1>3

\* Whole packets are read whole.
LEMMA ReadWhole ==
    ASSUME TypeOK, Unbroken(Queue), Available, NEW o \in Outcomes(NextUnit)
    PROVE  /\ o.res = Queue[1].type /\ o.buf = PacketOf(Queue[1])
           /\ o.buf.ok = Queue[1].ok /\ o.trp = "header" /\ o.left = << >>
  <1>1. NextUnit = Queue[1] /\ NextUnit.part = "whole" /\ trp = "header"
    <2>1. Len(Queue) \in Nat
      <3>1. recvbuf \in Seq(Unit) /\ uart \in Seq(Unit) /\ net \in Seq(Unit)
        BY DEF TypeOK
      <3>2. QED
        BY <3>1, ThreeParts DEF Queue
    <2>2. QED
      BY <2>1, NextIsFirst DEF Unbroken
  <1>2. o = [res |-> NextUnit.type, trp |-> "header", buf |-> PacketOf(NextUnit),
             left |-> << >>]
    BY <1>1 DEF Outcomes
  <1>3. QED
    BY <1>1, <1>2 DEF PacketOf

\* With nothing on the ring, the wire or in _recv_buf the queue is empty.
LEMMA NothingQueued ==
    ASSUME recvbuf = << >>, uart = << >>, net = << >>
    PROVE  Len(Queue) = 0
  <1>1. << >> \in Seq(Unit) /\ Len(<< >>) = 0
    BY EmptySeq
  <1>2. QED
    BY <1>1, ThreeParts DEF Queue

LEMMA QueueType ==
    ASSUME TypeOK
    PROVE  Queue \in Seq(Unit) /\ Len(Queue) \in Nat
  <1>1. recvbuf \in Seq(Unit) /\ uart \in Seq(Unit) /\ net \in Seq(Unit)
    BY DEF TypeOK
  <1>2. QED
    BY <1>1, ThreeParts DEF Queue

\* The strengthening holds at power-up.
LEMMA InitPhase == Init => IInv
  <1> SUFFICES ASSUME Init PROVE IInv
    OBVIOUS
  <1>1. Len(Queue) = 0
    BY NothingQueued DEF Init
  <1>2. QED
    BY <1>1, InitTypes DEF Init, IInv, Unbroken, Phase
\* An AT command in a state that has emptied _recv_buf: whatever the queue
\* satisfied, what is left of it satisfies.
LEMMA FlushKeeps ==
    ASSUME TypeOK, TypeOK', Unbroken(Queue), recvbuf = << >>, recvbuf' = recvbuf,
           uart' = << >>, net' \in {net, << >>}, trp' \in {trp, "header"}
    PROVE  /\ Unbroken(Queue)'
           /\ ConnackPending(Queue) => ConnackPending(Queue')
           /\ SubackPending(Queue) => SubackPending(Queue')
           /\ Granted(Queue) => Granted(Queue')
           /\ Len(Queue) = 0 => Len(Queue') = 0
           /\ Len(Queue') \in Nat
  <1>1. PICK skip \in Nat : Stretch(Queue', Queue, skip)
    BY FlushStep
  <1>2. Queue \in Seq(Unit) /\ Queue' \in Seq(Unit) /\ Len(Queue') \in Nat
    <2>1. /\ recvbuf \in Seq(Unit) /\ uart \in Seq(Unit) /\ net \in Seq(Unit)
          /\ recvbuf' \in Seq(Unit) /\ uart' \in Seq(Unit) /\ net' \in Seq(Unit)
      BY DEF TypeOK
    <2>2. QED
      BY <2>1, ThreeParts DEF Queue
  <1>3. /\ Unbroken(Queue')
        /\ ConnackPending(Queue) => ConnackPending(Queue')
        /\ SubackPending(Queue) => SubackPending(Queue')
        /\ Granted(Queue) => Granted(Queue')
        /\ Len(Queue) = 0 => Len(Queue') = 0
    BY <1>1, <1>2, StretchKeeps
  <1>4. Unbroken(Queue)'
    BY <1>3 DEF Unbroken
  <1>5. QED
    BY <1>2, <1>3, <1>4

\* A read step of the task, whatever the state: the head of the queue goes.
LEMMA ReadKeeps ==
    ASSUME TypeOK, TypeOK', Unbroken(Queue), Available, NEW o \in Outcomes(NextUnit),
           trp' = o.trp, Consume(o.left), net' = net
    PROVE  /\ o.res = Queue[1].type /\ o.buf.ok = Queue[1].ok /\ 1 \in 1..Len(Queue)
           /\ Len(Queue') = Len(Queue) - 1
           /\ \A i \in 1..Len(Queue') : i + 1 \in 1..Len(Queue) /\ Queue'[i] = Queue[i + 1]
           /\ Unbroken(Queue)'
           /\ ConnackPending(Queue) => ConnackPending(Queue')
           /\ SubackPending(Queue) => SubackPending(Queue')
           /\ Granted(Queue) => Granted(Queue')
  <1>1. /\ o.res = Queue[1].type /\ o.buf.ok = Queue[1].ok
        /\ o.trp = "header" /\ o.left = << >>
    BY ReadWhole
  <1>2. /\ Len(Queue) > 0 /\ Stretch(Queue', Queue, 1) /\ Len(Queue') = Len(Queue) - 1
    BY <1>1, ReadStep
  <1>3. Queue \in Seq(Unit) /\ Queue' \in Seq(Unit)
    <2>1. /\ recvbuf \in Seq(Unit) /\ uart \in Seq(Unit) /\ net \in Seq(Unit)
          /\ recvbuf' \in Seq(Unit) /\ uart' \in Seq(Unit) /\ net' \in Seq(Unit)
      BY DEF TypeOK
    <2>2. QED
      BY <2>1, ThreeParts DEF Queue
  <1>4. /\ Unbroken(Queue')
        /\ ConnackPending(Queue) => ConnackPending(Queue')
        /\ SubackPending(Queue) => SubackPending(Queue')
        /\ Granted(Queue) => Granted(Queue')
    BY <1>2, <1>3, StretchKeeps
  <1>5. Unbroken(Queue)'
    BY <1>1, <1>4 DEF Unbroken
  <1>6. QED
    BY <1>1, <1>2, <1>3, <1>4, <1>5 DEF Stretch

\* Every action of the task respects the phases.
LEMMA TaskPhase ==
    ASSUME IInv, TypeOK', Task
    PROVE  Unbroken(Queue)' /\ Phase'
  <1> USE DEF IInv
  <1>1. CASE StateInit
    <2>1. /\ state = "INIT" /\ sending = "no" /\ sending' = "no"
          /\ recvbuf = << >> /\ recvbuf' = recvbuf /\ uart' = << >> /\ trp' = trp
      BY <1>1 DEF StateInit, FlushRx, Phase
    <2>2. PICK closed, opened, reported \in BOOLEAN :
             /\ opened => closed
             /\ reported => opened
             /\ brk'  = IF closed THEN "none" ELSE brk
             /\ net'  = IF closed THEN << >> ELSE net
             /\ state' = IF reported THEN "CONNECT" ELSE "INIT"
      BY <1>1 DEF StateInit
    <2>3. Unbroken(Queue)'
      BY <2>1, <2>2, FlushKeeps
    <2>4. state' = "CONNECT" => Len(Queue') = 0 /\ brk' = "none"
      <3>1. << >> \in Seq(Unit) /\ Len(<< >>) = 0
        BY EmptySeq
      <3>2. QED
        BY <2>1, <2>2, <3>1, ThreeParts DEF Queue
    <2>5. QED
      BY <2>1, <2>2, <2>3, <2>4 DEF Phase
  <1>2. CASE Connect
    <2>1. /\ state = "CONNECT" /\ sending = "no" /\ sending' # "no" /\ state' = "CONNECT"
          /\ recvbuf = << >> /\ recvbuf' = recvbuf /\ uart' = << >> /\ net' = net
          /\ link' = link /\ trp' = "header"
          /\ Len(Queue) = 0 /\ (link => brk = "none")
      BY <1>2 DEF Connect, Send, FlushRx, Phase
    <2>2. link' => brk' \in {"none", "connect"}
      BY <1>2, <2>1 DEF Connect, Send
    <2>3. Len(Queue') = 0 /\ Unbroken(Queue)'
      BY <2>1, FlushKeeps
    <2>4. ConnackPending(Queue)'
      BY <2>2, <2>3 DEF ConnackPending
    <2>5. QED
      BY <2>1, <2>3, <2>4 DEF Phase
  <1>3. CASE ConnectDone
    <2>1. /\ state = "CONNECT" /\ sending # "no" /\ sending' = "no"
          /\ state' \in {"WAIT_CONNECT", "INIT"}
          /\ recvbuf = << >> /\ recvbuf' = recvbuf /\ uart' = << >> /\ net' = net
          /\ link' = link /\ brk' = brk /\ trp' = trp
          /\ ConnackPending(Queue)
      BY <1>3 DEF ConnectDone, Sent, FlushRx, Phase, broker
    <2>2. ConnackPending(Queue') /\ Unbroken(Queue)'
      BY <2>1, FlushKeeps
    <2>3. ConnackPending(Queue)'
      BY <2>1, <2>2 DEF ConnackPending
    <2>4. QED
      BY <2>1, <2>2, <2>3 DEF Phase
  <1>4. CASE Subscribe
    <2>1. /\ state = "SUBSCRIBE" /\ sending = "no" /\ sending' # "no" /\ state' = "SUBSCRIBE"
          /\ recvbuf = << >> /\ recvbuf' = recvbuf /\ uart' = << >> /\ net' = net
          /\ link' = link /\ trp' = trp
          /\ Len(Queue) = 0 /\ (link => brk = "connected")
      BY <1>4 DEF Subscribe, Send, FlushRx, Phase
    <2>2. link' => brk' \in {"connected", "subscribe"}
      BY <1>4, <2>1 DEF Subscribe, Send
    <2>3. Len(Queue') = 0 /\ Unbroken(Queue)'
      BY <2>1, FlushKeeps
    <2>4. SubackPending(Queue)'
      BY <2>2, <2>3 DEF SubackPending
    <2>5. QED
      BY <2>1, <2>3, <2>4 DEF Phase
  <1>5. CASE SubscribeDone
    <2>1. /\ state = "SUBSCRIBE" /\ sending # "no" /\ sending' = "no"
          /\ state' \in {"SUBACK", "INIT"}
          /\ recvbuf = << >> /\ recvbuf' = recvbuf /\ uart' = << >> /\ net' = net
          /\ link' = link /\ brk' = brk /\ trp' = trp
          /\ SubackPending(Queue)
      BY <1>5 DEF SubscribeDone, Sent, FlushRx, Phase, broker
    <2>2. SubackPending(Queue') /\ Unbroken(Queue)'
      BY <2>1, FlushKeeps
    <2>3. SubackPending(Queue)'
      BY <2>1, <2>2 DEF SubackPending
    <2>4. QED
      BY <2>1, <2>2, <2>3 DEF Phase
  <1>6. CASE Publish
    <2>1. /\ state = "PUBLISH" /\ sending = "no" /\ state' = "PUBLISH"
          /\ recvbuf = << >> /\ recvbuf' = recvbuf /\ uart' = << >> /\ net' = net
          /\ link' = link /\ brk' = brk /\ trp' = trp
          /\ Granted(Queue)
      BY <1>6 DEF Publish, Send, FlushRx, Phase
    <2>2. Granted(Queue') /\ Unbroken(Queue)'
      BY <2>1, FlushKeeps
    <2>3. Granted(Queue)'
      BY <2>1, <2>2 DEF Granted
    <2>4. QED
      BY <2>1, <2>2, <2>3 DEF Phase
  <1>7. CASE PublishDone
    <2>1. /\ state = "PUBLISH" /\ sending' = "no" /\ state' \in {"RECEIVE", "INIT"}
          /\ recvbuf = << >> /\ recvbuf' = recvbuf /\ uart' = << >> /\ net' = net
          /\ link' = link /\ brk' = brk /\ trp' = trp
          /\ Granted(Queue)
      BY <1>7 DEF PublishDone, Sent, FlushRx, Phase, broker
    <2>2. Granted(Queue') /\ Unbroken(Queue)'
      BY <2>1, FlushKeeps
    <2>3. Granted(Queue)'
      BY <2>1, <2>2 DEF Granted
    <2>4. QED
      BY <2>1, <2>2, <2>3 DEF Phase
  <1>8. CASE NotDue
    <2>1. /\ state = "PUBLISH" /\ sending' = "no" /\ state' = "RECEIVE"
          /\ Granted(Queue) /\ Queue' = Queue /\ trp' = trp /\ link' = link /\ brk' = brk
      BY <1>8 DEF NotDue, Phase, broker, Queue
    <2>2. Granted(Queue)' /\ Unbroken(Queue)'
      BY <2>1 DEF Granted, Unbroken
    <2>3. QED
      BY <2>1, <2>2 DEF Phase
  <1>9. CASE ReadNothing
    <2>1. /\ state \in {"WAIT_CONNECT", "SUBACK", "RECEIVE"} /\ sending = "no"
          /\ recvbuf' = << >> /\ sending' = sending
          /\ Queue' = Queue /\ trp' = trp /\ link' = link /\ brk' = brk
          /\ \/ state' = state
             \/ state = "RECEIVE" /\ state' = "PUBLISH"
      BY <1>9 DEF ReadNothing, Phase, broker, Queue, Available
    <2>2. /\ Unbroken(Queue)'
          /\ ConnackPending(Queue) => ConnackPending(Queue)'
          /\ SubackPending(Queue) => SubackPending(Queue)'
          /\ Granted(Queue) => Granted(Queue)'
      BY <2>1 DEF Unbroken, ConnackPending, SubackPending, Granted
    <2>3. QED
      BY <2>1, <2>2 DEF Phase
  <1>10. CASE ReadConnack
    <2>1. PICK o \in Outcomes(NextUnit) :
             /\ state = "WAIT_CONNECT" /\ Available
             /\ trp' = o.trp /\ Consume(o.left) /\ OnConnack(o.res, o.buf)
             /\ UNCHANGED <<sending, link, brk, net>>
      BY <1>10 DEF ReadConnack, Read, Results, broker
    <2>2. /\ o.res = Queue[1].type /\ o.buf.ok = Queue[1].ok /\ 1 \in 1..Len(Queue)
          /\ Len(Queue') = Len(Queue) - 1 /\ Unbroken(Queue)'
      BY <2>1, ReadKeeps
    <2>3. ConnackPending(Queue) /\ sending = "no"
      BY <2>1 DEF Phase
    <2>4. Len(Queue') = 0 /\ Queue[1].type = "CONNACK" /\ Len(Queue) \in Nat
      BY <2>2, <2>3, QueueType DEF ConnackPending
    <2>5. /\ state' \in {"SUBSCRIBE", "INIT"}
          /\ state' = "SUBSCRIBE" /\ link => brk = "connected"
      BY <2>1, <2>2, <2>3, <2>4 DEF OnConnack, ConnackPending
    <2>6. recvbuf' = << >>
      <3>1. /\ recvbuf' \in Seq(Unit) /\ uart' \in Seq(Unit) /\ net' \in Seq(Unit)
        BY DEF TypeOK
      <3>2. 0 = Len(recvbuf') + (Len(uart') + Len(net'))
        BY <2>4, <3>1, ThreeParts DEF Queue
      <3>3. Len(recvbuf') = 0
        BY <3>1, <3>2
      <3>4. QED
        BY <3>1, <3>3
    <2>7. QED
      BY <2>1, <2>2, <2>3, <2>4, <2>5, <2>6 DEF Phase
  <1>11. CASE ReadSuback
    <2>1. PICK o \in Outcomes(NextUnit) :
             /\ state = "SUBACK" /\ Available
             /\ trp' = o.trp /\ Consume(o.left) /\ OnSuback(o.res, o.buf)
             /\ UNCHANGED <<sending, link, brk, net>>
      BY <1>11 DEF ReadSuback, Read, Results, broker
    <2>2. SubackPending(Queue) /\ sending = "no"
      BY <2>1 DEF Phase
    <2>3. /\ o.res = Queue[1].type /\ o.buf.ok = Queue[1].ok /\ 1 \in 1..Len(Queue)
          /\ Len(Queue') = Len(Queue) - 1 /\ Unbroken(Queue)'
          /\ \A i \in 1..Len(Queue') : i + 1 \in 1..Len(Queue) /\ Queue'[i] = Queue[i + 1]
          /\ SubackPending(Queue')
      BY <2>1, <2>2, ReadKeeps
    <2>4. SubackPending(Queue)'
      BY <2>1, <2>3 DEF SubackPending
    <2>5. /\ state' \in {"SUBACK", "RECEIVE", "INIT"}
          /\ state' # "SUBACK" => Queue[1].type = "SUBACK"
          /\ state' = "RECEIVE" => Queue[1].ok
          /\ state' = "INIT" => ~Queue[1].ok
      BY <2>1, <2>2, <2>3 DEF OnSuback, SubackPending
    <2>6. CASE state' = "SUBACK"
      BY <2>1, <2>2, <2>3, <2>4, <2>6 DEF Phase
    <2>7. CASE state' = "RECEIVE"
      <3>1. link => brk = "subscribed"
        BY <2>2, <2>3, <2>5, <2>7 DEF SubackPending
      <3>2. \A j \in 1 + 1..Len(Queue) : Queue[j].type = "PUBLISH"
        BY <2>2, <2>3, <2>5, <2>7 DEF SubackPending
      <3>3. \A i \in 1..Len(Queue') : i + 1 \in 1 + 1..Len(Queue)
        BY <2>3, QueueType
      <3>4. Granted(Queue)'
        BY <2>1, <2>3, <3>1, <3>2, <3>3 DEF Granted
      <3>5. QED
        BY <2>1, <2>2, <2>3, <2>7, <3>4 DEF Phase
    <2>8. CASE state' = "INIT"
      <3>1. \A j \in 1 + 1..Len(Queue) : Queue[1].ok
        BY <2>2, <2>3, <2>5, <2>8 DEF SubackPending
      <3>2. Len(Queue) = 1 /\ Len(Queue') = 0
        BY <2>3, <2>5, <2>8, <3>1, QueueType
      <3>3. recvbuf' = << >>
        <4>1. /\ recvbuf' \in Seq(Unit) /\ uart' \in Seq(Unit) /\ net' \in Seq(Unit)
          BY DEF TypeOK
        <4>2. 0 = Len(recvbuf') + (Len(uart') + Len(net'))
          BY <3>2, <4>1, ThreeParts DEF Queue
        <4>3. Len(recvbuf') = 0
          BY <4>1, <4>2
        <4>4. QED
          BY <4>1, <4>3
      <3>4. QED
        BY <2>1, <2>2, <2>3, <2>8, <3>3 DEF Phase
    <2>9. QED
      BY <2>5, <2>6, <2>7, <2>8
  <1>12. CASE ReadMessage
    <2>1. PICK o \in Outcomes(NextUnit) :
             /\ state = "RECEIVE" /\ Available
             /\ trp' = o.trp /\ Consume(o.left) /\ OnMessage(o.res, o.buf)
             /\ UNCHANGED <<sending, link, brk, net>>
      BY <1>12 DEF ReadMessage, Read, Results, broker
    <2>2. Granted(Queue) /\ sending = "no"
      BY <2>1 DEF Phase
    <2>3. /\ o.res = Queue[1].type /\ 1 \in 1..Len(Queue)
          /\ Unbroken(Queue)' /\ Granted(Queue')
      BY <2>1, <2>2, ReadKeeps
    <2>4. state' = "RECEIVE"
      BY <2>1, <2>2, <2>3 DEF OnMessage, Granted
    <2>5. Granted(Queue)'
      BY <2>1, <2>3 DEF Granted
    <2>6. QED
      BY <2>1, <2>2, <2>3, <2>4, <2>5 DEF Phase
  <1>13. QED
    BY <1>1, <1>2, <1>3, <1>4, <1>5, <1>6, <1>7, <1>8, <1>9, <1>10, <1>11, <1>12
       DEF Task

\* Nor does anything else disturb them: the broker answers only what it was
\* asked, and only once.
LEMMA EnvironmentPhase ==
    ASSUME IInv, TypeOK', ~Fragmented, Environment
    PROVE  Unbroken(Queue)' /\ Phase'
  <1> USE DEF IInv
  <1>1. state' = state /\ sending' = sending /\ trp' = trp /\ recvbuf' = recvbuf
    BY DEF Environment, BrokerConnack, BrokerSuback, BrokerPublish, Deliver, LinkLost,
           device
  <1>2. Queue \in Seq(Unit) /\ Len(Queue) \in Nat
    BY QueueType
  <1>3. ASSUME NEW u \in Unit, u.part = "whole", Queue' = Append(Queue, u)
        PROVE  /\ Len(Queue') = Len(Queue) + 1
               /\ \A i \in 1..Len(Queue) : Queue'[i] = Queue[i]
               /\ Queue'[Len(Queue) + 1] = u
               /\ \A i \in 1..Len(Queue') : i \in 1..Len(Queue) \/ i = Len(Queue) + 1
               /\ Unbroken(Queue)'
    <2>1. /\ Len(Queue') = Len(Queue) + 1
          /\ \A i \in 1..Len(Queue) : Queue'[i] = Queue[i]
          /\ Queue'[Len(Queue) + 1] = u
      BY <1>2, <1>3, AppendProperties
    <2>2. \A i \in 1..Len(Queue') : i \in 1..Len(Queue) \/ i = Len(Queue) + 1
      BY <1>2, <2>1
    <2>3. Unbroken(Queue)'
      BY <1>1, <1>3, <2>1, <2>2 DEF Unbroken
    <2>4. QED
      BY <2>1, <2>2, <2>3
  <1>4. CASE BrokerConnack
    <2>1. PICK ok \in BOOLEAN : /\ Answer("CONNACK", ok, 0)
                                /\ brk' = IF ok THEN "connected" ELSE "refused"
      BY <1>4 DEF BrokerConnack
    <2>2. PICK u \in Unit : /\ u.type = "CONNACK" /\ u.ok = ok /\ u.part = "whole"
                            /\ Queue' = Append(Queue, u)
      BY <1>4, <2>1, AnswerStep, PublisherAssumption DEF BrokerConnack, device, Types
    <2>3. link /\ link' = link /\ brk = "connect"
      BY <1>4 DEF BrokerConnack
    <2>4. /\ state \in {"INIT", "CONNECT", "WAIT_CONNECT"}
          /\ state # "INIT" => ConnackPending(Queue)
          /\ state = "CONNECT" => sending # "no"
      BY <2>3 DEF Phase, SubackPending, Granted, TypeOK, States
    <2>5. state # "INIT" => ConnackPending(Queue)'
      <3>1. ASSUME state # "INIT" PROVE Len(Queue) = 0
        BY <1>2, <2>3, <2>4, <3>1 DEF ConnackPending
      <3>2. QED
        BY <1>2, <1>3, <2>1, <2>2, <2>3, <3>1 DEF ConnackPending
    <2>6. QED
      BY <1>1, <1>3, <2>2, <2>4, <2>5 DEF Phase
  <1>5. CASE BrokerSuback
    <2>1. PICK ok \in BOOLEAN : /\ Answer("SUBACK", ok, 0)
                                /\ brk' = IF ok THEN "subscribed" ELSE "rejected"
      BY <1>5 DEF BrokerSuback
    <2>2. PICK u \in Unit : /\ u.type = "SUBACK" /\ u.ok = ok /\ u.part = "whole"
                            /\ Queue' = Append(Queue, u)
      BY <1>5, <2>1, AnswerStep, PublisherAssumption DEF BrokerSuback, device, Types
    <2>3. link /\ link' = link /\ brk = "subscribe"
      BY <1>5 DEF BrokerSuback
    <2>4. /\ state \in {"INIT", "SUBSCRIBE", "SUBACK"}
          /\ state # "INIT" => SubackPending(Queue)
          /\ state = "SUBSCRIBE" => sending # "no"
      BY <2>3 DEF Phase, ConnackPending, Granted, TypeOK, States
    <2>5. state # "INIT" => SubackPending(Queue)'
      <3>1. ASSUME state # "INIT", NEW i \in 1..Len(Queue)
            PROVE  Queue'[i].type = "PUBLISH"
        BY <1>3, <2>2, <2>3, <2>4, <3>1 DEF SubackPending
      <3>2. \A i \in 1..Len(Queue') : i < Len(Queue) + 1 => i \in 1..Len(Queue)
        BY <1>2, <1>3, <2>2
      <3>3. QED
        BY <1>2, <1>3, <2>1, <2>2, <3>1, <3>2 DEF SubackPending
    <2>6. QED
      BY <1>1, <1>3, <2>2, <2>4, <2>5 DEF Phase
  <1>6. CASE BrokerPublish
    <2>1. PICK u \in Unit : /\ u.type = "PUBLISH" /\ u.part = "whole"
                            /\ Queue' = Append(Queue, u)
      BY <1>6, PublishStep
    <2>2. link /\ link' = link /\ brk \in {"subscribe", "subscribed"} /\ brk' = brk
      BY <1>6 DEF BrokerPublish
    <2>3. /\ state \in {"INIT", "SUBSCRIBE", "SUBACK", "RECEIVE", "PUBLISH"}
          /\ state \in {"SUBSCRIBE", "SUBACK"} => SubackPending(Queue)
          /\ state = "SUBSCRIBE" => sending # "no"
          /\ state \in {"RECEIVE", "PUBLISH"} => Granted(Queue)
      BY <2>2 DEF Phase, ConnackPending, TypeOK, States
    <2>4. Granted(Queue) => Granted(Queue)'
      BY <1>3, <2>1, <2>2 DEF Granted
    <2>5. SubackPending(Queue) => SubackPending(Queue)'
      <3> SUFFICES ASSUME SubackPending(Queue) PROVE SubackPending(Queue)'
        OBVIOUS
      <3>1. \A i \in 1..Len(Queue') : Queue'[i].type \in {"SUBACK", "PUBLISH"}
        BY <1>3, <2>1 DEF SubackPending
      <3>2. ASSUME NEW i \in 1..Len(Queue'), Queue'[i].type = "SUBACK"
            PROVE  /\ brk = IF Queue'[i].ok THEN "subscribed" ELSE "rejected"
                   /\ \A j \in i + 1..Len(Queue') : Queue'[j].type = "PUBLISH" /\ Queue'[i].ok
        <4>1. i \in 1..Len(Queue) /\ Queue'[i] = Queue[i]
          BY <1>3, <2>1, <3>2
        <4>2. brk = IF Queue[i].ok THEN "subscribed" ELSE "rejected"
          BY <2>2, <3>2, <4>1 DEF SubackPending
        <4>3. Queue[i].ok
          BY <2>2, <4>2
        <4>4. ASSUME NEW j \in i + 1..Len(Queue')
              PROVE  Queue'[j].type = "PUBLISH"
          <5>1. CASE j = Len(Queue) + 1
            BY <1>3, <2>1, <5>1
          <5>2. CASE j # Len(Queue) + 1
            <6>1. j \in i + 1..Len(Queue) /\ j \in 1..Len(Queue)
              BY <1>2, <1>3, <2>1, <4>1, <5>2
            <6>2. QED
              BY <1>3, <2>1, <3>2, <4>1, <6>1 DEF SubackPending
          <5>3. QED
            BY <5>1, <5>2
        <4>5. QED
          BY <4>1, <4>2, <4>3, <4>4
      <3>3. QED
        BY <2>2, <3>1, <3>2 DEF SubackPending
    <2>6. QED
      BY <1>1, <1>3, <2>1, <2>3, <2>4, <2>5 DEF Phase
  <1>7. CASE Deliver
    <2>1. Queue' = Queue /\ link' = link /\ brk' = brk
      BY <1>7, DeliverStep DEF Deliver
    <2>2. /\ Unbroken(Queue)'
          /\ ConnackPending(Queue) => ConnackPending(Queue)'
          /\ SubackPending(Queue) => SubackPending(Queue)'
          /\ Granted(Queue) => Granted(Queue)'
      BY <1>1, <2>1 DEF Unbroken, ConnackPending, SubackPending, Granted
    <2>3. QED
      BY <1>1, <2>1, <2>2 DEF Phase
  <1>8. CASE LinkLost
    <2>1. link' = FALSE /\ uart' = uart /\ net' = << >>
      BY <1>8 DEF LinkLost, device
    <2>2. Stretch(Queue', Queue, 0)
      BY <1>1, <2>1, LossStep
    <2>3. Queue' \in Seq(Unit) /\ Len(Queue') \in Nat
      <3>1. /\ recvbuf' \in Seq(Unit) /\ uart' \in Seq(Unit) /\ net' \in Seq(Unit)
        BY DEF TypeOK
      <3>2. QED
        BY <3>1, ThreeParts DEF Queue
    <2>4. /\ Unbroken(Queue')
          /\ ConnackPending(Queue) => ConnackPending(Queue')
          /\ SubackPending(Queue) => SubackPending(Queue')
          /\ Granted(Queue) => Granted(Queue')
          /\ Len(Queue) = 0 => Len(Queue') = 0
      BY <1>2, <2>2, <2>3, StretchKeeps
    <2>5. /\ Unbroken(Queue)'
          /\ ConnackPending(Queue) => ConnackPending(Queue)'
          /\ SubackPending(Queue) => SubackPending(Queue)'
          /\ Granted(Queue) => Granted(Queue)'
      BY <1>1, <2>1, <2>4 DEF Unbroken, ConnackPending, SubackPending, Granted
    <2>6. QED
      BY <1>1, <2>1, <2>4, <2>5 DEF Phase
  <1>9. QED
    BY <1>4, <1>5, <1>6, <1>7, <1>8 DEF Environment

\* Every step of the specification respects the phases.
LEMMA StepPhase ==
    ASSUME ~Fragmented
    PROVE  IInv /\ [Next]_vars => IInv'
  <1> SUFFICES ASSUME IInv, [Next]_vars PROVE IInv'
    OBVIOUS
  <1>1. TypeOK'
    BY StepTypes DEF IInv
  <1>2. CASE Task
    BY <1>1, <1>2, TaskPhase DEF IInv
  <1>3. CASE Environment
    BY <1>1, <1>3, EnvironmentPhase DEF IInv
  <1>4. CASE Tick \/ UNCHANGED vars
    <2>1. /\ state' = state /\ sending' = sending /\ trp' = trp /\ recvbuf' = recvbuf
          /\ link' = link /\ brk' = brk /\ Queue' = Queue
      BY <1>4 DEF Tick, vars, device, broker, Queue
    <2>2. /\ Unbroken(Queue) => Unbroken(Queue)'
          /\ ConnackPending(Queue) => ConnackPending(Queue)'
          /\ SubackPending(Queue) => SubackPending(Queue)'
          /\ Granted(Queue) => Granted(Queue)'
      BY <2>1 DEF Unbroken, ConnackPending, SubackPending, Granted
    <2>3. QED
      BY <1>1, <2>1, <2>2 DEF IInv, Phase
  <1>5. QED
    BY <1>2, <1>3, <1>4 DEF Next

\* With whole packets the strengthening is an invariant.
LEMMA Invariance ==
    ASSUME ~Fragmented
    PROVE  Spec => []IInv
  BY InitPhase, StepPhase, PTL DEF Spec
-----------------------------------------------------------------------------
(* The order of messages: q holds messages of connection s only, their       *)
(* numbers grow from its head to its end, the last one shown was an earlier  *)
(* one, and max is the last one published.                                   *)
InOrder(q, s, max, last) ==
    /\ \A i \in 1..Len(q) :
         /\ q[i].sess = s
         /\ q[i].type = "PUBLISH" =>
              /\ q[i].id <= max /\ (last.sess = s => last.id < q[i].id)
              /\ \A j \in 1..Len(q) : j < i /\ q[j].type = "PUBLISH" => q[j].id < q[i].id
    /\ last.sess <= s
    /\ last.sess = s => last.id <= max

Order == InOrder(Queue, sess, sent, shown)

LEMMA StretchInOrder ==
    ASSUME NEW q \in Seq(Unit), NEW t \in Seq(Unit), NEW skip \in Nat, Stretch(t, q, skip),
           NEW s, NEW max, NEW last, InOrder(q, s, max, last)
    PROVE  InOrder(t, s, max, last)
  <1>1. Len(q) \in Nat /\ Len(t) \in Nat
    OBVIOUS
  <1>2. \A i \in 1..Len(t) : i + skip \in 1..Len(q) /\ t[i] = q[i + skip]
    BY <1>1 DEF Stretch
  <1>3. \A i, j \in 1..Len(t) : j < i => j + skip < i + skip
    BY <1>1
  <1>4. QED
    BY <1>2, <1>3 DEF InOrder

\* The end of the stretch that a new unit joins, which comes after all others.
LEMMA JoinsInOrder ==
    ASSUME TypeOK, Order, NEW u \in Unit, Queue' = Append(Queue, u),
           u.sess = sess, sess' = sess, shown' = shown,
           \/ u.type # "PUBLISH" /\ sent' = sent
           \/ u.id = sent + 1 /\ sent' = sent + 1
    PROVE  Order'
  <1>1. /\ Queue \in Seq(Unit) /\ Len(Queue) \in Nat
        /\ sent \in Nat /\ shown.id \in Nat
    BY QueueType DEF TypeOK
  <1>2. /\ Len(Queue') = Len(Queue) + 1 /\ Queue'[Len(Queue) + 1] = u
        /\ \A i \in 1..Len(Queue) : Queue'[i] = Queue[i] /\ Queue[i].id \in Nat
    <2>1. \A i \in 1..Len(Queue) : Queue[i] \in Unit
      BY <1>1
    <2>2. \A v \in Unit : v.id \in Nat
      BY DEF Unit
    <2>3. QED
      BY <1>1, <2>1, <2>2, AppendProperties
  <1>3. \A i \in 1..Len(Queue') : i \in 1..Len(Queue) \/ i = Len(Queue) + 1
    BY <1>1, <1>2
  <1>4. ASSUME NEW i \in 1..Len(Queue')
        PROVE  /\ Queue'[i].sess = sess
               /\ Queue'[i].type = "PUBLISH" =>
                    /\ Queue'[i].id <= sent' /\ (shown.sess = sess => shown.id < Queue'[i].id)
                    /\ \A j \in 1..Len(Queue') :
                         j < i /\ Queue'[j].type = "PUBLISH" => Queue'[j].id < Queue'[i].id
    <2>1. CASE i \in 1..Len(Queue)
      <3>1. \A j \in 1..Len(Queue') : j < i => j \in 1..Len(Queue)
        BY <1>1, <1>2, <2>1
      <3>2. Queue'[i].type = "PUBLISH" => Queue[i].id <= sent
        BY <1>2, <2>1 DEF Order, InOrder
      <3>3. QED
        BY <1>1, <1>2, <2>1, <3>1, <3>2 DEF Order, InOrder
    <2>2. CASE i = Len(Queue) + 1
      <3>1. \A j \in 1..Len(Queue') : j < i => j \in 1..Len(Queue)
        BY <1>1, <1>2, <2>2
      <3>2. \A j \in 1..Len(Queue) : Queue[j].type = "PUBLISH" => Queue[j].id < sent + 1
        BY <1>1, <1>2 DEF Order, InOrder
      <3>3. shown.sess = sess => shown.id < sent + 1
        BY <1>1 DEF Order, InOrder
      <3>4. QED
        BY <1>1, <1>2, <2>2, <3>1, <3>2, <3>3
    <2>3. QED
      BY <1>3, <2>1, <2>2
  <1>5. shown.sess = sess => shown.id <= sent'
    BY <1>1 DEF Order, InOrder
  <1>6. QED
    BY <1>4, <1>5 DEF Order, InOrder

\* What is left of the queue, on the same connection.
LEMMA LeftInOrder ==
    ASSUME TypeOK, TypeOK', Order, UNCHANGED <<sess, sent, shown>>,
           NEW skip \in Nat, Stretch(Queue', Queue, skip)
    PROVE  Order'
  <1>1. Queue \in Seq(Unit) /\ Queue' \in Seq(Unit)
    <2>1. /\ recvbuf' \in Seq(Unit) /\ uart' \in Seq(Unit) /\ net' \in Seq(Unit)
      BY DEF TypeOK
    <2>2. QED
      BY <2>1, QueueType, ThreeParts DEF Queue
  <1>2. InOrder(Queue', sess, sent, shown)
    BY <1>1, StretchInOrder DEF Order
  <1>3. QED
    BY <1>2 DEF Order

\* A message that is read is the first of the queue, and later ones follow.
LEMMA ReadInOrder ==
    ASSUME IInv, IInv', Order, ReadMessage
    PROVE  /\ Order'
           /\ shown'.sess = sess
           /\ shown.sess = sess => shown.id < shown'.id
  <1> USE DEF IInv
  <1>1. PICK o \in Outcomes(NextUnit) :
           /\ state = "RECEIVE" /\ Available
           /\ trp' = o.trp /\ buf' = o.buf /\ Consume(o.left) /\ OnMessage(o.res, o.buf)
           /\ UNCHANGED <<sending, due, broker>>
    BY DEF ReadMessage, Read, Results
  <1>2. /\ o.res = Queue[1].type /\ o.buf = PacketOf(Queue[1]) /\ o.left = << >>
    BY <1>1, ReadWhole
  <1>3. /\ Len(Queue) > 0 /\ Stretch(Queue', Queue, 1)
    BY <1>1, <1>2, ReadStep DEF broker
  <1>4. Queue \in Seq(Unit) /\ Len(Queue) \in Nat /\ Queue' \in Seq(Unit) /\ Len(Queue') \in Nat
    <2>1. /\ recvbuf' \in Seq(Unit) /\ uart' \in Seq(Unit) /\ net' \in Seq(Unit)
      BY DEF TypeOK
    <2>2. QED
      BY <2>1, QueueType, ThreeParts DEF Queue
  <1>5. 1 \in 1..Len(Queue) /\ Queue[1].type = "PUBLISH"
    BY <1>1, <1>3, <1>4 DEF Phase, Granted
  <1>6. shown'.sess = Queue[1].sess /\ shown'.id = Queue[1].id /\ UNCHANGED <<sess, sent>>
    BY <1>1, <1>2, <1>5 DEF OnMessage, PacketOf, broker
  <1>7. /\ Queue[1].sess = sess /\ Queue[1].id <= sent
        /\ shown.sess = sess => shown.id < Queue[1].id
    BY <1>5 DEF Order, InOrder
  <1>8. \A i \in 1..Len(Queue') : i + 1 \in 1..Len(Queue) /\ 1 < i + 1 /\ Queue'[i] = Queue[i + 1]
    BY <1>3, <1>4 DEF Stretch
  <1>9. InOrder(Queue', sess, sent, shown)
    BY <1>3, <1>4, StretchInOrder DEF Order
  <1>10. \A i \in 1..Len(Queue') : Queue'[i].type = "PUBLISH" => Queue[1].id < Queue'[i].id
    BY <1>5, <1>8 DEF Order, InOrder
  <1>11. sess \in Nat /\ sess <= sess
    BY DEF TypeOK
  <1>12. InOrder(Queue', sess, sent, shown')
    BY <1>6, <1>7, <1>9, <1>10, <1>11 DEF InOrder
  <1>13. QED
    BY <1>6, <1>7, <1>12 DEF Order

LEMMA StepInOrder ==
    ASSUME ~Fragmented, IInv, IInv', Order, [Next]_vars
    PROVE  /\ Order'
           /\ shown' # shown => /\ shown'.sess = sess
                                /\ shown.sess = sess => shown.id < shown'.id
  <1> USE DEF IInv
  <1>1. CASE StateInit
    <2>1. /\ recvbuf = << >> /\ recvbuf' = recvbuf /\ uart' = << >> /\ shown' = shown
          /\ net' \in {net, << >>}
      BY <1>1 DEF StateInit, FlushRx, Phase
    <2>2. CASE UNCHANGED <<sess, sent>>
      <3>1. PICK skip \in Nat : Stretch(Queue', Queue, skip)
        BY <2>1, FlushStep
      <3>2. QED
        BY <2>1, <2>2, <3>1, LeftInOrder
    <2>3. CASE sess' = sess + 1 /\ sent' = 0 /\ net' = << >>
      <3>1. Len(Queue') = 0
        <4>1. << >> \in Seq(Unit) /\ Len(<< >>) = 0
          BY EmptySeq
        <4>2. QED
          BY <2>1, <2>3, <4>1, ThreeParts DEF Queue
      <3>2. shown.sess <= sess /\ sess \in Nat /\ shown.sess \in Nat
        BY DEF Order, InOrder, TypeOK
      <3>3. QED
        BY <2>1, <2>3, <3>1, <3>2 DEF Order, InOrder
    <2>4. QED
      BY <1>1, <2>1, <2>2, <2>3 DEF StateInit
  <1>2. CASE Connect \/ ConnectDone \/ Subscribe \/ SubscribeDone \/ Publish \/ PublishDone
    <2>1. /\ recvbuf = << >> /\ recvbuf' = recvbuf /\ uart' = << >> /\ net' = net
          /\ UNCHANGED <<sess, sent, shown>>
      BY <1>2 DEF Connect, ConnectDone, Subscribe, SubscribeDone, Publish, PublishDone,
                  Send, Sent, FlushRx, Phase, broker
    <2>2. PICK skip \in Nat : Stretch(Queue', Queue, skip)
      BY <2>1, FlushStep
    <2>3. QED
      BY <2>1, <2>2, LeftInOrder
  <1>3. CASE ReadConnack \/ ReadSuback
    <2>1. PICK o \in Outcomes(NextUnit) :
             /\ Available /\ Consume(o.left) /\ UNCHANGED <<net, sess, sent, shown>>
      BY <1>3 DEF ReadConnack, ReadSuback, Read, Results, OnConnack, OnSuback, broker
    <2>2. Stretch(Queue', Queue, 1)
      BY <2>1, ReadWhole, ReadStep
    <2>3. QED
      BY <2>1, <2>2, LeftInOrder
  <1>4. CASE ReadMessage
    BY <1>4, ReadInOrder
  <1>5. CASE NotDue \/ ReadNothing \/ Tick \/ Deliver \/ UNCHANGED vars
    <2>1. UNCHANGED <<sess, sent, shown>>
      BY <1>5 DEF NotDue, ReadNothing, Tick, Deliver, vars, device, broker
    <2>2. Queue' = Queue
      BY <1>5, DeliverStep DEF NotDue, ReadNothing, Tick, vars, device, broker, Queue
    <2>3. QED
      BY <2>1, <2>2 DEF Order
  <1>6. CASE BrokerConnack
    <2>1. PICK ok \in BOOLEAN : Answer("CONNACK", ok, 0)
      BY <1>6 DEF BrokerConnack
    <2>2. PICK u \in Unit : u.type = "CONNACK" /\ u.sess = sess /\ Queue' = Append(Queue, u)
      BY <1>6, <2>1, AnswerStep, PublisherAssumption DEF BrokerConnack, device, Types
    <2>3. QED
      BY <1>6, <2>2, JoinsInOrder DEF BrokerConnack, device
  <1>7. CASE BrokerSuback
    <2>1. PICK ok \in BOOLEAN : Answer("SUBACK", ok, 0)
      BY <1>7 DEF BrokerSuback
    <2>2. PICK u \in Unit : u.type = "SUBACK" /\ u.sess = sess /\ Queue' = Append(Queue, u)
      BY <1>7, <2>1, AnswerStep, PublisherAssumption DEF BrokerSuback, device, Types
    <2>3. QED
      BY <1>7, <2>2, JoinsInOrder DEF BrokerSuback, device
  <1>8. CASE BrokerPublish
    <2>1. PICK u \in Unit : u.id = sent + 1 /\ u.sess = sess /\ Queue' = Append(Queue, u)
      BY <1>8, PublishStep
    <2>2. QED
      BY <1>8, <2>1, JoinsInOrder DEF BrokerPublish, device
  <1>9. CASE LinkLost
    <2>1. UNCHANGED <<recvbuf, uart, sess, sent, shown>> /\ net' = << >>
      BY <1>9 DEF LinkLost, device
    <2>2. Stretch(Queue', Queue, 0)
      BY <2>1, LossStep
    <2>3. QED
      BY <2>1, <2>2, LeftInOrder
  <1>10. QED
    BY <1>1, <1>2, <1>3, <1>4, <1>5, <1>6, <1>7, <1>8, <1>9 DEF Next, Task, Environment
-----------------------------------------------------------------------------
\* With whole packets the task never believes more than the broker granted on
\* this connection, however many connections came before.
THEOREM Agreement ==
    ASSUME ~Fragmented
    PROVE  Spec => []AgreesWithBroker
  <1>1. IInv => AgreesWithBroker
    BY DEF IInv, Phase, SubackPending, Granted, AgreesWithBroker
  <1>2. QED
    BY <1>1, Invariance, PTL

\* With whole packets _recv_buf is empty whenever a connection is made.
THEOREM FreshStart ==
    ASSUME ~Fragmented
    PROVE  Spec => []NothingLeftOver
  <1>1. IInv => NothingLeftOver
    BY DEF IInv, Phase, NothingLeftOver
  <1>2. QED
    BY <1>1, Invariance, PTL

\* With whole packets each message is shown at most once, in the broker's order,
\* and only on the connection it was published on, however many came before.
THEOREM ShownInOrder ==
    ASSUME ~Fragmented
    PROVE  Spec => MessagesInOrder
  <1>1. Init => Order
    <2>1. ASSUME Init PROVE Len(Queue) = 0 /\ sess = 0 /\ shown.sess = 0 /\ shown.id = 0 /\ sent = 0
      BY <2>1, NothingQueued DEF Init
    <2>2. QED
      BY <2>1 DEF Order, InOrder
  <1>2. ASSUME IInv, IInv', Order, [Next]_vars
        PROVE  Order' /\ [shown' # shown => /\ shown'.sess = sess
                                            /\ shown.sess = sess => shown.id < shown'.id]_vars
    BY <1>2, StepInOrder
  <1>3. QED
    BY <1>1, <1>2, Invariance, PTL DEF Spec, MessagesInOrder
=============================================================================
