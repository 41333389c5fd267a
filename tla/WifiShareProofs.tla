-------------------------- MODULE WifiShareProofs --------------------------
(* The clock is set from NTP answers only, however the two tasks that share  *)
(* the ESP8266 interleave.                                                   *)
EXTENDS WifiShare, TLAPS

(* While the menu task waits for its answer there is no message of the       *)
(* broker in the ring, and none can come: the connection is its own or is    *)
(* gone; or the broker was sent the request and hangs up; or the publisher   *)
(* has just opened its own and is in the delay that lets the answer be       *)
(* looked for before it subscribes.                                          *)
NoMessage ==
    app = "ntpReceive" =>
        /\ "message" \notin rx
        /\ conn = "tcp" => "ntp" \in asked \/ (nap /\ asked = {})

IInv == TypeOK /\ NoMessage /\ reply # "other" /\ TimeFromNtp

LEMMA Initially == Init => IInv
<1> SUFFICES ASSUME Init PROVE IInv
  OBVIOUS
<1> USE WifiShareAssumption DEF WifiShareAssumption, Init
<1>1. TypeOK
  <2>1. syncs \in 0..MaxSyncs
    OBVIOUS
  <2>2. nap \in BOOLEAN /\ held \subseteq Kinds /\ rx \subseteq Kinds /\ asked \subseteq Asks
    BY Zenon
  <2> QED
    BY <2>1, <2>2 DEF TypeOK
<1>2. NoMessage /\ reply # "other" /\ TimeFromNtp
  BY DEF NoMessage, TimeFromNtp
<1> QED
  BY <1>1, <1>2 DEF IInv

\* A call of the publisher: what disturbs the invariant is an open, after
\* which it delays.
LEMMA PubKeeps == IInv /\ PubCall => IInv'
<1> SUFFICES ASSUME IInv, PubCall PROVE IInv'
  OBVIOUS
<1> USE DEF IInv, TypeOK, NoMessage, TimeFromNtp, Goes, menu, wifi, Kinds, Asks
<1>1. CASE PubClose
  BY <1>1 DEF PubCall, PubClose, Close
<1>2. CASE PubOpen
  BY <1>2 DEF PubCall, PubOpen, Open
<1>3. ASSUME NEW from, NEW ask \in SUBSET {"connect", "subscribe"},
             NEW next \in {"WAIT_CONNECT", "SUBACK", "RECEIVE"},
             NEW delays \in BOOLEAN, PubSends(from, ask, next, delays)
      PROVE  IInv'
  BY <1>3 DEF PubCall, PubSends, Send
<1>4. CASE PubConnect
  BY <1>4, <1>3 DEF PubConnect
<1>5. CASE PubSubscribe
  BY <1>5, <1>3 DEF PubSubscribe
<1>6. CASE PubTelemetry
  BY <1>6, <1>3 DEF PubTelemetry
<1>7. CASE PubNotDue
  BY <1>7 DEF PubCall, PubNotDue
<1>8. CASE PubWaitConnect
  BY <1>8 DEF PubCall, PubWaitConnect, PubReads, Found, OnConnack
<1>9. CASE PubSuback
  <2>1. PICK k \in Found : PubReads("SUBACK", k) /\ OnSuback(k)
    BY <1>9 DEF PubSuback
  <2>2. pub' \in {"SUBACK", "RECEIVE", "CLOSE"} /\ nap' = TRUE
    BY <2>1 DEF OnSuback, Goes
  <2> QED
    BY <1>9, <2>1, <2>2 DEF PubCall, PubReads, Found
<1>10. CASE PubReceive
  <2>1. PICK k \in Found : PubReads("RECEIVE", k) /\ OnMessage(k)
    BY <1>10 DEF PubReceive
  <2>2. /\ pub' \in {"RECEIVE", "CLOSE", "PUBLISH"} /\ nap' \in BOOLEAN
    BY <2>1 DEF OnMessage, Goes
  <2> QED
    BY <1>10, <2>1, <2>2 DEF PubCall, PubReads, Found
<1> QED
  BY <1>1, <1>2, <1>4, <1>5, <1>6, <1>7, <1>8, <1>9, <1>10 DEF PubCall

LEMMA AppKeeps == IInv /\ AppCall => IInv'
<1> SUFFICES ASSUME IInv, AppCall PROVE IInv'
  OBVIOUS
<1> USE DEF IInv, TypeOK, NoMessage, TimeFromNtp, Kinds, Asks, AppCall
<1>1. CASE NtpClose
  BY <1>1 DEF NtpClose, Close
<1>2. CASE NtpOpen
  BY <1>2 DEF NtpOpen, Open
<1>3. CASE NtpSend
  <2> PICK ok \in BOOLEAN :
           Send({"ntp"}, ok) /\ app' = IF ok THEN "ntpReceive" ELSE "ntpEnd"
    BY <1>3 DEF NtpSend
  <2>1. asked' \subseteq Asks /\ rx' = {} /\ conn' = conn
    BY DEF Send
  <2>2. ok => "ntp" \in asked'
    BY DEF Send
  <2>3. reply' = reply /\ clock' = clock
    BY <1>3 DEF NtpSend
  <2> QED
    BY <2>1, <2>2, <2>3
<1>4. CASE NtpReceive
  BY <1>4 DEF NtpReceive
<1>5. CASE NtpEnd
  BY <1>5 DEF NtpEnd, Close
<1>6. CASE ConnectAp
  BY <1>6 DEF ConnectAp
<1> QED
  BY <1>1, <1>2, <1>3, <1>4, <1>5, <1>6

LEMMA RestKeeps ==
    IInv /\ (WakeUp \/ Pick \/ Arrive \/ LinkLost \/ UNCHANGED vars) => IInv'
<1> SUFFICES ASSUME IInv, WakeUp \/ Pick \/ Arrive \/ LinkLost \/ UNCHANGED vars
             PROVE  IInv'
  OBVIOUS
<1> USE WifiShareAssumption
    DEF WifiShareAssumption, IInv, TypeOK, NoMessage, TimeFromNtp, Kinds, Asks, mine, menu, wifi, vars
<1>1. CASE WakeUp
  BY <1>1 DEF WakeUp
<1>2. CASE Pick
  BY <1>2 DEF Pick
<1>3. CASE Arrive
  <2> PICK k \in Kinds :
           /\ conn = IF k = "ntp" THEN "udp" ELSE "tcp"
           /\ CASE k = "ack"     -> asked # {} /\ "ntp" \notin asked
                [] k = "message" -> "subscribe" \in asked /\ "ntp" \notin asked
                [] k = "ntp"     -> "ntp" \in asked
           /\ k \notin rx /\ rx' = rx \cup {k}
    BY <1>3 DEF Arrive
  <2>1. TypeOK' /\ (reply # "other")' /\ TimeFromNtp'
    BY <1>3 DEF Arrive
  <2>2. NoMessage'
    <3>1. CASE k = "message"
      <4>1. conn = "tcp" /\ "subscribe" \in asked /\ "ntp" \notin asked
        BY <3>1
      <4>2. app' = app /\ app # "ntpReceive"
        BY <1>3, <4>1 DEF Arrive
      <4> QED
        BY <4>2
    <3>2. CASE k # "message"
      BY <1>3, <3>2 DEF Arrive
    <3> QED
      BY <3>1, <3>2
  <2> QED
    BY <2>1, <2>2
<1>4. CASE LinkLost
  BY <1>4 DEF LinkLost
<1>5. CASE UNCHANGED vars
  BY <1>5
<1> QED
  BY <1>1, <1>2, <1>3, <1>4, <1>5

LEMMA Inductive == Spec => []IInv
<1>1. IInv /\ [Next]_vars => IInv'
  BY PubKeeps, AppKeeps, RestKeeps DEF Next
<1> QED
  BY Initially, <1>1, PTL DEF Spec

(* Every variable of the two tasks and of the module keeps its type, for any *)
(* number of uses of the menu.                                               *)
THEOREM TypeCorrect == Spec => []TypeOK
<1>1. IInv => TypeOK
  BY DEF IInv
<1> QED
  BY Inductive, <1>1, PTL

(* For any number of uses of the menu, the clock is never set from a message *)
(* of the broker (TIME_SYNC_RequestUnixTime takes any frame of 48 to 64      *)
(* bytes).                                                                   *)
THEOREM ClockSource == Spec => []TimeFromNtp
<1>1. IInv => TimeFromNtp
  BY DEF IInv
<1> QED
  BY Inductive, <1>1, PTL
=============================================================================
