----------------------------- MODULE IpdParser -----------------------------
(* wifi_receive_ipd and wifi_match_seq of DRIVERS/src/Wifi.c, fed a byte at  *)
(* a time.  The ESP8266 sends noise (what it says of itself) and frames,     *)
(* "+IPD,<len>:" and len bytes of payload, which may be any bytes.           *)
(*                                                                           *)
(* A byte is a character and a place: 0 in noise and in headers, else the    *)
(* number of the payload byte, from the start of the call (TCP) or of its    *)
(* frame (UDP).  What the parser stores is a sequence of places, so that it  *)
(* is right when it is <<1, 2, 3, ...>>, whatever the characters are.        *)
EXTENDS Naturals, Sequences

CONSTANTS BufferLen, \* buffer_len
          MaxFrame   \* bound: the longest frame, one digit

ASSUME IpdParserAssumption ==
    /\ BufferLen \in Nat \ {0}
    /\ MaxFrame \in 1..9

VARIABLES
    udp,       \* WIFI_IPD_DISCARD_OVERSIZE, else WIFI_IPD_ACCUMULATE
    state,     \* "WAIT_IPD", "READ_LEN", "READ_DATA", or "returned"
    matched,   \* characters of "+IPD," seen
    frameLen,  \* frame_len
    frameCount,\* frame_count
    buffer,    \* the places of the bytes stored; its length is total
    timedOut,  \* the call returned because its time was up
    header,    \* what is left to send of a frame's header
    body,      \* payload bytes left to send of a frame
    place,     \* of the last payload byte
    sync,      \* the call started between two frames
    plain      \* no "+" was in a datagram of the call that is too long (UDP)

parser == <<udp, state, matched, frameLen, frameCount, buffer, timedOut>>
sender == <<header, body, place, sync, plain>>
vars   == <<parser, sender>>

Ipd    == <<"+", "I", "P", "D", ",">>
Digits == <<"1", "2", "3", "4", "5", "6", "7", "8", "9">>
Noise  == {"+", "I", "x"}
Chars  == {"+", "I", "P", "D", ",", ":", "1", "x"}

\* Bound on frame_len, which payload bytes taken for a header could make grow.
LenBound == BufferLen + MaxFrame + 1
UpTo(n, bound) == IF n < bound THEN n ELSE bound
-----------------------------------------------------------------------------
\* Mutant of Mismatch: the character that does not match is not looked at.
Forget(c) == 0

\* wifi_match_seq: after a mismatch the character may start a new match.
Mismatch(c) == IF c = Ipd[1] THEN 1 ELSE 0

Match(c) == IF c = Ipd[matched + 1] THEN matched + 1 ELSE Mismatch(c)

Wait == state' = "WAIT_IPD" /\ matched' = 0

WaitIpd(c) ==
    /\ state = "WAIT_IPD"
    /\ IF Match(c) = Len(Ipd)
       THEN state' = "READ_LEN" /\ matched' = 0 /\ frameLen' = 0 /\ frameCount' = 0
       ELSE matched' = Match(c) /\ UNCHANGED <<state, frameLen, frameCount>>
    /\ UNCHANGED <<buffer, timedOut>>

IsDigit(c) == \E i \in DOMAIN Digits : Digits[i] = c
Value(c)   == CHOOSE i \in DOMAIN Digits : Digits[i] = c

\* Mutant of Accepted: a datagram that is too long is stored, as far as it fits.
AcceptedLong(n) == n # 0

\* A frame that WIFI_ReceiveUDP cannot store whole is not one to read.
Accepted(n) == n # 0 /\ ~(udp /\ n > BufferLen)

ReadLen(c) ==
    /\ state = "READ_LEN"
    /\ IF IsDigit(c)
       THEN frameLen' = UpTo(frameLen * 10 + Value(c), LenBound)
            /\ UNCHANGED <<state, matched, frameCount, buffer>>
       ELSE IF c = ":" /\ Accepted(frameLen)
       THEN /\ state' = "READ_DATA" /\ frameCount' = 0
            /\ buffer' = IF udp THEN << >> ELSE buffer
            /\ UNCHANGED <<matched, frameLen>>
       ELSE Wait /\ UNCHANGED <<frameLen, frameCount, buffer>>
    /\ UNCHANGED timedOut

\* Mutant of Store: no check of the space that is left.
StoreAll(p) == Append(buffer, p)

\* Bytes beyond the end of the buffer are dropped.
Store(p) == IF Len(buffer) < BufferLen THEN Append(buffer, p) ELSE buffer

\* Mutant of FrameEnds: the end of the buffer is the end of the frame.
FrameEndsFull(count) == count >= frameLen \/ Len(buffer) + 1 >= BufferLen

FrameEnds(count) == count >= frameLen

\* The call returns at the end of a frame: of the first that fits (UDP), or of
\* the one that fills the buffer.
ReadData(p) ==
    /\ state = "READ_DATA"
    /\ frameCount' = frameCount + 1
    /\ buffer' = Store(p)
    /\ IF ~FrameEnds(frameCount + 1)
       THEN UNCHANGED <<state, matched>>
       ELSE IF udp \/ Len(buffer') >= BufferLen
       THEN state' = "returned" /\ UNCHANGED matched
       ELSE Wait
    /\ UNCHANGED <<frameLen, timedOut>>

Parse(c, p) == (WaitIpd(c) \/ ReadLen(c) \/ ReadData(p)) /\ UNCHANGED udp

\* The time is up: a TCP receive returns what it has, if it has anything.
Timeout == /\ state # "returned"
           /\ state' = "returned" /\ timedOut' = TRUE
           /\ buffer' = IF udp THEN << >> ELSE buffer
           /\ UNCHANGED <<udp, matched, frameLen, frameCount, sender>>

\* The next call: WIFI_ReceiveTCP or WIFI_ReceiveUDP.  What the last one knew
\* of a frame under way is lost.
Receive == /\ state = "returned" /\ udp' \in BOOLEAN
           /\ Wait /\ frameLen' = 0 /\ frameCount' = 0 /\ buffer' = << >> /\ timedOut' = FALSE
           /\ place' = 0 /\ sync' = (header = << >> /\ body = 0) /\ plain' = TRUE
           /\ UNCHANGED <<header, body>>
-----------------------------------------------------------------------------
\* The module sends, and the parser reads, one byte: of a header, of a
\* payload, or of noise, after which a frame may start.  What arrives between
\* two calls waits in the UART ring for the second.
SendHeader == /\ header # << >> /\ state # "returned"
              /\ header' = Tail(header)
              /\ Parse(Head(header), 0) /\ UNCHANGED <<body, place, sync, plain>>

SendBody == /\ header = << >> /\ body > 0 /\ state # "returned"
            /\ body' = body - 1 /\ place' = UpTo(place + 1, BufferLen + MaxFrame)
            /\ \E c \in Chars : /\ Parse(c, place')
                              /\ plain' = (plain /\ ~(udp /\ body + place > BufferLen /\ c = Ipd[1]))
            /\ UNCHANGED <<header, sync>>

SendNoise == /\ header = << >> /\ body = 0 /\ state # "returned"
             /\ \E c \in Noise : Parse(c, 0)
             /\ UNCHANGED sender

StartFrame == /\ header = << >> /\ body = 0 /\ state # "returned"
              /\ \E n \in 1..MaxFrame : header' = Ipd \o <<Digits[n], ":">> /\ body' = n
              /\ place' = IF udp THEN 0 ELSE place
              /\ UNCHANGED <<parser, sync, plain>>
-----------------------------------------------------------------------------
Init == /\ udp \in BOOLEAN /\ plain = TRUE /\ state = "WAIT_IPD" /\ matched = 0 /\ frameLen = 0 /\ frameCount = 0
        /\ buffer = << >> /\ timedOut = FALSE
        /\ header = << >> /\ body = 0 /\ place = 0 /\ sync = TRUE

Next == Timeout \/ Receive \/ SendHeader \/ SendBody \/ SendNoise \/ StartFrame
Spec == Init /\ [][Next]_vars
-----------------------------------------------------------------------------
\* Every variable holds a value of its kind; the buffer is never overrun.
TypeOK ==
    /\ state \in {"WAIT_IPD", "READ_LEN", "READ_DATA", "returned"}
    /\ matched \in 0..(Len(Ipd) - 1)
    /\ frameLen \in 0..LenBound /\ frameCount \in 0..LenBound
    /\ buffer \in Seq(0..(BufferLen + MaxFrame)) /\ Len(buffer) <= BufferLen
    /\ timedOut \in BOOLEAN /\ sync \in BOOLEAN /\ udp \in BOOLEAN /\ plain \in BOOLEAN
    /\ header \in Seq(Chars \cup {Digits[i] : i \in DOMAIN Digits})
    /\ body \in 0..MaxFrame /\ place \in 0..(BufferLen + MaxFrame)

FirstPlaces(n) == [i \in 1..n |-> i]

\* A TCP receive that starts between two frames has, at every moment and when
\* its time is up, the payload bytes sent since it started, in order, from the
\* first, up to the size of its buffer: none is lost, doubled, or taken from a
\* header, whatever the noise and the payloads look like.
PayloadInOrder == ~udp /\ sync => buffer = FirstPlaces(UpTo(place, BufferLen))

\* Only a timeout makes a call return in the middle of a frame.
ReturnsBetweenFrames ==
    state = "returned" /\ sync /\ plain /\ ~timedOut => header = << >> /\ body = 0

\* A UDP receive returns a datagram, from its first byte to its last, and one that
\* is too long for the buffer is discarded, not cut; as long as no such one has a
\* "+" in it: only its header is discarded, and its payload is searched for one.
WholeDatagram ==
    udp /\ sync /\ plain /\ state = "returned" /\ ~timedOut =>
        body = 0 /\ buffer = FirstPlaces(place)
=============================================================================
