--------------------------- MODULE ReceiveProofs ----------------------------
(* What is received, for every size.  The receive buffer of the publisher:   *)
(* its indices stay inside it, and it implements the lossless queue of       *)
(* ByteFifo.  And wifi_receive_ipd, for buffers of any size, frames of one   *)
(* to nine bytes, any payload and any noise: what is received is the         *)
(* payload.  The argument says where the parser is for every place in a      *)
(* frame that the sender may be at.                                          *)
EXTENDS RecvBuffer, IpdParser, SequenceTheorems, TLAPS

\* One wrap is enough to reduce the sum of an index and a count.
LEMMA ModSum ==
    ASSUME NEW N \in Nat \ {0}, NEW x \in 0..N - 1, NEW k \in 0..N
    PROVE  (x + k) % N = IF x + k < N THEN x + k ELSE x + k - N
  <1>1. CASE x + k < N
    BY <1>1
  <1>2. CASE x + k >= N
    <2>1. x + k \in N..2 * N - 1
      BY <1>2
    <2>2. QED
      BY <1>2, <2>1
  <1>3. QED
    BY <1>1, <1>2

\* Wrapping twice is wrapping once.
LEMMA ModTwice ==
    ASSUME NEW N \in Nat \ {0}, NEW x \in 0..N - 1, NEW r \in 0..N, NEW k \in 0..N,
           r + k < N
    PROVE  (((x + r) % N) + k) % N = (x + (r + k)) % N
  <1> DEFINE y == (x + r) % N
  <1>1. y = IF x + r < N THEN x + r ELSE x + r - N
    BY ModSum
  <1>2. y \in 0..N - 1
    BY <1>1
  <1>3. (y + k) % N = IF y + k < N THEN y + k ELSE y + k - N
    BY <1>2, ModSum
  <1>4. (x + (r + k)) % N = IF x + (r + k) < N THEN x + (r + k) ELSE x + (r + k) - N
    <2>1. r + k \in 0..N
      OBVIOUS
    <2>2. QED
      BY <2>1, ModSum
  <1>5. QED
    BY <1>1, <1>3, <1>4

\* The byte found at the i-th position after x is the i-th one written there.
LEMMA ModInverse ==
    ASSUME NEW N \in Nat \ {0}, NEW x \in 0..N - 1, NEW i \in 0..N - 1
    PROVE  /\ (x + i) % N \in 0..N - 1
           /\ (((x + i) % N) + (2 * N - x)) % N = i
  <1> DEFINE j == (x + i) % N
  <1>1. j = IF x + i < N THEN x + i ELSE x + i - N
    <2>1. i \in 0..N
      OBVIOUS
    <2>2. QED
      BY <2>1, ModSum
  <1>2. CASE j = x + i
    <2>1. j + (2 * N - x) = i + 2 * N
      BY <1>2
    <2>2. (i + 2 * N) % N = i
      OBVIOUS
    <2>3. QED
      BY <1>1, <2>1, <2>2
  <1>3. CASE j = x + i - N
    <2>1. j + (2 * N - x) = i + N
      BY <1>3
    <2>2. (i + N) % N = i
      OBVIOUS
    <2>3. QED
      BY <1>1, <2>1, <2>2
  <1>4. QED
    BY <1>1, <1>2, <1>3

\* A sequence is what comes before a position followed by what comes after.
LEMMA Split ==
    ASSUME NEW S, NEW n \in Nat, NEW r \in 0..n, NEW s \in [1..n -> S]
    PROVE  [i \in 1..r |-> s[i]] \o [i \in 1..n - r |-> s[r + i]] = s
  <1> DEFINE a == [i \in 1..r |-> s[i]]
             b == [i \in 1..n - r |-> s[r + i]]
  <1>1. a \in Seq(S) /\ Len(a) = r
    OBVIOUS
  <1>2. b \in Seq(S) /\ Len(b) = n - r
    OBVIOUS
  <1>3. s \in Seq(S) /\ Len(s) = n
    OBVIOUS
  <1>4. a \o b \in Seq(S) /\ Len(a \o b) = n
    BY <1>1, <1>2
  <1>5. ASSUME NEW i \in 1..n
        PROVE  (a \o b)[i] = s[i]
    BY <1>1, <1>2
  <1>6. QED
    BY <1>3, <1>4, <1>5, SeqEqual
-----------------------------------------------------------------------------
\* What the two calls do, with one name for each quantity.
LEMMA FromBufferTypes ==
    ASSUME BufferTypeOK, NEW size \in 1..Size, FromBuffer(size)
    PROVE  /\ AtMost(size, len) \in 1..len
           /\ BufferTypeOK'
  <1> DEFINE ret == AtMost(size, len)
  <1>1. ret \in 1..len
    BY RecvBufferAssumption DEF BufferTypeOK, FromBuffer, AtMost
  <1>2. p' \in 0..Size - 1 /\ len' \in 0..Size
    BY <1>1, RecvBufferAssumption DEF BufferTypeOK, FromBuffer, Advanced
  <1>3. out' \in Chunks
    <2>1. \A i \in 1..ret : (p + (i - 1)) % Size \in 0..Size - 1
      BY <1>1, RecvBufferAssumption DEF BufferTypeOK
    <2>2. out' \in [1..ret -> Byte]
      BY <2>1 DEF BufferTypeOK, FromBuffer, Copied
    <2>3. ret \in 0..Size
      BY <1>1, RecvBufferAssumption DEF BufferTypeOK
    <2>4. QED
      BY <2>2, <2>3 DEF Chunks
  <1>4. QED
    BY <1>1, <1>2, <1>3 DEF BufferTypeOK, FromBuffer

\* With the buffer empty everything ReceiveTcp returns fits, and the n bytes it
\* returned lie from p on.
LEMMA WrittenInOrder ==
    ASSUME BufferTypeOK, len = 0, NEW data \in Chunks
    PROVE  /\ Room(Len(data)) = Len(data)
           /\ Len(data) \in 0..Size
           /\ data \in [1..Len(data) -> Byte]
           /\ Written(data, Len(data)) \in [0..Size - 1 -> Byte]
           /\ \A i \in 1..Len(data) :
                Written(data, Len(data))[(p + (i - 1)) % Size] = data[i]
  <1> DEFINE n == Len(data)
             W == Written(data, n)
             at(j) == (j + (2 * Size - p)) % Size
  <1>1. n \in 0..Size /\ data \in [1..n -> Byte]
    BY RecvBufferAssumption DEF Chunks
  <1>2. Room(n) = n
    <2>1. Size - len = Size
      BY RecvBufferAssumption
    <2>2. AtMost(n, Size) = n
      <3>1. n \in 0..Size
        BY <1>1
      <3> HIDE DEF n
      <3>2. QED
        BY <3>1, RecvBufferAssumption DEF AtMost
    <2>3. QED
      BY <2>1, <2>2 DEF Room
  <1>3. W = [j \in 0..Size - 1 |-> IF at(j) < n THEN data[at(j) + 1] ELSE mem[j]]
    <2>1. p + len = p
      BY DEF BufferTypeOK
    <2>2. QED
      BY <1>2, <2>1 DEF Written
  <1>4. \A j \in 0..Size - 1 : at(j) \in 0..Size - 1
    BY RecvBufferAssumption DEF BufferTypeOK
  <1>5. W \in [0..Size - 1 -> Byte]
    <2>1. ASSUME NEW j \in 0..Size - 1
          PROVE  (IF at(j) < n THEN data[at(j) + 1] ELSE mem[j]) \in Byte
      <3>1. CASE at(j) < n
        <4>1. at(j) + 1 \in 1..n
          BY <1>1, <1>4, <3>1
        <4>2. QED
          BY <1>1, <3>1, <4>1
      <3>2. CASE ~(at(j) < n)
        BY <3>2 DEF BufferTypeOK
      <3>3. QED
        BY <3>1, <3>2
    <2>2. QED
      BY <1>3, <2>1
  <1>6. ASSUME NEW i \in 1..n
        PROVE  W[(p + (i - 1)) % Size] = data[i]
    <2> DEFINE k == i - 1
               j == (p + k) % Size
    <2>1. k \in 0..Size - 1 /\ k < n /\ k + 1 = i
      BY <1>1, RecvBufferAssumption
    <2>2. j \in 0..Size - 1 /\ at(j) = k
      BY <2>1, ModInverse, RecvBufferAssumption DEF BufferTypeOK
    <2>3. W[j] = IF at(j) < n THEN data[at(j) + 1] ELSE mem[j]
      BY <1>3, <2>2
    <2>4. QED
      BY <2>1, <2>2, <2>3
  <1>7. QED
    BY <1>1, <1>2, <1>5, <1>6

LEMMA FromWifiTypes ==
    ASSUME BufferTypeOK, NEW size \in 1..Size, NEW data \in Chunks, FromWifi(size, data)
    PROVE  /\ AtMost(size, Len(data)) \in 0..Len(data)
           /\ p' = Advanced(AtMost(size, Len(data)))
           /\ len' = Len(data) - AtMost(size, Len(data))
           /\ out' = Copied(mem', AtMost(size, Len(data)))
           /\ BufferTypeOK'
  <1> DEFINE n == Len(data)
             ret == AtMost(size, n)
  <1>1. len = 0
    BY DEF FromWifi, Empty
  <1>2. n \in 0..Size /\ Room(n) = n /\ len + Room(n) = n
    BY <1>1, WrittenInOrder, RecvBufferAssumption DEF BufferTypeOK
  <1>3. ret \in 0..n
    BY <1>2, RecvBufferAssumption DEF AtMost
  <1>4. p' = Advanced(ret) /\ len' = n - ret /\ out' = Copied(mem', ret)
    BY <1>2 DEF FromWifi
  <1>5. mem' \in [0..Size - 1 -> Byte]
    BY <1>1, WrittenInOrder DEF FromWifi
  <1>6. p' \in 0..Size - 1 /\ len' \in 0..Size
    <2>1. p \in Nat /\ ret \in Nat /\ Size \in Nat \ {0}
      BY <1>2, <1>3, RecvBufferAssumption DEF BufferTypeOK
    <2>2. p' = (p + ret) % Size
      BY <1>4 DEF Advanced
    <2> HIDE DEF n, ret
    <2>3. p' \in 0..Size - 1
      BY ONLY <2>1, <2>2
    <2>4. len' \in 0..Size
      BY ONLY <1>2, <1>3, <1>4, <2>1
    <2> QED
      BY <2>3, <2>4
  <1>7. out' \in Chunks
    <2>1. \A i \in 1..ret : (p + (i - 1)) % Size \in 0..Size - 1
      BY <1>2, <1>3, RecvBufferAssumption DEF BufferTypeOK
    <2>2. out' \in [1..ret -> Byte]
      BY <1>4, <1>5, <2>1 DEF Copied
    <2>3. ret \in 0..Size
      BY <1>2, <1>3, RecvBufferAssumption
    <2>4. QED
      BY <2>2, <2>3 DEF Chunks
  <1>8. QED
    BY <1>3, <1>4, <1>5, <1>6, <1>7 DEF BufferTypeOK

\* The read and write positions never leave the buffer.
THEOREM BufferTypeCorrect == BufferSpec => []BufferTypeOK
  <1>1. BufferInit => BufferTypeOK
    <2> SUFFICES ASSUME BufferInit PROVE BufferTypeOK
      OBVIOUS
    <2>1. out \in Chunks
      <3>1. << >> \in [1..0 -> Byte]
        OBVIOUS
      <3>2. QED
        BY <3>1, RecvBufferAssumption DEF BufferInit, Chunks
    <2>2. QED
      BY <2>1, RecvBufferAssumption DEF BufferInit, BufferTypeOK
  <1>2. BufferTypeOK /\ [BufferNext]_bufferVars => BufferTypeOK'
    <2> SUFFICES ASSUME BufferTypeOK, [BufferNext]_bufferVars PROVE BufferTypeOK'
      OBVIOUS
    <2>1. ASSUME NEW size \in 1..Size, FromBuffer(size)
          PROVE  BufferTypeOK'
      BY <2>1, FromBufferTypes
    <2>2. ASSUME NEW size \in 1..Size, NEW data \in Chunks, FromWifi(size, data)
          PROVE  BufferTypeOK'
      BY <2>2, FromWifiTypes
    <2>3. CASE UNCHANGED bufferVars
      BY <2>3 DEF bufferVars, BufferTypeOK
    <2>4. QED
      BY <2>1, <2>2, <2>3 DEF BufferNext
  <1>3. QED
    BY <1>1, <1>2, PTL DEF BufferSpec
-----------------------------------------------------------------------------
\* Reading on from the advanced position continues the same piece of memory.
LEMMA CopiedRest ==
    ASSUME BufferTypeOK, NEW m \in [0..Size - 1 -> Byte], NEW n \in 0..Size,
           NEW r \in 0..n
    PROVE  Copied(m, r) \o [i \in 1..n - r |-> m[(Advanced(r) + (i - 1)) % Size]]
             = Copied(m, n)
  <1> DEFINE s == Copied(m, n)
  <1>1. s \in [1..n -> Byte]
    BY RecvBufferAssumption DEF BufferTypeOK, Copied
  <1>2. Copied(m, r) = [i \in 1..r |-> s[i]]
    BY DEF Copied
  <1>3. ASSUME NEW i \in 1..n - r
        PROVE  m[(Advanced(r) + (i - 1)) % Size] = s[r + i]
    <2>1. i - 1 \in 0..Size /\ r + (i - 1) < Size /\ r \in 0..Size
      BY RecvBufferAssumption
    <2>2. (Advanced(r) + (i - 1)) % Size = (p + (r + (i - 1))) % Size
      BY <2>1, ModTwice, RecvBufferAssumption DEF BufferTypeOK, Advanced
    <2>3. r + (i - 1) = (r + i) - 1 /\ r + i \in 1..n
      OBVIOUS
    <2>4. QED
      BY <2>2, <2>3 DEF Copied
  <1>4. [i \in 1..n - r |-> m[(Advanced(r) + (i - 1)) % Size]]
          = [i \in 1..n - r |-> s[r + i]]
    BY <1>3
  <1>5. [i \in 1..r |-> s[i]] \o [i \in 1..n - r |-> s[r + i]] = s
    BY <1>1, Split
  <1>6. QED
    BY <1>2, <1>4, <1>5

\* Every call of get_recv_buffer is one call of the queue.
LEMMA StepIsFifo ==
    ASSUME BufferTypeOK, [BufferNext]_bufferVars
    PROVE  [Fifo!FifoNext]_<<Pending, out>>
  <1>1. ASSUME NEW size \in 1..Size, FromBuffer(size)
        PROVE  Fifo!Receive(<< >>, size)
    <2> DEFINE r == AtMost(size, len)
    <2>1. r \in 1..len /\ r <= size /\ len \in 0..Size
      BY <1>1, FromBufferTypes, RecvBufferAssumption DEF AtMost, BufferTypeOK
    <2>2. out' = Copied(mem, r) /\ mem' = mem /\ p' = Advanced(r) /\ len' = len - r
      BY <1>1 DEF FromBuffer
    <2>3. Pending' = [i \in 1..len - r |-> mem[(Advanced(r) + (i - 1)) % Size]]
      BY <2>2 DEF Pending, Copied
    <2>4. out' \o Pending' = Pending
      <3>1. mem \in [0..Size - 1 -> Byte] /\ r \in 0..len
        BY <2>1 DEF BufferTypeOK
      <3>2. Copied(mem, r) \o [i \in 1..len - r |-> mem[(Advanced(r) + (i - 1)) % Size]]
              = Copied(mem, len)
        BY <2>1, <3>1, CopiedRest
      <3>3. QED
        BY <2>2, <2>3, <3>2 DEF Pending
    <2>5. Pending \o << >> = Pending
      <3>1. Pending \in [1..len -> Byte]
        BY RecvBufferAssumption DEF Pending, Copied, BufferTypeOK
      <3>2. Pending \in Seq(Byte)
        BY <2>1, <3>1
      <3>3. QED
        BY <3>2
    <2>6. Len(out') = r /\ out' # << >>
      <3>1. out' \in Seq(Byte) /\ Len(out') = r
        <4>1. out' \in [1..r -> Byte]
          BY <2>1, <2>2, RecvBufferAssumption DEF Copied, BufferTypeOK
        <4>2. QED
          BY <2>1, <4>1
      <3>2. QED
        BY <2>1, <3>1
    <2>7. QED
      BY <2>1, <2>4, <2>5, <2>6 DEF Fifo!Receive
  <1>2. ASSUME NEW size \in 1..Size, NEW data \in Chunks, FromWifi(size, data)
        PROVE  Fifo!Receive(data, size)
    <2> DEFINE n == Len(data)
               r == AtMost(size, n)
    <2>1. len = 0
      BY <1>2 DEF FromWifi, Empty
    <2>2. /\ n \in 0..Size /\ data \in [1..n -> Byte] /\ mem' \in [0..Size - 1 -> Byte]
          /\ \A i \in 1..n : mem'[(p + (i - 1)) % Size] = data[i]
      BY <1>2, <2>1, WrittenInOrder DEF FromWifi
    <2>3. r \in 0..n /\ r <= size
      BY <1>2, <2>2, FromWifiTypes DEF AtMost
    <2>4. out' = Copied(mem', r) /\ p' = Advanced(r) /\ len' = n - r
      BY <1>2, FromWifiTypes
    <2>5. Pending' = [i \in 1..n - r |-> mem'[(Advanced(r) + (i - 1)) % Size]]
      BY <2>4 DEF Pending, Copied
    <2>6. Copied(mem', n) = data
      BY <2>2 DEF Copied
    <2>7. out' \o Pending' = data
      BY <2>2, <2>3, <2>4, <2>5, <2>6, CopiedRest
    <2>8. Pending = << >>
      BY <2>1 DEF Pending, Copied
    <2>9. data \in Seq(Byte)
      BY <2>2
    <2>10. Len(out') = r
      <3>1. out' \in [1..r -> Byte]
        BY <2>2, <2>3, <2>4, RecvBufferAssumption DEF Copied, BufferTypeOK
      <3>2. QED
        BY <2>3, <3>1
    <2>11. data # << >> => out' # << >>
      <3>1. data # << >> => n >= 1
        BY <2>9
      <3>2. n >= 1 => r >= 1
        BY <2>2 DEF AtMost
      <3>3. QED
        BY <2>10, <3>1, <3>2
    <2>12. QED
      BY <2>3, <2>7, <2>8, <2>9, <2>10, <2>11 DEF Fifo!Receive
  <1>3. << >> \in Fifo!Chunks /\ Chunks = Fifo!Chunks
    <2>1. << >> \in [1..0 -> Byte]
      OBVIOUS
    <2>2. QED
      BY <2>1, RecvBufferAssumption DEF Chunks, Fifo!Chunks
  <1>4. CASE UNCHANGED bufferVars
    BY <1>4 DEF bufferVars, Pending, Copied
  <1>5. QED
    BY <1>1, <1>2, <1>3, <1>4 DEF BufferNext, Fifo!FifoNext

\* _recv_buf, _recv_buf_p and _recv_buf_len implement a lossless byte queue.
THEOREM ImplementsFifo == BufferSpec => IsFifo
  <1>1. BufferInit => Fifo!FifoInit
    BY DEF BufferInit, Fifo!FifoInit, Pending, Copied
  <1>2. BufferTypeOK /\ [BufferNext]_bufferVars => [Fifo!FifoNext]_<<Pending, out>>
    BY StepIsFifo
  <1>3. QED
    BY <1>1, <1>2, BufferTypeCorrect, PTL DEF BufferSpec, IsFifo, Fifo!FifoSpec, Fifo!fifo
-----------------------------------------------------------------------------
Character == Chars \cup {Digits[i] : i \in DOMAIN Digits}
PlaceOf   == 0..(BufferLen + MaxFrame)

\* The i-th character of the header of a frame of n bytes.
At(n, i) == IF i <= 5 THEN Ipd[i] ELSE IF i = 6 THEN Digits[n] ELSE ":"

Idle == /\ header = << >> /\ body = 0
        /\ state = "WAIT_IPD" /\ matched <= 2

\* The parser has seen what was sent of the header.
InHeader ==
    /\ body \in 1..MaxFrame /\ Len(header) \in 1..7
    /\ \A j \in 1..Len(header) : header[j] = At(body, 7 - Len(header) + j)
    /\ Len(header) = 7 => state = "WAIT_IPD" /\ matched <= 2
    /\ Len(header) \in 3..6 => state = "WAIT_IPD" /\ matched = 7 - Len(header)
    /\ Len(header) = 2 => state = "READ_LEN" /\ frameLen = 0
    /\ Len(header) = 1 => state = "READ_LEN" /\ frameLen = body
    /\ udp => place = 0

InBody == /\ header = << >> /\ body > 0
          /\ state = "READ_DATA" /\ frameLen = frameCount + body
          /\ udp => frameLen <= BufferLen /\ place = frameCount /\ buffer = FirstPlaces(place)

\* The datagram under way is too long: the parser has gone back to looking.
InLong == /\ header = << >> /\ body > 0 /\ udp
          /\ body + place > BufferLen /\ body + place <= MaxFrame
          /\ state = "WAIT_IPD" /\ matched = 0

Agrees == sync /\ plain /\ state # "returned" => Idle \/ InHeader \/ InBody \/ InLong

Unfinished == state = "READ_DATA" => frameCount < frameLen

IInv == /\ TypeOK /\ Unfinished /\ (~udp => plain) /\ Agrees
        /\ PayloadInOrder /\ ReturnsBetweenFrames /\ WholeDatagram
-----------------------------------------------------------------------------
\* The characters of a header.
LEMMA IpdLength == Len(Ipd) = 5
BY DEF Ipd

LEMMA IpdIs ==
    Ipd[1] = "+" /\ Ipd[2] = "I" /\ Ipd[3] = "P" /\ Ipd[4] = "D" /\ Ipd[5] = ","
BY DEF Ipd

LEMMA FiveOf ==
    ASSUME NEW S, NEW a \in S, NEW b \in S, NEW c \in S, NEW d \in S, NEW e \in S
    PROVE  <<a, b, c, d, e>> \in Seq(S)
OBVIOUS

LEMMA DigitIs ==
    ASSUME NEW n \in 1..9
    PROVE  IsDigit(Digits[n]) /\ Value(Digits[n]) = n
<1>1. n \in DOMAIN Digits /\ DOMAIN Digits = 1..9
  BY DEF Digits
<1>2. \A i \in DOMAIN Digits : Digits[i] = Digits[n] => i = n
  BY DEF Digits
<1>3. IsDigit(Digits[n])
  BY <1>1 DEF IsDigit
<1>4. Value(Digits[n]) = n
  BY <1>1, <1>2, Zenon DEF Value
<1> QED
  BY <1>3, <1>4

LEMMA ColonIsNoDigit == ~IsDigit(":")
<1>1. \A i \in 1..9 : Digits[i] # ":"
  BY DEF Digits
<1>2. DOMAIN Digits = 1..9
  BY DEF Digits
<1> QED
  BY <1>1, <1>2 DEF IsDigit

LEMMA ValueIs == ASSUME NEW c, IsDigit(c) PROVE Value(c) \in 1..9
<1>1. PICK i \in DOMAIN Digits : Digits[i] = c
  BY DEF IsDigit
<1>2. Value(c) \in DOMAIN Digits
  BY <1>1, Zenon DEF Value
<1> QED
  BY <1>2 DEF Digits

LEMMA Lengths ==
    /\ BufferLen \in Nat \ {0} /\ MaxFrame \in 1..9
    /\ LenBound = BufferLen + MaxFrame + 1 /\ LenBound \in Nat
BY IpdParserAssumption DEF IpdParserAssumption, LenBound

LEMMA Types ==
    ASSUME TypeOK
    PROVE  /\ state \in {"WAIT_IPD", "READ_LEN", "READ_DATA", "returned"}
           /\ matched \in 0..4 /\ frameLen \in 0..LenBound /\ frameCount \in 0..LenBound
           /\ buffer \in Seq(PlaceOf) /\ Len(buffer) <= BufferLen
           /\ timedOut \in BOOLEAN /\ sync \in BOOLEAN /\ udp \in BOOLEAN /\ plain \in BOOLEAN
           /\ header \in Seq(Character) /\ body \in 0..MaxFrame /\ place \in PlaceOf
<1>1. matched \in 0..(Len(Ipd) - 1)
  BY Zenon DEF TypeOK
<1>2. Len(Ipd) - 1 = 4
  BY IpdLength
<1>3. matched \in 0..4
  BY <1>1, <1>2
<1> QED
  BY <1>3, Zenon DEF TypeOK, PlaceOf, Character

\* The places in order, and one more.
LEMMA NoPlaces == FirstPlaces(0) = << >>
BY DEF FirstPlaces

LEMMA OnePlaceMore ==
    ASSUME NEW n \in Nat
    PROVE  /\ Len(FirstPlaces(n)) = n
           /\ Append(FirstPlaces(n), n + 1) = FirstPlaces(n + 1)
<1>1. FirstPlaces(n) \in Seq(Nat) /\ Len(FirstPlaces(n)) = n
  BY DEF FirstPlaces
<1>2. FirstPlaces(n + 1) \in Seq(Nat) /\ Len(FirstPlaces(n + 1)) = n + 1
  BY DEF FirstPlaces
<1>3. /\ Append(FirstPlaces(n), n + 1) \in Seq(Nat)
      /\ Len(Append(FirstPlaces(n), n + 1)) = n + 1
      /\ \A i \in 1..n : Append(FirstPlaces(n), n + 1)[i] = FirstPlaces(n)[i]
      /\ Append(FirstPlaces(n), n + 1)[n + 1] = n + 1
  BY <1>1, AppendProperties
<1>4. \A i \in 1..(n + 1) : Append(FirstPlaces(n), n + 1)[i] = FirstPlaces(n + 1)[i]
  BY <1>3 DEF FirstPlaces
<1> QED
  BY <1>1, <1>2, <1>3, <1>4, SeqEqual
-----------------------------------------------------------------------------
\* The types of what the parser changes.
LEMMA ParseTypes ==
    ASSUME IInv, NEW c, NEW spot \in PlaceOf, Parse(c, spot)
    PROVE  /\ state' \in {"WAIT_IPD", "READ_LEN", "READ_DATA", "returned"}
           /\ matched' \in 0..4 /\ frameLen' \in 0..LenBound /\ frameCount' \in 0..LenBound
           /\ buffer' \in Seq(PlaceOf) /\ Len(buffer') <= BufferLen
           /\ timedOut' = timedOut /\ udp' = udp /\ Unfinished'
<1>1. /\ state \in {"WAIT_IPD", "READ_LEN", "READ_DATA", "returned"}
      /\ matched \in 0..4 /\ frameLen \in 0..LenBound /\ frameCount \in 0..LenBound
      /\ buffer \in Seq(PlaceOf) /\ Len(buffer) <= BufferLen
      /\ Unfinished
  BY Types, Zenon DEF IInv
<1>2. udp' = udp
  BY DEF Parse
<1>3. CASE WaitIpd(c)
  <2>1. Match(c) \in 0..5
    BY <1>1 DEF Match, Mismatch
  <2>2. 0 \in 0..LenBound
    BY Lengths
  <2>3. /\ state' \in {"WAIT_IPD", "READ_LEN"} /\ matched' \in 0..4
        /\ frameLen' \in {0, frameLen} /\ frameCount' \in {0, frameCount}
        /\ buffer' = buffer /\ timedOut' = timedOut
    BY <1>1, <1>3, <2>1, IpdLength DEF WaitIpd
  <2> QED
    BY <1>1, <1>2, <2>2, <2>3 DEF Unfinished
<1>4. CASE ReadLen(c)
  <2>1. << >> \in Seq(PlaceOf) /\ Len(<< >>) = 0
    OBVIOUS
  <2>2. IsDigit(c) => UpTo(frameLen * 10 + Value(c), LenBound) \in 0..LenBound
    <3>1. frameLen \in Nat /\ LenBound \in Nat
      BY <1>1, Lengths
    <3>2. \A k \in Nat : UpTo(k, LenBound) \in 0..LenBound
      BY ONLY <3>1 DEF UpTo
    <3>3. \A k \in 1..9 : frameLen * 10 + k \in Nat
      BY ONLY <3>1
    <3> QED
      BY <3>2, <3>3, ValueIs
  <2>3. /\ state' \in {"WAIT_IPD", "READ_LEN", "READ_DATA"} /\ matched' \in 0..4
        /\ timedOut' = timedOut /\ frameLen' \in 0..LenBound
    BY <1>1, <1>4, <2>2 DEF ReadLen, Wait
  <2>4. /\ frameCount' \in {0, frameCount} /\ buffer' \in {<< >>, buffer}
        /\ state' = "READ_DATA" => frameCount' = 0 /\ frameLen' = frameLen /\ frameLen # 0
    BY <1>4 DEF ReadLen, Wait, Accepted
  <2>5. buffer' \in Seq(PlaceOf) /\ Len(buffer') <= BufferLen
    <3>1. CASE buffer' = << >>
      BY <2>1, <3>1, Lengths
    <3>2. CASE buffer' = buffer
      BY <1>1, <3>2
    <3> QED
      BY <2>4, <3>1, <3>2
  <2>6. frameCount' \in 0..LenBound
    BY <1>1, <2>4, Lengths
  <2>7. Unfinished'
    BY <2>3, <2>4, Lengths DEF Unfinished
  <2> QED
    BY <1>2, <2>3, <2>5, <2>6, <2>7
<1>5. CASE ReadData(spot)
  <2>1. frameCount < frameLen /\ frameCount' = frameCount + 1 /\ frameLen' = frameLen
    BY <1>1, <1>5 DEF ReadData, Unfinished
  <2>2. buffer' \in Seq(PlaceOf) /\ Len(buffer') <= BufferLen
    BY <1>1, <1>5, Lengths DEF ReadData, Store
  <2>3. /\ state' \in {"WAIT_IPD", "READ_LEN", "READ_DATA", "returned"} /\ matched' \in 0..4
        /\ timedOut' = timedOut
    BY <1>1, <1>5 DEF ReadData, Wait
  <2>4. Unfinished'
    BY <1>1, <1>5, <2>1 DEF ReadData, FrameEnds, Wait, Unfinished
  <2> QED
    BY <1>1, <1>2, <2>1, <2>2, <2>3, <2>4, Lengths
<1> QED
  BY <1>3, <1>4, <1>5 DEF Parse

\* The parser reads a character while it looks for a frame.
LEMMA Looking ==
    ASSUME IInv, NEW c, NEW spot, Parse(c, spot), state = "WAIT_IPD"
    PROVE  /\ Match(c) # 5 => state' = "WAIT_IPD" /\ matched' = Match(c)
           /\ Match(c) = 5 => state' = "READ_LEN" /\ frameLen' = 0
           /\ buffer' = buffer /\ udp' = udp /\ timedOut' = timedOut
BY IpdLength DEF Parse, WaitIpd, ReadLen, ReadData

LEMMA Initially == Init => IInv
<1> SUFFICES ASSUME Init PROVE IInv
  OBVIOUS
<1>1. TypeOK
  <2>1. udp \in BOOLEAN /\ timedOut \in BOOLEAN /\ sync \in BOOLEAN /\ plain \in BOOLEAN
    BY DEF Init
  <2>2. /\ matched \in 0..(Len(Ipd) - 1) /\ body \in 0..MaxFrame /\ place \in 0..(BufferLen + MaxFrame)
        /\ frameLen \in 0..LenBound /\ frameCount \in 0..LenBound
    BY Lengths, IpdLength DEF Init
  <2>3. /\ buffer \in Seq(0..(BufferLen + MaxFrame)) /\ Len(buffer) <= BufferLen
        /\ header \in Seq(Chars \cup {Digits[i] : i \in DOMAIN Digits})
    BY Lengths DEF Init
  <2>4. state \in {"WAIT_IPD", "READ_LEN", "READ_DATA", "returned"}
    BY DEF Init
  <2> QED
    BY <2>1, <2>2, <2>3, <2>4 DEF TypeOK
<1>2. UpTo(place, BufferLen) = 0 /\ buffer = FirstPlaces(0)
  BY Lengths, NoPlaces DEF Init, UpTo
<1>3. Idle
  BY DEF Init, Idle
<1> QED
  BY <1>1, <1>2, <1>3
     DEF Init, IInv, Unfinished, Agrees, PayloadInOrder, ReturnsBetweenFrames, WholeDatagram
-----------------------------------------------------------------------------
\* The sender's variables, and what the properties say when the call goes on.
LEMMA NoiseKeeps == ASSUME IInv, SendNoise PROVE IInv'
<1>1. PICK c \in Noise : Parse(c, 0)
  BY DEF SendNoise
<1>2. header = << >> /\ body = 0 /\ state # "returned" /\ UNCHANGED sender
  BY DEF SendNoise
<1>3. 0 \in PlaceOf
  BY Lengths DEF PlaceOf
<1>4. TypeOK' /\ Unfinished' /\ (~udp => plain)'
  <2>1. (~udp => plain)'
    BY <1>1, <1>2 DEF sender, Parse, IInv
  <2> QED
    BY <1>1, <1>2, <1>3, <2>1, ParseTypes, IpdLength DEF sender, IInv, TypeOK, PlaceOf
<1>5. CASE sync /\ plain
  <2>1. Idle
    <3>1. ~InHeader /\ ~InBody /\ ~InLong
      BY <1>2 DEF InHeader, InBody, InLong
    <3> QED
      BY <1>2, <1>5, <3>1 DEF IInv, Agrees
  <2>2. Match(c) <= 2 /\ Match(c) \in Nat
    <3>1. matched \in {0, 1, 2}
      BY <2>1, Types DEF Idle, IInv
    <3>2. c # Ipd[3]
      BY IpdIs DEF Noise
    <3>3. Match(c) \in {0, 1} \/ (Match(c) = matched + 1 /\ c = Ipd[matched + 1])
      BY DEF Match, Mismatch
    <3>4. matched + 1 \in {1, 2, 3} /\ (matched + 1 = 3 => c # Ipd[matched + 1])
      BY <3>1, <3>2
    <3> QED
      BY <3>3, <3>4
  <2>3. state' = "WAIT_IPD" /\ matched' = Match(c) /\ buffer' = buffer /\ udp' = udp
    BY <1>1, <2>1, <2>2, Looking DEF Idle
  <2>4. Idle'
    BY <1>2, <2>2, <2>3 DEF Idle, sender
  <2> QED
    BY <1>2, <1>4, <2>3, <2>4
       DEF IInv, Agrees, PayloadInOrder, ReturnsBetweenFrames, WholeDatagram, sender
<1>6. CASE ~(sync /\ plain)
  <2>1. udp' = udp
    BY <1>1 DEF Parse
  <2>2. ~sync' \/ udp'
    BY <1>2, <1>6, <2>1 DEF IInv, sender
  <2>3. ~(sync' /\ plain')
    BY <1>2, <1>6 DEF sender
  <2> QED
    BY <1>4, <2>2, <2>3
       DEF IInv, Agrees, PayloadInOrder, ReturnsBetweenFrames, WholeDatagram
<1> QED
  BY <1>5, <1>6

LEMMA HeaderKeeps == ASSUME IInv, SendHeader PROVE IInv'
<1> DEFINE c == Head(header)
<1>1. Parse(c, 0) /\ header # << >> /\ state # "returned" /\ header' = Tail(header)
      /\ UNCHANGED <<body, place, sync, plain>>
  BY DEF SendHeader
<1>2. 0 \in PlaceOf /\ header \in Seq(Character)
  BY Lengths DEF PlaceOf, IInv, TypeOK, Character
<1>3. /\ header' \in Seq(Character) /\ Len(header) \in Nat \ {0}
      /\ Len(header') = Len(header) - 1 /\ c = header[1]
      /\ \A j \in 1..Len(header') : header'[j] = header[j + 1]
  BY <1>1, <1>2, HeadTailProperties
<1> HIDE DEF c
<1>4. TypeOK' /\ Unfinished' /\ (~udp => plain)'
  <2>1. (~udp => plain)'
    BY <1>1 DEF Parse, IInv
  <2> QED
    BY <1>1, <1>2, <1>3, <2>1, ParseTypes, IpdLength DEF IInv, TypeOK, PlaceOf, Character
<1>5. CASE sync /\ plain
  <2>1. InHeader
    BY <1>1, <1>5 DEF IInv, Agrees, Idle, InBody, InLong
  <2>2. c = At(body, 8 - Len(header)) /\ Len(header) \in 1..7
    <3>1. Len(header) \in 1..7 /\ header[1] = At(body, 7 - Len(header) + 1)
      BY <2>1 DEF InHeader
    <3>2. 7 - Len(header) + 1 = 8 - Len(header)
      BY <3>1
    <3> QED
      BY <1>3, <3>1, <3>2
  <2>3. /\ body' = body /\ body \in 1..9 /\ body \in 1..MaxFrame /\ udp' = udp
        /\ place' = place /\ timedOut' = timedOut
    BY <1>1, <2>1, Lengths DEF InHeader, Parse, WaitIpd, ReadLen, ReadData
  <2>4. ASSUME Len(header') \in 1..7
        PROVE  \A j \in 1..Len(header') : header'[j] = At(body', 7 - Len(header') + j)
    <3> SUFFICES ASSUME NEW j \in 1..Len(header')
                 PROVE  header'[j] = At(body', 7 - Len(header') + j)
      OBVIOUS
    <3>1. j + 1 \in 1..Len(header) /\ header'[j] = header[j + 1]
      BY <1>3, <2>4
    <3>2. header[j + 1] = At(body, 7 - Len(header) + (j + 1))
      BY <2>1, <3>1 DEF InHeader
    <3>3. 7 - Len(header) + (j + 1) = 7 - Len(header') + j
      BY <1>3, <2>4
    <3> QED
      BY <2>3, <3>1, <3>2, <3>3
  <2>5. ASSUME Idle' \/ InHeader' \/ InBody' \/ InLong', buffer' = buffer, state' # "returned" PROVE IInv'
    BY <1>1, <1>4, <2>3, <2>5
       DEF IInv, Agrees, PayloadInOrder, ReturnsBetweenFrames, WholeDatagram
  <2>6. CASE Len(header) \in 4..7
    <3>1. state = "WAIT_IPD"
      BY <2>1, <2>6 DEF InHeader
    <3>2. Match(c) = 8 - Len(header)
      <4>1. c = Ipd[8 - Len(header)]
        <5>1. \A l \in 4..7 : 8 - l <= 5
          OBVIOUS
        <5>2. 8 - Len(header) <= 5
          BY <2>6, <5>1
        <5> QED
          BY <2>2, <5>2 DEF At
      <4>2. CASE Len(header) = 7
        <5>1. matched \in {0, 1, 2}
          BY <2>1, <4>2, Types DEF InHeader, IInv
        <5>2. c = Ipd[1]
          <6>1. 8 - Len(header) = 1
            BY <4>2
          <6> QED
            BY <4>1, <6>1
        <5>3. matched + 1 \in {2, 3} => c # Ipd[matched + 1]
          BY <5>1, <5>2, IpdIs
        <5>4. Match(c) = 1
          BY <5>1, <5>2, <5>3 DEF Match, Mismatch
        <5> QED
          BY <4>2, <5>4
      <4>3. CASE Len(header) \in 4..6
        <5>1. matched + 1 = 8 - Len(header)
          BY <2>1, <4>3 DEF InHeader
        <5>2. c = Ipd[matched + 1]
          BY <4>1, <5>1
        <5> QED
          BY <5>1, <5>2 DEF Match
      <4> QED
        BY <2>6, <4>2, <4>3
    <3>3. state' = "WAIT_IPD" /\ matched' = 8 - Len(header) /\ buffer' = buffer
      <4>1. Match(c) # 5
        BY ONLY <2>6, <3>2
      <4> QED
        BY <1>1, <3>1, <3>2, <4>1, Looking
    <3>4. InHeader'
      <4>1. Len(header') \in 3..6 /\ matched' = 7 - Len(header')
        <5>1. PICK k \in 4..7 : k = Len(header)
          BY <2>6
        <5>2. Len(header') = k - 1 /\ matched' = 8 - k
          BY <1>3, <3>3, <5>1
        <5> QED
          BY ONLY <5>1, <5>2
      <4>2. \A j \in 1..Len(header') : header'[j] = At(body', 7 - Len(header') + j)
        BY <2>4, <4>1
      <4>3. \A l \in 3..6 : l \in 1..7 /\ l # 7 /\ l # 2 /\ l # 1
        OBVIOUS
      <4>4. body' \in 1..MaxFrame /\ (udp' => place' = 0)
        BY <2>1, <2>3 DEF InHeader
      <4> QED
        BY <3>3, <4>1, <4>2, <4>3, <4>4 DEF InHeader
    <3> QED
      BY <2>5, <3>3, <3>4
  <2>7. CASE Len(header) = 3
    <3>1. state = "WAIT_IPD" /\ matched = 4 /\ c = Ipd[5]
      BY <2>1, <2>2, <2>7 DEF InHeader, At
    <3>2. Match(c) = 5
      BY <3>1 DEF Match
    <3>3. state' = "READ_LEN" /\ frameLen' = 0 /\ buffer' = buffer
      BY <1>1, <3>1, <3>2, Looking
    <3>4. InHeader'
      BY <1>3, <2>1, <2>3, <2>4, <2>7, <3>3 DEF InHeader
    <3> QED
      BY <2>5, <3>3, <3>4
  <2>8. CASE Len(header) = 2
    <3>1. state = "READ_LEN" /\ frameLen = 0 /\ c = Digits[body]
      BY <2>1, <2>2, <2>8 DEF InHeader, At
    <3>2. IsDigit(c) /\ Value(c) = body
      BY <2>3, <3>1, DigitIs
    <3>3. UpTo(frameLen * 10 + Value(c), LenBound) = body
      BY <2>3, <3>1, <3>2, Lengths DEF UpTo
    <3>4. state' = "READ_LEN" /\ frameLen' = body /\ buffer' = buffer
      BY <1>1, <3>1, <3>2, <3>3 DEF Parse, WaitIpd, ReadLen, ReadData
    <3>5. InHeader'
      BY <1>3, <2>1, <2>3, <2>4, <2>8, <3>4 DEF InHeader
    <3> QED
      BY <2>5, <3>4, <3>5
  <2>9. CASE Len(header) = 1
    <3>1. state = "READ_LEN" /\ frameLen = body /\ c = ":" /\ (udp => place = 0)
      BY <2>1, <2>2, <2>9 DEF InHeader, At
    <3>2. header' = << >>
      BY <1>3, <2>9, EmptySeq
    <3>3. CASE Accepted(frameLen)
      <4>1. /\ state' = "READ_DATA" /\ frameCount' = 0 /\ frameLen' = frameLen
            /\ buffer' = IF udp THEN << >> ELSE buffer
        BY <1>1, <3>1, <3>3, ColonIsNoDigit DEF Parse, WaitIpd, ReadLen, ReadData, Accepted
      <4>2. udp => frameLen <= BufferLen
        BY <2>3, <3>1, <3>3, Lengths DEF Accepted
      <4>3. InBody'
        BY <2>3, <3>1, <3>2, <4>1, <4>2, NoPlaces DEF InBody
      <4> QED
        BY <1>1, <1>4, <2>3, <4>1, <4>3
           DEF IInv, Agrees, PayloadInOrder, ReturnsBetweenFrames, WholeDatagram
    <3>4. CASE ~Accepted(frameLen)
      <4>1. udp /\ body > BufferLen /\ place = 0
        BY <2>3, <3>1, <3>4, Lengths DEF Accepted
      <4>2. state' = "WAIT_IPD" /\ matched' = 0 /\ buffer' = buffer
        BY <1>1, <3>1, <3>4, ColonIsNoDigit DEF Parse, WaitIpd, ReadLen, ReadData, Accepted, Wait
      <4>3. InLong'
        BY <2>3, <3>2, <4>1, <4>2, Lengths DEF InLong
      <4> QED
        BY <2>5, <4>2, <4>3
    <3> QED
      BY <3>3, <3>4
  <2> QED
    BY <2>2, <2>6, <2>7, <2>8, <2>9
<1>6. CASE ~(sync /\ plain)
  <2>1. udp' = udp
    BY <1>1 DEF Parse
  <2>2. ~sync' \/ udp'
    BY <1>1, <1>6, <2>1 DEF IInv
  <2>3. ~(sync' /\ plain')
    BY <1>1, <1>6
  <2> QED
    BY <1>4, <2>2, <2>3
       DEF IInv, Agrees, PayloadInOrder, ReturnsBetweenFrames, WholeDatagram
<1> QED
  BY <1>5, <1>6

LEMMA BodyKeeps == ASSUME IInv, SendBody PROVE IInv'
<1>1. PICK c \in Chars : /\ Parse(c, place')
                        /\ plain' = (plain /\ ~(udp /\ body + place > BufferLen /\ c = Ipd[1]))
  BY DEF SendBody
<1>2. /\ header = << >> /\ body > 0 /\ state # "returned" /\ body' = body - 1
      /\ place' = UpTo(place + 1, BufferLen + MaxFrame) /\ UNCHANGED <<header, sync>>
  BY DEF SendBody
<1>3. place \in PlaceOf /\ body \in 0..MaxFrame
  BY DEF PlaceOf, IInv, TypeOK
<1>4. place' \in PlaceOf
  BY <1>2, <1>3, Lengths DEF PlaceOf, UpTo
<1>5. TypeOK' /\ Unfinished' /\ (~udp => plain)'
  <2>1. plain' \in BOOLEAN /\ (~udp => plain)'
    BY <1>1, <1>2, Zenon DEF Parse, IInv
  <2>2. body' \in 0..MaxFrame
    BY <1>2, <1>3, Lengths
  <2> QED
    BY <1>1, <1>2, <1>4, <2>1, <2>2, ParseTypes, IpdLength DEF IInv, TypeOK, PlaceOf
<1>6. CASE sync /\ plain' /\ InLong
  <2>1. c # Ipd[1] /\ plain
    BY <1>1, <1>6 DEF InLong
  <2>2. Match(c) = 0
    <3>1. matched + 1 = 1
      BY <1>6 DEF InLong
    <3> QED
      BY <2>1, <3>1 DEF Match, Mismatch
  <2>3. state' = "WAIT_IPD" /\ matched' = 0 /\ buffer' = buffer /\ udp' = udp
    <3>1. state = "WAIT_IPD"
      BY <1>6 DEF InLong
    <3>2. Match(c) # 5
      BY ONLY <2>2
    <3> QED
      BY <1>1, <2>2, <3>1, <3>2, Looking
  <2>4. body + place > BufferLen /\ body + place <= MaxFrame /\ place' = place + 1 /\ body' = body - 1
    <3>1. body + place > BufferLen /\ body + place <= MaxFrame /\ body > 0
      BY <1>6 DEF InLong
    <3>2. place \in Nat /\ body \in Nat /\ MaxFrame \in Nat /\ BufferLen \in Nat \ {0}
      BY <1>3, Lengths DEF PlaceOf
    <3>3. place + 1 < BufferLen + MaxFrame
      BY ONLY <3>1, <3>2
    <3> QED
      BY <1>2, <3>1, <3>3 DEF UpTo
  <2>5. body' + place' = body + place /\ body' \in Nat
    <3>1. place \in Nat /\ body \in Nat \ {0}
      BY <1>2, <1>3, Lengths DEF PlaceOf
    <3> QED
      BY ONLY <2>4, <3>1
  <2>6. CASE body' = 0
    <3>1. matched' <= 2
      BY <2>3
    <3>2. header' = << >>
      BY <1>2
    <3>3. Idle'
      BY <2>3, <2>6, <3>1, <3>2, Zenon DEF Idle
    <3>4. Agrees'
      BY <3>3 DEF Agrees
    <3>5. udp' /\ state' # "returned"
      BY <1>6, <2>3 DEF InLong
    <3> QED
      BY <1>5, <3>4, <3>5 DEF IInv, PayloadInOrder, ReturnsBetweenFrames, WholeDatagram
  <2>7. CASE body' # 0
    <3>1. body' + place' > BufferLen /\ body' + place' <= MaxFrame /\ body' > 0
      <4>1. body' > 0
        BY ONLY <2>5, <2>7
      <4> QED
        BY <2>4, <2>5, <4>1, Zenon
    <3>2. header' = << >> /\ udp'
      BY <1>2, <1>6, <2>3 DEF InLong
    <3>3. InLong'
      BY <2>3, <3>1, <3>2, Zenon DEF InLong
    <3>4. Agrees'
      BY <3>3 DEF Agrees
    <3>5. state' # "returned"
      BY <2>3
    <3> QED
      BY <1>5, <3>2, <3>4, <3>5 DEF IInv, PayloadInOrder, ReturnsBetweenFrames, WholeDatagram
  <2> QED
    BY <2>6, <2>7
<1>7. CASE sync /\ plain' /\ ~InLong
  <2>1. InBody
    <3>1. plain
      BY <1>1, <1>7, Zenon
    <3> QED
      BY <1>2, <1>7, <3>1 DEF IInv, Agrees, Idle, InHeader
  <2>2. /\ state = "READ_DATA" /\ frameLen = frameCount + body /\ udp' = udp
        /\ frameCount \in Nat /\ buffer \in Seq(PlaceOf) /\ Len(buffer) <= BufferLen
    BY <1>1, <2>1, Lengths DEF InBody, Parse, IInv, TypeOK, PlaceOf
  <2>3. ReadData(place')
    BY <1>1, <2>2 DEF Parse, WaitIpd, ReadLen
  <2>4. frameCount' = frameCount + 1 /\ frameLen' = frameLen /\ buffer' = Store(place')
    BY <2>3 DEF ReadData
  <2>5. FrameEnds(frameCount + 1) <=> body' = 0
    BY <1>2, <1>3, <2>2 DEF FrameEnds
  <2>6. ~udp => buffer' = FirstPlaces(UpTo(place', BufferLen))
    <3> SUFFICES ASSUME ~udp PROVE buffer' = FirstPlaces(UpTo(place', BufferLen))
      OBVIOUS
    <3>1. buffer = FirstPlaces(UpTo(place, BufferLen))
      BY <1>7 DEF IInv, PayloadInOrder
    <3>2. CASE place < BufferLen
      <4>1. buffer = FirstPlaces(place) /\ place' = place + 1 /\ place \in Nat
        BY <1>2, <1>3, <3>1, <3>2, Lengths DEF UpTo, PlaceOf
      <4>2. Len(buffer) = place
        BY <4>1, OnePlaceMore
      <4>3. Store(place') = FirstPlaces(place + 1)
        BY <3>2, <4>1, <4>2, OnePlaceMore DEF Store
      <4> QED
        BY <2>4, <3>2, <4>1, <4>3, Lengths DEF UpTo
    <3>3. CASE place >= BufferLen
      <4>1. buffer = FirstPlaces(BufferLen) /\ UpTo(place', BufferLen) = BufferLen
        BY <1>2, <1>3, <3>1, <3>3, Lengths DEF UpTo, PlaceOf
      <4>2. Len(buffer) = BufferLen
        BY <4>1, Lengths, OnePlaceMore
      <4>3. Store(place') = buffer
        BY <4>2, Lengths DEF Store
      <4> QED
        BY <2>4, <4>1, <4>3
    <3> QED
      BY <1>3, <3>2, <3>3, Lengths DEF PlaceOf
  <2>7. udp => place' = frameCount' /\ buffer' = FirstPlaces(place')
    <3> SUFFICES ASSUME udp PROVE place' = frameCount' /\ buffer' = FirstPlaces(place')
      OBVIOUS
    <3>1. frameLen <= BufferLen /\ place = frameCount /\ buffer = FirstPlaces(place)
      BY <2>1 DEF InBody
    <3>2. place' = place + 1 /\ place < BufferLen
      BY <1>2, <1>3, <2>2, <3>1, Lengths DEF UpTo
    <3>3. Len(buffer) = place /\ place \in Nat
      BY <2>2, <3>1, OnePlaceMore
    <3> QED
      BY <2>2, <2>4, <3>1, <3>2, <3>3, OnePlaceMore DEF Store
  <2>8. PayloadInOrder'
    BY <2>2, <2>6 DEF PayloadInOrder
  <2>9. CASE body' # 0
    <3>1. state' = state
      BY <2>3, <2>5, <2>9 DEF ReadData
    <3>2. InBody'
      BY <1>2, <1>3, <2>1, <2>2, <2>4, <2>7, <2>9, <3>1 DEF InBody
    <3> QED
      BY <1>5, <2>2, <2>8, <3>1, <3>2 DEF IInv, Agrees, ReturnsBetweenFrames, WholeDatagram
  <2>10. CASE body' = 0
    <3>1. ReturnsBetweenFrames' /\ WholeDatagram'
      BY <1>2, <2>2, <2>7, <2>10 DEF ReturnsBetweenFrames, WholeDatagram
    <3>2. state' = "returned" \/ (state' = "WAIT_IPD" /\ matched' = 0)
      BY <2>3, <2>5, <2>10 DEF ReadData, Wait
    <3>3. Agrees'
      <4>1. CASE state' = "returned"
        BY <4>1 DEF Agrees
      <4>2. CASE state' = "WAIT_IPD" /\ matched' = 0
        <5>1. header' = << >> /\ body' = 0
          BY <1>2, <2>10
        <5>2. matched' <= 2
          BY <4>2
        <5>3. Idle'
          BY <4>2, <5>1, <5>2, Zenon DEF Idle
        <5> QED
          BY <5>3 DEF Agrees
      <4> QED
        BY <3>2, <4>1, <4>2
    <3> QED
      BY <1>5, <2>8, <3>1, <3>3 DEF IInv
  <2> QED
    BY <2>9, <2>10
<1>8. CASE ~(sync /\ plain')
  <2>1. udp' = udp
    BY <1>1 DEF Parse
  <2>2. ~sync' \/ udp'
    BY <1>1, <1>2, <1>8, <2>1 DEF IInv
  <2>3. ~(sync' /\ plain')
    BY <1>2, <1>8
  <2> QED
    BY <1>5, <2>2, <2>3
       DEF IInv, Agrees, PayloadInOrder, ReturnsBetweenFrames, WholeDatagram
<1> QED
  BY <1>6, <1>7, <1>8

LEMMA FrameKeeps == ASSUME IInv, StartFrame PROVE IInv'
<1>1. PICK n \in 1..MaxFrame : header' = Ipd \o <<Digits[n], ":">> /\ body' = n
  BY DEF StartFrame
<1>2. /\ header = << >> /\ body = 0 /\ state # "returned"
      /\ place' = (IF udp THEN 0 ELSE place) /\ UNCHANGED <<parser, sync, plain>>
  BY DEF StartFrame
<1>3. n \in 1..9 /\ DOMAIN Digits = 1..9
  BY Lengths DEF Digits
<1>4. Ipd \in Seq(Character) /\ <<Digits[n], ":">> \in Seq(Character)
  <2>1. Digits[n] \in Character /\ ":" \in Character
    BY <1>3 DEF Character, Chars
  <2>2. "+" \in Character /\ "I" \in Character /\ "P" \in Character
        /\ "D" \in Character /\ "," \in Character
    BY DEF Character, Chars
  <2> HIDE DEF Character
  <2>3. <<Digits[n], ":">> \in Seq(Character)
    BY <2>1
  <2> QED
    BY <2>2, <2>3, FiveOf DEF Ipd
<1>5. /\ header' \in Seq(Character) /\ Len(header') = 7
      /\ \A j \in 1..7 : header'[j] = At(n, j)
  <2> DEFINE rest == <<Digits[n], ":">>
  <2>1. Len(rest) = 2 /\ rest[1] = Digits[n] /\ rest[2] = ":"
    OBVIOUS
  <2>2. header' = Ipd \o rest /\ rest \in Seq(Character) /\ Ipd \in Seq(Character)
    BY <1>1, <1>4
  <2> HIDE DEF rest, Character
  <2>3. /\ header' \in Seq(Character) /\ Len(header') = Len(Ipd) + Len(rest)
        /\ \A j \in 1..(Len(Ipd) + Len(rest)) :
              header'[j] = IF j <= Len(Ipd) THEN Ipd[j] ELSE rest[j - Len(Ipd)]
    BY <2>2, ConcatProperties
  <2>4. Len(header') = 7
    BY <2>1, <2>3, IpdLength
  <2>5. \A j \in 1..7 : header'[j] = At(n, j)
    <3> SUFFICES ASSUME NEW j \in 1..7 PROVE header'[j] = At(n, j)
      OBVIOUS
    <3>1. header'[j] = IF j <= 5 THEN Ipd[j] ELSE rest[j - 5]
      BY <2>1, <2>3, IpdLength
    <3>2. CASE j <= 5
      BY <3>1, <3>2 DEF At
    <3>3. CASE j = 6
      BY <2>1, <3>1, <3>3 DEF At
    <3>4. CASE j = 7
      BY <2>1, <3>1, <3>4 DEF At
    <3> QED
      BY <3>2, <3>3, <3>4
  <2> QED
    BY <2>3, <2>4, <2>5
<1>6. TypeOK' /\ Unfinished' /\ (~udp => plain)'
  <2>1. plain' \in BOOLEAN /\ (~udp => plain)'
    BY <1>1, <1>2 DEF IInv, TypeOK, parser
  <2>2. body' \in 0..MaxFrame /\ place' \in 0..(BufferLen + MaxFrame)
    BY <1>1, <1>2, Lengths DEF IInv, TypeOK
  <2> QED
    BY <1>2, <1>5, <2>1, <2>2 DEF IInv, TypeOK, Unfinished, Character, parser
<1>7. Agrees'
  <2> SUFFICES ASSUME sync', plain' PROVE InHeader'
    BY DEF Agrees
  <2>1. sync /\ plain
    BY <1>2
  <2>2. state = "WAIT_IPD" /\ matched <= 2
    BY <1>2, <2>1 DEF IInv, Agrees, Idle, InHeader, InBody, InLong
  <2>3. \A j \in 1..Len(header') : header'[j] = At(body', 7 - Len(header') + j)
    <3>1. \A j \in 1..7 : 7 - 7 + j = j
      OBVIOUS
    <3> QED
      BY <1>1, <1>5, <3>1
  <2>4. /\ Len(header') = 7 /\ state' = "WAIT_IPD" /\ matched' <= 2
        /\ body' \in 1..MaxFrame /\ (udp' => place' = 0)
    BY <1>1, <1>2, <1>5, <2>1, <2>2 DEF parser
  <2>5. \A l : l = 7 => l \in 1..7 /\ l \notin 3..6 /\ l # 2 /\ l # 1
    OBVIOUS
  <2> QED
    BY <2>3, <2>4, <2>5 DEF InHeader
<1>8. PayloadInOrder' /\ ReturnsBetweenFrames' /\ WholeDatagram'
  BY <1>2 DEF IInv, PayloadInOrder, ReturnsBetweenFrames, WholeDatagram, parser
<1> QED
  BY <1>6, <1>7, <1>8 DEF IInv

LEMMA TimeoutKeeps == ASSUME IInv, Timeout PROVE IInv'
<1>1. TypeOK' /\ (~udp => plain)'
  <2>1. buffer' \in Seq(PlaceOf) /\ Len(buffer') <= BufferLen
    <3>1. << >> \in Seq(PlaceOf) /\ Len(<< >>) = 0
      OBVIOUS
    <3>2. buffer \in Seq(PlaceOf) /\ Len(buffer) <= BufferLen
      BY Types DEF IInv
    <3>3. CASE buffer' = << >>
      BY <3>1, <3>3, Lengths
    <3>4. CASE buffer' = buffer
      BY <3>2, <3>4
    <3> QED
      BY <3>3, <3>4 DEF Timeout
  <2>2. state' = "returned" /\ timedOut' = TRUE
        /\ UNCHANGED <<udp, matched, frameLen, frameCount, sender>>
    BY DEF Timeout
  <2> QED
    BY <2>1, <2>2 DEF IInv, TypeOK, PlaceOf, sender
<1>2. Unfinished' /\ Agrees'
  BY DEF Timeout, Unfinished, Agrees
<1>3. PayloadInOrder' /\ ReturnsBetweenFrames' /\ WholeDatagram'
  BY DEF Timeout, IInv, PayloadInOrder, ReturnsBetweenFrames, WholeDatagram, sender
<1> QED
  BY <1>1, <1>2, <1>3 DEF IInv

LEMMA ReceiveKeeps == ASSUME IInv, Receive PROVE IInv'
<1>1. TypeOK'
  <2>1. udp' \in BOOLEAN /\ timedOut' \in BOOLEAN /\ plain' \in BOOLEAN /\ sync' \in BOOLEAN
    BY DEF Receive
  <2>2. /\ matched' \in 0..4 /\ place' \in 0..(BufferLen + MaxFrame)
        /\ frameLen' \in 0..LenBound /\ frameCount' \in 0..LenBound /\ state' = "WAIT_IPD"
    BY Lengths DEF Receive, Wait
  <2>3. buffer' \in Seq(0..(BufferLen + MaxFrame)) /\ Len(buffer') <= BufferLen
    BY Lengths DEF Receive
  <2>4. UNCHANGED <<header, body>>
    BY DEF Receive
  <2> QED
    BY <2>1, <2>2, <2>3, <2>4, IpdLength DEF IInv, TypeOK
<1>2. UpTo(place', BufferLen) = 0 /\ buffer' = FirstPlaces(0)
  BY Lengths, NoPlaces DEF Receive, UpTo
<1>3. Agrees'
  <2> SUFFICES ASSUME sync' PROVE Idle'
    BY DEF Agrees
  <2>1. header = << >> /\ body = 0
    BY Zenon DEF Receive
  <2> QED
    BY <2>1 DEF Receive, Wait, Idle
<1> QED
  BY <1>1, <1>2, <1>3
     DEF Receive, Wait, IInv, Unfinished, PayloadInOrder, ReturnsBetweenFrames, WholeDatagram

LEMMA Invariance == Spec => []IInv
<1>1. IInv /\ UNCHANGED vars => IInv'
  BY DEF IInv, TypeOK, Unfinished, Agrees, Idle, InHeader, InBody, InLong, PayloadInOrder,
         ReturnsBetweenFrames, WholeDatagram, vars, parser, sender
<1>2. IInv /\ [Next]_vars => IInv'
  BY <1>1, TimeoutKeeps, ReceiveKeeps, HeaderKeeps, BodyKeeps, NoiseKeeps, FrameKeeps DEF Next
<1> QED
  BY Initially, <1>2, PTL DEF Spec
-----------------------------------------------------------------------------
\* No byte is stored beyond the buffer, for buffers of any size, and wherever in
\* a frame a call begins.
THEOREM TypeCorrect == Spec => []TypeOK
<1>1. IInv => TypeOK
  BY DEF IInv
<1> QED
  BY Invariance, <1>1, PTL

\* WIFI_ReceiveTCP has the payload and nothing else, whatever payload and noise
\* look like, when it begins between two frames.
THEOREM PayloadReceived == Spec => []PayloadInOrder
<1>1. IInv => PayloadInOrder
  BY DEF IInv
<1> QED
  BY Invariance, <1>1, PTL

\* A call that begins between two frames ends between two, unless its time is up.
THEOREM EndsBetweenFrames == Spec => []ReturnsBetweenFrames
<1>1. IInv => ReturnsBetweenFrames
  BY DEF IInv
<1> QED
  BY Invariance, <1>1, PTL

\* WIFI_ReceiveUDP returns one datagram, and the whole of it; one that is longer
\* than the buffer is discarded, unless a header could begin in it.
THEOREM DatagramReceived == Spec => []WholeDatagram
<1>1. IInv => WholeDatagram
  BY DEF IInv
<1> QED
  BY Invariance, <1>1, PTL
=============================================================================
