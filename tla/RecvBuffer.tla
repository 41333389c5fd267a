----------------------------- MODULE RecvBuffer -----------------------------
(* The circular receive buffer of FreeRTOS-Env/src/publisher.c: _recv_buf,   *)
(* _recv_buf_p and _recv_buf_len with get_recv_buffer, the function behind   *)
(* NETWORK_Recv.                                                             *)
EXTENDS Naturals, Sequences

CONSTANTS Byte,    \* values of a byte
          Size,    \* RECV_BUF_SIZE
          Zero     \* the value static memory starts with

ASSUME RecvBufferAssumption == Size \in Nat \ {0} /\ Zero \in Byte

VARIABLES mem,     \* _recv_buf
          p,       \* _recv_buf_p
          len,     \* _recv_buf_len
          out      \* what the last call wrote to address

bufferVars == <<mem, p, len, out>>

AtMost(a, b) == IF a > b THEN b ELSE a

\* Mutant of Advanced: the position is not wrapped.
NotWrapped(count) == p + count

\* cpy_recv_buffer(dst, count): what goes to dst, and where it leaves p, when
\* the buffer is m and holds held bytes from p on.
Copied(m, count) == [i \in 1..count |-> m[(p + (i - 1)) % Size]]
Advanced(count)  == (p + count) % Size

\* write_recv_buffer(src, count): src[i] goes to (p + len + i) % Size for every
\* i below count, which is cut to the space left.
Room(count) == AtMost(count, Size - len)
Written(src, count) ==
    [j \in 0..Size - 1 |->
       LET i == (j + (2 * Size - (p + len))) % Size
       IN  IF i < Room(count) THEN src[i + 1] ELSE mem[j]]

\* get_recv_buffer with something buffered: no new data is asked for.
FromBuffer(size) ==
    LET ret == AtMost(size, len)
    IN  /\ len > 0
        /\ out' = Copied(mem, ret)
        /\ p' = Advanced(ret)
        /\ len' = len - ret
        /\ UNCHANGED mem

\* Mutant of Empty: new data is asked for when a request cannot be filled.
CannotFill(size) == len < size

\* get_recv_buffer with the buffer empty.
Empty(size) == len = 0

\* ReceiveTcp brings data in; none, or an error, makes the call return 0.
FromWifi(size, data) ==
    LET held == len + Room(Len(data))
        ret  == AtMost(size, held)
    IN  /\ Empty(size)
        /\ mem' = Written(data, Len(data))
        /\ out' = Copied(mem', ret)
        /\ p' = Advanced(ret)
        /\ len' = held - ret

Chunks == UNION {[1..n -> Byte] : n \in 0..Size}

BufferInit == /\ mem = [j \in 0..Size - 1 |-> Zero]
        /\ p = 0 /\ len = 0 /\ out = << >>

BufferNext == \E size \in 1..Size :
          \/ FromBuffer(size)
          \/ \E data \in Chunks : FromWifi(size, data)

BufferSpec == BufferInit /\ [][BufferNext]_bufferVars
-----------------------------------------------------------------------------
\* The indices stay inside the array and out is a piece of the stream.
BufferTypeOK == /\ mem \in [0..Size - 1 -> Byte]
          /\ p \in 0..Size - 1 /\ len \in 0..Size
          /\ out \in Chunks

\* The bytes still to be handed out, oldest first.
Pending == Copied(mem, len)

Fifo == INSTANCE ByteFifo WITH Capacity <- Size, pending <- Pending

\* Across any mixture of request sizes and wrap-arounds the buffer is the
\* lossless queue that MQTTPacket_readnb needs: write_recv_buffer, which drops
\* what does not fit, is only called when everything fits.
IsFifo == Fifo!FifoSpec
=============================================================================
