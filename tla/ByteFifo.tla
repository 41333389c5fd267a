------------------------------ MODULE ByteFifo ------------------------------
(* What NETWORK_Recv promises MQTTPacket_readnb: the bytes of the TCP stream *)
(* in the order in which they were received, each once, and something        *)
(* whenever there is something to be had.                                    *)
EXTENDS Naturals, Sequences

CONSTANTS Byte,      \* values of a byte
          Capacity   \* bytes one receive can bring in

VARIABLES pending,   \* received and not yet handed out
          out        \* what the last call wrote to its caller's address

fifo == <<pending, out>>

Chunks == UNION {[1..n -> Byte] : n \in 0..Capacity}

FifoInit == pending = << >> /\ out = << >>

\* One call: new data may come in only when nothing is pending.
Receive(data, size) ==
    /\ pending # << >> => data = << >>
    /\ pending \o data = out' \o pending'
    /\ Len(out') <= size
    /\ pending \o data # << >> => out' # << >>

FifoNext == \E data \in Chunks, size \in 1..Capacity : Receive(data, size)

FifoSpec == FifoInit /\ [][FifoNext]_fifo
=============================================================================
