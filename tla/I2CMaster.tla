----------------------------- MODULE I2CMaster -----------------------------
(* The I2C master of DRIVERS/src/I2C.c: the task that starts a transfer and  *)
(* waits in a loop on the flag blocking, and the interrupt handler that      *)
(* moves the bytes and clears it.  The bus has one master and no bus errors: *)
(* the handler's branches for lost arbitration and for other states are not  *)
(* modelled.  Calls do not overlap, since the radio wrapper's mutex is held. *)
(* Who calls is in the module that extends this one.                         *)
EXTENDS Naturals

CONSTANTS MaxSize,     \* the largest transfer
          Paced        \* TRUE: a call waits for the last one's transfer to end

ASSUME I2CMasterAssumption == MaxSize \in Nat \ {0} /\ Paced \in BOOLEAN

VARIABLES
    pc,        \* of the task: "idle", "start", "block" or "wait"
    blocking,  \* the flag
    read,      \* conn.R_W
    size,      \* conn.data_size
    index,     \* conn.data_index
    state,     \* conn.state
    sta,       \* the controller was told to send a START condition
    next,      \* the status codes the controller may interrupt with next
    done,      \* bytes of this call the device has acknowledged, or sent
    missed,    \* the transfer was over before its caller set blocking
    result     \* what the last call returned

task == <<pc, result>>
conn == <<read, size, index, state>>
busVars == <<task, blocking, conn, sta, next, done, missed>>

Status == {"Start_tx", "TX_data", "Addr_NACK", "TX_data_ACK", "TX_data_NACK",
           "Request_RX", "Request_RX_NACK", "RX_data", "RX_data_NACK"}
-----------------------------------------------------------------------------
\* I2CMASTER_Transmit and I2CMASTER_Receive: conn is filled in and SI, STA and
\* AA are cleared.  Nothing makes a caller wait for the byte that the device
\* still sends when a receive has returned, but the pace at which it calls.
Call(reads, n) ==
    /\ pc = "idle" /\ pc' = "start"
    /\ Paced => next = {} /\ ~sta
    /\ read' = reads /\ size' = n /\ index' = 0 /\ state' = "None"
    /\ sta' = FALSE /\ done' = 0 /\ missed' = FALSE
    /\ UNCHANGED <<blocking, next, result>>

Start == /\ pc = "start" /\ pc' = "block" /\ sta' = TRUE
         /\ UNCHANGED <<blocking, conn, next, done, missed, result>>

Block == /\ pc = "block" /\ pc' = "wait" /\ blocking' = TRUE
         /\ missed' = (next = {} /\ ~sta)
         /\ UNCHANGED <<conn, sta, next, done, result>>

\* The loop turns until it finds the flag cleared: it waits for an interrupt, of
\* which the tick is one, and then for 100 us.
Return == /\ pc = "wait" /\ ~blocking /\ pc' = "idle" /\ result' = state /\ done' = 0
          /\ UNCHANGED <<blocking, conn, sta, next, missed>>

Waits == Start \/ Block \/ Return
-----------------------------------------------------------------------------
\* The controller starts a transfer when none is going on.
Possible == IF next = {} /\ sta THEN {"Start_tx"} ELSE next

Ends == blocking' = FALSE /\ next' = {}          \* STO, blocking = false
Goes(codes) == next' = codes /\ UNCHANGED blocking

\* Mutant of LastByte: off by one.
LastByteLess == index + 1 >= size
LastByte == index >= size

\* I2C0_IRQHandler, one status code each.
OnStart == /\ Goes(IF read THEN {"Request_RX", "Request_RX_NACK"} ELSE {"TX_data", "Addr_NACK"})
           /\ sta' = FALSE /\ UNCHANGED <<index, done>>

OnAddressed == /\ Goes({"TX_data_ACK", "TX_data_NACK"})
               /\ index' = index + 1 /\ UNCHANGED <<sta, done>>

OnRequestAcked == Goes({"RX_data"}) /\ UNCHANGED <<index, sta, done>>

OnNack == Ends /\ UNCHANGED <<index, sta, done>>

OnAcked == /\ done' = done + 1 /\ UNCHANGED sta
           /\ \/ LastByte /\ Ends /\ UNCHANGED index
              \/ ~LastByte /\ Goes({"TX_data_ACK", "TX_data_NACK"}) /\ index' = index + 1

\* The byte is stored; after the last one AA is cleared, so the device sends
\* one more, which is the one that is not acknowledged.
OnReceived == /\ index' = index + 1 /\ done' = done + 1 /\ UNCHANGED sta
              /\ IF index + 1 >= size
                 THEN blocking' = FALSE /\ next' = {"RX_data_NACK"}
                 ELSE Goes({"RX_data"})

OnLastReceived == Ends /\ index' = index + 1 /\ UNCHANGED <<sta, done>>

Interrupt ==
    /\ \E code \in Possible :
         /\ state' = code
         /\ CASE code = "Start_tx"     -> OnStart
              [] code = "TX_data"      -> OnAddressed
              [] code = "TX_data_ACK"  -> OnAcked
              [] code = "Request_RX"   -> OnRequestAcked
              [] code = "RX_data"      -> OnReceived
              [] code = "RX_data_NACK" -> OnLastReceived
              [] OTHER                 -> OnNack
    /\ UNCHANGED <<task, read, size, missed>>
-----------------------------------------------------------------------------
BusInit == /\ pc = "idle" /\ blocking = FALSE /\ read = FALSE /\ size = 0 /\ index = 0
           /\ state = "None" /\ sta = FALSE /\ next = {} /\ done = 0 /\ missed = FALSE /\ result = "None"
-----------------------------------------------------------------------------
\* Every variable holds a value of its kind; conn.data_index leaves the
\* caller's buffer by the one byte that a receive stores too many, and no more.
BusTypeOK ==
    /\ pc \in {"idle", "start", "block", "wait"}
    /\ blocking \in BOOLEAN /\ missed \in BOOLEAN /\ read \in BOOLEAN /\ sta \in BOOLEAN
    /\ size \in 0..MaxSize /\ index \in 0..(size + 1) /\ done \in 0..size
    /\ state \in Status \cup {"None"} /\ result \in Status \cup {"None"}
    /\ next \subseteq Status

\* What Radio_setReg and Radio_getReg take for success.
Success == IF read THEN {"RX_data", "RX_data_NACK"} ELSE {"TX_data_ACK", "TX_data"}

\* A transmission that its caller takes for a success was acknowledged by the
\* device to its last byte, and a receive that its caller takes for a success has
\* every byte that was asked for, also when the wake-up of its call was missed.
SuccessMeansDone == [][Return /\ state \in Success => done = size]_busVars

\* The lost wake-up that the order of STA and blocking leaves open: another task
\* ran, for a byte's time (100 us) at least, between the two statements of Start
\* and Block.  Nothing clears the flag any more.
Hung == missed /\ pc = "wait"
=============================================================================
