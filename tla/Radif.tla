-------------------------------- MODULE Radif --------------------------------
(***************************************************************************)
(* The radio interface: struct radif with its two rings of frames          *)
(* (src/radio/radio.c), the interrupt handler that drives the AT86RF212    *)
(* (src/radio/radio_irq.c, rf212.c) and the transceiver itself.            *)
(*                                                                         *)
(* Three actors.  The service level (rf212_init from main, then            *)
(* radif_service from the RIT interrupt, priority 31) runs only while no   *)
(* radio interrupt is being handled.  The handler radio_irq runs at        *)
(* priority 5 for both TIMER2 (the software trigger) and EINT1 (the        *)
(* transceiver's pin), never nested.  The transceiver moves at any time,   *)
(* also between two register accesses of the handler.                      *)
(***************************************************************************)
EXTENDS Integers, Sequences

CONSTANTS
    NumTx,       \* NUM_TXFRAMES = 8
    NumRx,       \* NUM_RXFRAMES = 8
    Heard,       \* frames other stations send to this one
    Said,        \* frames the receive callback sends
    Blank,       \* the contents of a slot or buffer that holds no frame
    Filtered     \* whether frames addressed to other stations are on the air

ASSUME RadifAssumption ==
    /\ NumTx \in Nat \ {0, 1} /\ NumRx \in Nat \ {0, 1}
    /\ Filtered \in BOOLEAN

Frame == Heard \cup Said \cup {Blank}
TxSlots == 0 .. NumTx - 1
RxSlots == 0 .. NumRx - 1

VARIABLES
    TxFrames, TxProduceIndex, TxConsumeIndex,
    RxFrames, RxProduceIndex, RxConsumeIndex,
    Command,           \* "NO_COMMAND" or the command to do
    up,                \* the interface is operational
    \* the service level
    rit,               \* where it is
    boot,              \* commands rf212_init has issued
    reply,             \* the frame radif_send was called with, until it returns
    \* the handler
    irq,               \* where it is; "none" when it does not run
    \* hardware
    timer, eint,       \* TIMER2 and EINT1 are pending
    chip,              \* the transceiver's state
    irq_status,        \* its IRQ_STATUS; the pin is high while this is not empty
    buffer             \* its one frame buffer, for reception and transmission

tx_ring == <<TxFrames, TxProduceIndex, TxConsumeIndex>>
rx_ring == <<RxFrames, RxProduceIndex, RxConsumeIndex>>
ctl     == <<Command, up>>
service == <<rit, boot, reply>>
pins    == <<timer, eint>>
radio   == <<chip, irq_status, buffer>>
varsRadif == <<TxFrames, TxProduceIndex, TxConsumeIndex,
               RxFrames, RxProduceIndex, RxConsumeIndex, Command, up,
               rit, boot, reply, irq, timer, eint,
               chip, irq_status, buffer>>

NextSlot(i, n) == IF i + 1 = n THEN 0 ELSE i + 1

\* The commands of rf212_init.
BootCommands ==
    <<"RESET", "SET_MODULATION", "SET_FREQ", "SET_POWER", "SET_ADDRESS", "STARTUP">>

\* radio_is_state_busy.  "RECEIVING" and "ACKING" both read BUSY_RX_AACK: a
\* frame is arriving; it has arrived and its acknowledgement is being sent.
Busy(c) == c \in {"RECEIVING", "ACKING", "BUSY_RX", "BUSY_TX_ARET"}

InitRadif ==
    /\ TxFrames = [i \in TxSlots |-> Blank] /\ TxProduceIndex = 0 /\ TxConsumeIndex = 0
    /\ RxFrames = [i \in RxSlots |-> Blank] /\ RxProduceIndex = 0 /\ RxConsumeIndex = 0
    /\ Command = "NO_COMMAND" /\ up = FALSE
    /\ rit = "boot" /\ boot = 0 /\ reply = Blank 
    /\ irq = "none" /\ timer = FALSE /\ eint = FALSE
    /\ chip = "TRX_OFF" /\ irq_status = {} /\ buffer = Blank

-----------------------------------------------------------------------------
(* The service level *)

\* A step of it from place a to place b.
Rit(a, b) == irq = "none" /\ rit = a /\ rit' = b

\* rf212_trigger_interrupt
TriggerInterrupt == timer' = TRUE /\ UNCHANGED eint

(* radif_command, from rf212_init *)

CommandIssue ==
    /\ Rit("boot", "boot_trigger")
    /\ Command' = BootCommands[boot + 1]
    /\ boot' = boot + 1
    /\ UNCHANGED <<up, reply, irq, pins, tx_ring, rx_ring, radio>>

CommandTrigger ==
    /\ Rit("boot_trigger", "boot_wait")
    /\ TriggerInterrupt
    /\ UNCHANGED <<boot, reply, irq, ctl, tx_ring, rx_ring, radio>>

CommandDone ==
    /\ Command = "NO_COMMAND"
    /\ \/ Rit("boot_wait", "boot") /\ boot < Len(BootCommands)
       \/ Rit("boot_wait", "idle") /\ boot = Len(BootCommands)
    /\ UNCHANGED <<boot, reply, irq, ctl, pins, tx_ring, rx_ring, radio>>

(* radif_service *)

\* The callback on the oldest frame, which answers with a frame or not.
Callback ==
    /\ RxConsumeIndex # RxProduceIndex
    /\ \/ Rit("idle", "consume") /\ UNCHANGED reply
       \/ Rit("idle", "send") /\ reply' \in Said
    /\ UNCHANGED <<boot, irq, ctl, pins, tx_ring, rx_ring, radio>>

Consume ==
    /\ Rit("consume", "idle")
    /\ RxConsumeIndex' = NextSlot(RxConsumeIndex, NumRx)
    /\ UNCHANGED <<RxFrames, RxProduceIndex, boot, reply, irq, ctl, pins, tx_ring,
                   radio>>

(* radif_send *)

\* Mutant: the frame goes into the slot after the one that is published.
SendSlotNext == NextSlot(TxProduceIndex, NumTx)
SendSlot == TxProduceIndex

\* Once there is room, which only radif_send takes up, the frame is copied.
SendFill(from) ==
    /\ NextSlot(TxProduceIndex, NumTx) # TxConsumeIndex
    /\ Rit(from, "publish")
    /\ TxFrames' = [TxFrames EXCEPT ![SendSlot] = reply]
    /\ UNCHANGED <<TxProduceIndex, TxConsumeIndex, boot, reply, irq, ctl, pins, rx_ring, radio>>

SendFull ==
    /\ NextSlot(TxProduceIndex, NumTx) = TxConsumeIndex
    /\ \/ up /\ Rit("send", "spin") /\ TriggerInterrupt /\ UNCHANGED reply
       \/ ~up /\ Rit("send", "consume") /\ UNCHANGED pins /\ reply' = Blank
    /\ UNCHANGED <<boot, irq, ctl, tx_ring, rx_ring, radio>>

SendPublish ==
    /\ Rit("publish", "trigger")
    /\ TxProduceIndex' = NextSlot(TxProduceIndex, NumTx)
    /\ UNCHANGED <<TxFrames, TxConsumeIndex, boot, reply, irq, ctl, pins, rx_ring,
                   radio>>

\* Mutant: no interrupt is triggered.
SendTriggerForgotten ==
    /\ Rit("trigger", "consume")
    /\ reply' = Blank
    /\ UNCHANGED <<boot, irq, ctl, pins, tx_ring, rx_ring, radio>>
SendTrigger ==
    /\ Rit("trigger", "consume")
    /\ TriggerInterrupt
    /\ reply' = Blank
    /\ UNCHANGED <<boot, irq, ctl, tx_ring, rx_ring, radio>>

-----------------------------------------------------------------------------
(* The handler *)

\* A step of it from place a to place b.
Irq(a, b) == irq = a /\ irq' = b

\* TIMER2_IRQHandler and EINT1_IRQHandler clear their request and call radio_irq.
Enter ==
    /\ \/ timer /\ timer' = FALSE /\ UNCHANGED eint
       \/ eint /\ eint' = FALSE /\ UNCHANGED timer
    /\ \/ up /\ Irq("none", "status")
       \/ ~up /\ Irq("none", "command")
    /\ UNCHANGED <<ctl, service, tx_ring, rx_ring, radio>>

\* Reading IRQ_STATUS clears it and lowers the pin.
ReadStatus ==
    /\ \/ "TRX_END" \in irq_status /\ Irq("status", "trx_end")
       \/ "TRX_END" \notin irq_status /\ Irq("status", "tx")
    /\ irq_status' = {}
    /\ UNCHANGED <<chip, buffer, ctl, service, pins, tx_ring, rx_ring>>

\* radio_trx_end tells reception from transmission by the present state.
Receiving == chip \in {"RX_ON", "RX_AACK_ON", "RECEIVING", "ACKING"}

\* radio_tx_end, without its statistics
TxEnd ==
    /\ Irq("trx_end", "tx")
    /\ ~Receiving
    /\ UNCHANGED <<ctl, service, pins, tx_ring, rx_ring, radio>>

\* "This isn't going to collide with the consume index"; mutant: no check.
RxRoomAlways == TRUE
RxRoom == NextSlot(RxProduceIndex, NumRx) # RxConsumeIndex

\* radio_rx_end.  A frame that is arriving meanwhile may spoil what is read.
RxEnd ==
    /\ Irq("trx_end", "rx_wait")
    /\ Receiving
    /\ IF RxRoom
       THEN /\ \E got \in {buffer} \cup (IF chip \in {"RECEIVING", "BUSY_RX"} THEN {Blank} ELSE {}) :
                 RxFrames' = [RxFrames EXCEPT ![RxProduceIndex] = got]
            /\ RxProduceIndex' = NextSlot(RxProduceIndex, NumRx)
       ELSE UNCHANGED <<RxFrames, RxProduceIndex>>
    /\ UNCHANGED <<RxConsumeIndex, ctl, service, pins, tx_ring, radio>>

\* Mutant: nothing is transmitted after a reception.
RxWaitNoTx ==
    /\ Irq("rx_wait", "command")
    /\ chip \notin {"RECEIVING", "ACKING"}
    /\ UNCHANGED <<ctl, service, pins, tx_ring, rx_ring, radio>>
RxWait ==
    /\ Irq("rx_wait", "tx")
    /\ chip \notin {"RECEIVING", "ACKING"}
    /\ UNCHANGED <<ctl, service, pins, tx_ring, rx_ring, radio>>

(* radio_tx *)

TxSkip ==
    /\ Irq("tx", "command")
    /\ TxConsumeIndex = TxProduceIndex \/ Busy(chip)
    /\ UNCHANGED <<ctl, service, pins, tx_ring, rx_ring, radio>>

\* From here radio_set_state waits for a reception under way, but another may
\* begin before the transceiver is stopped.
TxStart ==
    /\ Irq("tx", "tx_force")
    /\ TxConsumeIndex # TxProduceIndex /\ ~Busy(chip)
    /\ UNCHANGED <<ctl, service, pins, tx_ring, rx_ring, radio>>

\* CMD_FORCE_TRX_OFF stops the transceiver whatever it does; it is idle until
\* CMD_TX_START.
TxForce ==
    /\ Irq("tx_force", "command")
    /\ buffer' = TxFrames[TxConsumeIndex]
    /\ chip' = "BUSY_TX_ARET"
    /\ TxConsumeIndex' = NextSlot(TxConsumeIndex, NumTx)
    /\ UNCHANGED <<TxFrames, TxProduceIndex, irq_status, ctl, service, pins, rx_ring>>

\* radio_command
Carried(c) == CASE c \in {"RESET", "SET_MODULATION"} -> "TRX_OFF"
                [] c = "STARTUP" -> "RX_ON"
                [] OTHER -> chip

\* Mutant: STARTUP is carried out but not marked as done.
DoCommandStartupKept ==
    /\ Irq("command", "final")
    /\ Command' = IF Command = "STARTUP" THEN Command ELSE "NO_COMMAND"
    /\ up' = (up \/ Command = "STARTUP")
    /\ chip' = Carried(Command)
    /\ irq_status' = IF Command = "RESET" THEN {} ELSE irq_status
    /\ UNCHANGED <<buffer, service, pins, tx_ring, rx_ring>>
DoCommand ==
    /\ Irq("command", "final")
    /\ Command' = "NO_COMMAND"
    /\ up' = (up \/ Command = "STARTUP")
    /\ chip' = Carried(Command)
    /\ irq_status' = IF Command = "RESET" THEN {} ELSE irq_status
    /\ UNCHANGED <<buffer, service, pins, tx_ring, rx_ring>>

\* The last lines of radio_irq: radio_set_state(RX_AACK_ON), unless busy.  A
\* frame that begins to arrive meanwhile makes it wait, and changes nothing.
\* Mutant: EINT1 is acknowledged here, after it has been serviced.
FinalClears ==
    /\ Irq("final", "none")
    /\ chip' = IF up /\ ~Busy(chip) THEN "RX_AACK_ON" ELSE chip
    /\ eint' = FALSE
    /\ UNCHANGED <<timer, irq_status, buffer, ctl, service, tx_ring, rx_ring>>
Final ==
    /\ Irq("final", "none")
    /\ chip' = IF up /\ ~Busy(chip) THEN "RX_AACK_ON" ELSE chip
    /\ UNCHANGED <<irq_status, buffer, ctl, service, pins, tx_ring, rx_ring>>

-----------------------------------------------------------------------------
(* The transceiver, and EINT1 on the rising edge of its pin *)

Raise(source) ==
    /\ irq_status' = irq_status \cup {source}
    /\ eint' = (eint \/ irq_status = {})

\* A frame begins to arrive.
ReceiveBegin ==
    /\ \/ chip = "RX_AACK_ON" /\ chip' = "RECEIVING"
       \/ chip = "RX_ON" /\ chip' = "BUSY_RX"
    /\ Raise("RX_START")
    /\ UNCHANGED <<buffer, irq, timer, ctl, service, tx_ring, rx_ring>>

\* It was for this station.
ReceiveEnd ==
    /\ \/ chip = "RECEIVING" /\ chip' \in {"ACKING", "RX_AACK_ON"}
       \/ chip = "BUSY_RX" /\ chip' = "RX_ON"
    /\ buffer' \in Heard
    /\ Raise("TRX_END")
    /\ UNCHANGED <<irq, timer, ctl, service, tx_ring, rx_ring>>

\* It was not, or was damaged: no TRX_END.
ReceiveFiltered ==
    /\ Filtered
    /\ chip = "RECEIVING" /\ chip' = "RX_AACK_ON"
    /\ buffer' = Blank
    /\ UNCHANGED <<irq_status, irq, ctl, service, pins, tx_ring, rx_ring>>

AckSent ==
    /\ chip = "ACKING" /\ chip' = "RX_AACK_ON"
    /\ UNCHANGED <<irq_status, buffer, irq, ctl, service, pins, tx_ring, rx_ring>>

TransmitEnd ==
    /\ chip = "BUSY_TX_ARET" /\ chip' = "TX_ARET_ON"
    /\ Raise("TRX_END")
    /\ UNCHANGED <<buffer, irq, timer, ctl, service, tx_ring, rx_ring>>

-----------------------------------------------------------------------------
Service ==
    \/ CommandIssue \/ CommandTrigger \/ CommandDone
    \/ Callback \/ Consume
    \/ SendFull \/ SendFill("send") \/ SendFill("spin") \/ SendPublish \/ SendTrigger

Handler ==
    \/ Enter \/ ReadStatus \/ TxEnd \/ RxEnd \/ RxWait
    \/ TxSkip \/ TxStart \/ TxForce \/ DoCommand \/ Final

Transceiver == ReceiveBegin \/ ReceiveEnd \/ ReceiveFiltered \/ AckSent \/ TransmitEnd

NextRadif == Service \/ Handler \/ Transceiver

SpecRadif == InitRadif /\ [][NextRadif]_varsRadif

\* The hardware keeps its promises (interrupts are taken, receptions and
\* transmissions end, polling sees an idle moment), the interrupts leave time
\* for the RIT level, frames for this station keep arriving, and the channel is
\* not so full that radio_tx finds one arriving whenever it looks.
ChannelNotFull == []<>(irq = "tx") => []<>(irq = "tx" /\ ~Busy(chip))

FairnessRadif ==
    /\ SF_varsRadif(Service) /\ SF_varsRadif(Handler) /\ SF_varsRadif(TxStart)
    /\ WF_varsRadif(ReceiveBegin) /\ SF_varsRadif(ReceiveEnd) /\ WF_varsRadif(AckSent) /\ WF_varsRadif(TransmitEnd)
    /\ ChannelNotFull

FairSpecRadif == SpecRadif /\ FairnessRadif

-----------------------------------------------------------------------------
\* The contents of a ring: the frames from index c up to, not including, p.
Count(c, p, n) == IF c <= p THEN p - c ELSE p - c + n
SlotAt(c, k, n) == IF c + k - 1 < n THEN c + k - 1 ELSE c + k - 1 - n
Contents(frames, c, p, n) == [k \in 1 .. Count(c, p, n) |-> frames[SlotAt(c, k, n)]]

TxQueue == Contents(TxFrames, TxConsumeIndex, TxProduceIndex, NumTx)
RxQueue == Contents(RxFrames, RxConsumeIndex, RxProduceIndex, NumRx)
LastReceived == RxFrames[IF RxProduceIndex = 0 THEN NumRx - 1 ELSE RxProduceIndex - 1]

TxRing == INSTANCE FrameQueue
    WITH Capacity <- NumTx - 1, in <- reply, queue <- TxQueue
RxRing == INSTANCE FrameQueue
    WITH Capacity <- NumRx - 1, in <- LastReceived, queue <- RxQueue

\* The ring indexes stay inside the rings and every actor is at one of its places.
RadifTypeOK ==
    /\ TxFrames \in [TxSlots -> Said \cup {Blank}] /\ RxFrames \in [RxSlots -> Frame]
    /\ TxProduceIndex \in TxSlots /\ TxConsumeIndex \in TxSlots
    /\ RxProduceIndex \in RxSlots /\ RxConsumeIndex \in RxSlots
    /\ Command \in {"NO_COMMAND", "RESET", "SET_MODULATION", "SET_FREQ", "SET_POWER",
                    "SET_ADDRESS", "STARTUP"}
    /\ up \in BOOLEAN /\ timer \in BOOLEAN /\ eint \in BOOLEAN
    /\ rit \in {"boot", "boot_trigger", "boot_wait", "idle", "send", "spin", "publish",
                "trigger", "consume"}
    /\ boot \in 0 .. Len(BootCommands)
    /\ reply \in Said \cup {Blank}
    /\ irq \in {"none", "status", "trx_end", "rx_wait", "tx", "tx_force", "command", "final"}
    /\ chip \in {"TRX_OFF", "RX_ON", "BUSY_RX", "RX_AACK_ON", "RECEIVING", "ACKING",
                 "TX_ARET_ON", "BUSY_TX_ARET"}
    /\ irq_status \subseteq {"RX_START", "TRX_END"}
    /\ buffer \in Frame

\* Whatever radif_send and radio_tx do when they interleave, the transmit ring
\* is a FIFO queue: each frame radif_send is given enters it whole, once and in
\* order, and none is accepted when NUM_TXFRAMES-1 are waiting.
TxFifo == TxRing!Spec

\* Likewise radio_rx_end and radif_service for the receive ring: frames leave
\* it only from the front, one per callback.
RxFifo == RxRing!Spec

\* The handler never writes to the frame the callback is working on.
CallbackFrameStable ==
    [][(rit \in {"send", "spin", "publish", "trigger", "consume"})
         => RxFrames'[RxConsumeIndex] = RxFrames[RxConsumeIndex]]_varsRadif

\* EINT1 is edge-triggered, so an event of the transceiver that neither raises
\* the pin nor is read by the handler under way would silence the radio for
\* good: as long as an event is latched the handler is due.
NoLostInterrupt == irq_status # {} => eint \/ irq = "status"

\* radif_send's trigger is never lost: as long as a frame waits, the handler
\* is due or the transceiver is busy and will report the end of what it does.
QueuedIsAttended ==
    TxConsumeIndex # TxProduceIndex /\ irq = "none" /\ rit # "trigger"
        => timer \/ eint \/ Busy(chip)

(* Why these hold: the inductive invariant *)

\* The commands of rf212_init are done one at a time; until the last, STARTUP,
\* is done, the transceiver is off and nothing else happens.
BootInv ==
    /\ rit = "boot" => boot < Len(BootCommands)
    /\ Command = "STARTUP" => boot = Len(BootCommands)
    /\ up => boot = Len(BootCommands) /\ Command = "NO_COMMAND"
    /\ ~up => /\ boot = Len(BootCommands) => Command = "STARTUP"
              /\ rit \in {"boot", "boot_trigger", "boot_wait"}
              /\ irq \in {"none", "command", "final"}
              /\ chip = "TRX_OFF" /\ irq_status = {}
              /\ RxConsumeIndex = RxProduceIndex /\ TxConsumeIndex = TxProduceIndex

\* A frame about to be published is whole and has room; the handler transmits,
\* and the callback works, only when there is a frame.
RingInv ==
    /\ rit = "publish" => /\ TxFrames[TxProduceIndex] = reply
                          /\ NextSlot(TxProduceIndex, NumTx) # TxConsumeIndex
    /\ rit \in {"send", "spin", "publish", "trigger", "consume"} => RxConsumeIndex # RxProduceIndex
    /\ irq = "tx_force" => TxConsumeIndex # TxProduceIndex

\* While the acknowledgement of a reception is sent, its end is reported; and
\* while a frame waits, something will bring radio_tx about.
WakeInv ==
    /\ chip = "ACKING" => "TRX_END" \in irq_status \/ irq \in {"trx_end", "rx_wait"}
    /\ ~Filtered /\ TxConsumeIndex # TxProduceIndex /\ rit # "trigger"
         => timer \/ eint \/ Busy(chip) \/ irq \in {"status", "trx_end", "rx_wait", "tx", "tx_force"}

\* What radif_send, radif_service, radio_irq and the transceiver keep true
\* together; it implies NoLostInterrupt and QueuedIsAttended.
RadifInv == RadifTypeOK /\ BootInv /\ RingInv /\ NoLostInterrupt /\ WakeInv

\* rf212_init waits for each command to be carried out by the interrupt it
\* triggers, and this always comes about.
BootCompletes == <>(up /\ rit = "idle")

\* Every frame in the transmit ring is transmitted in the end, so that
\* radif_send never spins for ever at a full ring.
QueuedIsSent ==
    \A i \in TxSlots : TxConsumeIndex = i /\ TxProduceIndex # i ~> TxConsumeIndex # i

\* "We've been receiving": what radio_rx_end puts into the receive ring came
\* from another station.
ReceivedFromOthers == \A k \in 1 .. Len(RxQueue) : RxQueue[k] \in Heard \cup {Blank}
=============================================================================
