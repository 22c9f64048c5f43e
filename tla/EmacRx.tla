------------------------------- MODULE EmacRx -------------------------------
(***************************************************************************)
(* The receiving half of the Ethernet driver, src/lwip/netif/lpc_emac.c:   *)
(* a ring of N descriptors shared with the EMAC's DMA, which fills the     *)
(* descriptors from RxProduceIndex on while net_service takes the frames   *)
(* from RxConsumeIndex on and puts a new pbuf in each emptied descriptor   *)
(* (zero copy).  rx_fill_desc_index is where the next pbuf goes and        *)
(* rx_free_descs how many descriptors lack one.                            *)
(*                                                                         *)
(* The EMAC is external: it writes a frame to the descriptor at            *)
(* RxProduceIndex unless the next one is RxConsumeIndex, may set the       *)
(* overrun flag, and restarts at 0 when reset.                             *)
(***************************************************************************)
EXTENDS Integers, Sequences, FiniteSets

CONSTANTS
    RxN,        \* LPC_NUM_BUFF_RXDESCS
    RxFrames,   \* frames that arrive
    RxBufs      \* pbufs of full size the heap holds

ASSUME RxAssumption ==
    RxN \in Nat /\ RxN > 2 /\ RxBufs \in Nat /\ RxBufs >= RxN

VARIABLES
    rxb,                  \* rxb[i]: descriptor i has a pbuf
    prxs,                 \* what statusinfo and the buffer of i hold
    RxProduceIndex, RxConsumeIndex, overrun,
    rx_fill_desc_index, rx_free_descs,
    stack,                \* pbufs the rest of the stack holds
    taken                    \* the frame last handed to netif->input, if any

rxregs == <<RxProduceIndex, RxConsumeIndex, overrun>>
rxvars == <<rxb, prxs, rxregs, rx_fill_desc_index, rx_free_descs, stack, taken>>

Slots == 0 .. RxN - 1

\* whole: statusinfo has no error bit.  lpc_rxqueue_pbuf sets all of them.
Blank == [frame |-> "none", whole |-> FALSE]
Arrived == [frame : RxFrames, whole : BOOLEAN]

\* The heap after lpc_low_level_init: lpc_rx_setup has filled the ring
InitRx ==
    /\ rxb = [i \in Slots |-> TRUE]
    /\ prxs = [i \in Slots |-> Blank]
    /\ RxProduceIndex = 0 /\ RxConsumeIndex = 0 /\ overrun = FALSE
    /\ rx_fill_desc_index = 0 /\ rx_free_descs = 0
    /\ stack = 0 /\ taken = <<>>

-----------------------------------------------------------------------------
(* The EMAC and the rest of the stack *)

HwReceive ==
    /\ (RxProduceIndex + 1) % RxN # RxConsumeIndex
    /\ \E a \in Arrived : prxs' = [prxs EXCEPT ![RxProduceIndex] = a]
    /\ RxProduceIndex' = (RxProduceIndex + 1) % RxN
    /\ UNCHANGED <<rxb, RxConsumeIndex, overrun, rx_fill_desc_index, rx_free_descs,
                   stack, taken>>

HwOverrun ==
    /\ overrun' = TRUE
    /\ UNCHANGED <<rxb, prxs, RxProduceIndex, RxConsumeIndex, rx_fill_desc_index,
                   rx_free_descs, stack, taken>>

\* pbufs pbuf_alloc can still find
Queued(b) == Cardinality({i \in Slots : b[i]})
FreeBufs == RxBufs - stack - Queued(rxb)

\* Other parts of the stack allocate pbufs, and free them and the frames they
\* were given.
StackAlloc == FreeBufs > 0 /\ stack' = stack + 1
StackFree == stack > 0 /\ stack' = stack - 1
Stack ==
    /\ StackAlloc \/ StackFree
    /\ UNCHANGED <<rxb, prxs, rxregs, rx_fill_desc_index, rx_free_descs, taken>>

-----------------------------------------------------------------------------
(* The driver *)

\* Mutant: the EMAC is not told of the new pbuf
RxQueueUntold ==
    /\ rx_free_descs # 0 /\ FreeBufs > 0
    /\ rxb' = [rxb EXCEPT ![rx_fill_desc_index] = TRUE]
    /\ prxs' = [prxs EXCEPT ![rx_fill_desc_index] = Blank]
    /\ rx_fill_desc_index' = (rx_fill_desc_index + 1) % RxN
    /\ rx_free_descs' = rx_free_descs - 1
    /\ UNCHANGED <<RxProduceIndex, RxConsumeIndex, overrun, stack, taken>>
\* lpc_rx_queue with lpc_rxqueue_pbuf, when there is a pbuf for a descriptor that
\* lacks one.  Without one it returns -1, and net_service takes no frame.
RxQueue ==
    /\ rx_free_descs # 0 /\ FreeBufs > 0
    /\ LET idx == rx_fill_desc_index
           next == IF idx + 1 >= RxN THEN 0 ELSE idx + 1
       IN  /\ rxb' = [rxb EXCEPT ![idx] = TRUE]
           /\ prxs' = [prxs EXCEPT ![idx] = Blank]
           /\ rx_fill_desc_index' = next
           /\ RxConsumeIndex' = next
    /\ rx_free_descs' = rx_free_descs - 1
    /\ UNCHANGED <<RxProduceIndex, overrun, stack, taken>>

\* Mutant: after an overrun the queueing of pbufs is left to net_service
InputOverrunUnqueued ==
    /\ rx_free_descs = 0 /\ overrun
    /\ overrun' = FALSE
    /\ rxb' = [i \in Slots |-> FALSE]
    /\ rx_free_descs' = RxN /\ rx_fill_desc_index' = 0
    /\ RxProduceIndex' = 0
    /\ taken' = <<>>
    /\ UNCHANGED <<prxs, RxConsumeIndex, stack>>
\* lpc_low_level_input after an overrun, with lpc_rx_setup: every pbuf is freed
\* and as many as can be are queued from descriptor 0 on.
InputOverrun ==
    LET found == RxBufs - stack
        n == IF found < RxN THEN found ELSE RxN
    IN  /\ rx_free_descs = 0 /\ overrun
        /\ overrun' = FALSE
        /\ rxb' = [i \in Slots |-> i < n]
        /\ prxs' = [i \in Slots |-> IF i < n THEN Blank ELSE prxs[i]]
        /\ rx_free_descs' = RxN - n
        /\ rx_fill_desc_index' = n % RxN
        /\ RxConsumeIndex' = IF n = 0 THEN RxConsumeIndex ELSE n % RxN
        /\ RxProduceIndex' = 0
        /\ taken' = <<>>
        /\ UNCHANGED stack

\* Mutant: a frame is taken although its predecessor has not been replaced
InputUnguarded ==
    LET idx == RxConsumeIndex
        good == prxs[idx].whole
    IN  /\ ~overrun
        /\ RxProduceIndex # idx
        /\ rxb' = [rxb EXCEPT ![idx] = FALSE]
        /\ rx_free_descs' = rx_free_descs + (IF good \/ rxb[idx] THEN 1 ELSE 0)
        /\ stack' = stack + (IF good THEN 1 ELSE 0)
        /\ taken' = IF good THEN <<prxs[idx].frame>> ELSE <<>>
        /\ UNCHANGED <<prxs, rxregs, rx_fill_desc_index>>
\* lpc_enetif_input: lpc_low_level_input takes the frame at RxConsumeIndex, and a
\* whole one goes to netif->input with its pbuf.
Input ==
    LET idx == RxConsumeIndex
        good == prxs[idx].whole
    IN  /\ rx_free_descs = 0 /\ ~overrun
        /\ RxProduceIndex # idx
        /\ rxb' = [rxb EXCEPT ![idx] = FALSE]
        /\ rx_free_descs' = rx_free_descs + (IF good \/ rxb[idx] THEN 1 ELSE 0)
        /\ stack' = stack + (IF good THEN 1 ELSE 0)
        /\ taken' = IF good THEN <<prxs[idx].frame>> ELSE <<>>
        /\ UNCHANGED <<prxs, rxregs, rx_fill_desc_index>>

NextRx ==
    HwReceive \/ HwOverrun \/ Stack \/ RxQueue \/ InputOverrun \/ Input

SpecRx == InitRx /\ [][NextRx]_rxvars

-----------------------------------------------------------------------------
(* Properties *)

\* Registers and counters are in range, and no more pbufs are in use than the
\* heap has.
RxTypeOK ==
    /\ rxb \in [Slots -> BOOLEAN]
    /\ prxs \in [Slots -> Arrived \cup {Blank}]
    /\ RxProduceIndex \in Slots /\ RxConsumeIndex \in Slots /\ overrun \in BOOLEAN
    /\ rx_fill_desc_index \in Slots /\ rx_free_descs \in 0 .. RxN
    /\ stack \in Nat /\ FreeBufs >= 0
    /\ \/ taken = <<>>
       \/ \E f \in RxFrames : taken = <<f>>

\* From a going round the ring to b
Ahead(a, b) == (b - a) % RxN

\* Every descriptor the EMAC may write to before the driver moves RxConsumeIndex
\* has a pbuf, so it never writes to one that was handed up or freed; this is
\* so across overruns and while pbuf_alloc fails.
DmaHasBuffers ==
    \A i \in Slots :
        Ahead(RxProduceIndex, i) + 1 < (IF RxConsumeIndex = RxProduceIndex THEN RxN
                                        ELSE Ahead(RxProduceIndex, RxConsumeIndex))
            => rxb[i]

\* The frame taken has a pbuf: lpc_low_level_input uses rxb[idx] of a whole frame
\* without looking whether it is NULL.
InputHasBuffer ==
    rx_free_descs = 0 /\ RxProduceIndex # RxConsumeIndex => rxb[RxConsumeIndex]

\* Frames received and not yet taken: those from RxConsumeIndex on, less the one
\* whose descriptor waits for a new pbuf.
FramesWaiting ==
    LET first == RxConsumeIndex + rx_free_descs
    IN  [k \in 1 .. Ahead(RxConsumeIndex, RxProduceIndex) - rx_free_descs |->
            prxs[(first + k - 1) % RxN]]

\* The ring is a queue of frames that come up once each and in order.
Link == INSTANCE EtherLink
            WITH Frame <- RxFrames, Capacity <- RxN - 1, waiting <- FramesWaiting
FramesInOrder == Link!Spec

\* A frame that waits is taken sooner or later, unless the receiver overruns.
FramesTaken ==
    \A i \in Slots : []<>(RxConsumeIndex # i \/ RxProduceIndex = i \/ overrun)

\* What lpc_enetif_input and lpc_rx_queue keep true of the ring while the EMAC
\* fills it.
RxSound == RxTypeOK /\ DmaHasBuffers /\ InputHasBuffer
=============================================================================
