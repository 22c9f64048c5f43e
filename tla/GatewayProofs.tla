--------------------------- MODULE GatewayProofs ----------------------------
(***************************************************************************)
(* Proofs about the way of a record from the sensor to the database, for   *)
(* rings of any size, any number of records and any number of mishaps: the *)
(* rings of the radio interface (Radif), where the invariant RadifInv is   *)
(* inductive, one lemma per actor, and the rings refine FrameQueue, from   *)
(* four lemmas on what the indexes of a ring select; and the whole gateway *)
(* (Gateway).                                                              *)
(***************************************************************************)
EXTENDS Radif, Gateway, TLAPS

-----------------------------------------------------------------------------
(* The rings of the radio interface *)

\* The list of rf212_init's commands, whose last one is STARTUP.
LEMMA BootLen ==
    /\ Len(BootCommands) = 6
    /\ \A k \in 0 .. 5 :
         /\ BootCommands[k + 1] \in {"RESET", "SET_MODULATION", "SET_FREQ", "SET_POWER",
                                    "SET_ADDRESS", "STARTUP"}
         /\ BootCommands[k + 1] = "STARTUP" <=> k = 5
BY SMTT(30) DEF BootCommands

\* Every step of rf212_init, radif_service and radif_send preserves it.
LEMMA ServiceInv == RadifInv /\ Service => RadifInv'
<1> SUFFICES ASSUME RadifInv, Service PROVE RadifInv'
  OBVIOUS
<1> USE RadifAssumption, BootLen
     DEF RadifInv, RadifTypeOK, BootInv, RingInv, NoLostInterrupt, WakeInv, TxSlots, RxSlots, Frame,
         NextSlot, Busy, tx_ring, rx_ring, ctl, service, pins, radio
<1>1. CASE CommandIssue
  BY <1>1 DEF CommandIssue, Rit
<1>2. CASE CommandTrigger
  BY <1>2 DEF CommandTrigger, Rit, TriggerInterrupt
<1>3. CASE CommandDone
  BY <1>3 DEF CommandDone, Rit
<1>4. CASE Callback
  BY <1>4 DEF Callback, Rit
<1>5. CASE Consume
  BY <1>5 DEF Consume, Rit
<1>6. CASE SendFull
  BY <1>6, Zenon DEF SendFull, Rit, TriggerInterrupt
<1>7. CASE SendFill("send")
  BY <1>7 DEF SendFill, Rit, SendSlot
<1>8. CASE SendFill("spin")
  BY <1>8 DEF SendFill, Rit, SendSlot
<1>9. CASE SendPublish
  BY <1>9 DEF SendPublish, Rit
<1>10. CASE SendTrigger
  BY <1>10 DEF SendTrigger, Rit, TriggerInterrupt
<1> QED
  BY <1>1, <1>2, <1>3, <1>4, <1>5, <1>6, <1>7, <1>8, <1>9, <1>10, Zenon DEF Service

\* Every step of radio_irq preserves it.
LEMMA HandlerInv == RadifInv /\ Handler => RadifInv'
<1> SUFFICES ASSUME RadifInv, Handler PROVE RadifInv'
  OBVIOUS
<1> USE RadifAssumption, BootLen
     DEF RadifInv, RadifTypeOK, BootInv, RingInv, NoLostInterrupt, WakeInv, TxSlots, RxSlots, Frame,
         NextSlot, Busy, tx_ring, rx_ring, ctl, service, pins, radio
<1>1. CASE Enter
  <2>1. timer' \in BOOLEAN /\ eint' \in BOOLEAN
    BY <1>1, Zenon DEF Enter
  <2>2. RadifTypeOK'
    BY <1>1, <2>1 DEF Enter, Irq
  <2>3. BootInv'
    BY <1>1 DEF Enter, Irq
  <2>4. RingInv'
    BY <1>1 DEF Enter, Irq
  <2>5. NoLostInterrupt'
    BY <1>1, Zenon DEF Enter, Irq
  <2>6. WakeInv'
    BY <1>1 DEF Enter, Irq
  <2> QED
    BY <2>2, <2>3, <2>4, <2>5, <2>6, Zenon DEF RadifInv
<1>2. CASE ReadStatus
  BY <1>2 DEF ReadStatus, Irq
<1>3. CASE TxEnd
  BY <1>3 DEF TxEnd, Irq, Receiving
<1>4. CASE RxEnd
  BY <1>4 DEF RxEnd, Irq, Receiving, RxRoom
<1>5. CASE RxWait
  BY <1>5 DEF RxWait, Irq
<1>6. CASE TxSkip
  BY <1>6 DEF TxSkip, Irq
<1>7. CASE TxStart
  BY <1>7 DEF TxStart, Irq
<1>8. CASE TxForce
  BY <1>8 DEF TxForce, Irq
<1>9. CASE DoCommand
  <2>1. RadifTypeOK'
    BY <1>9 DEF DoCommand, Irq, Carried
  <2>2. BootInv'
    BY <1>9, Zenon DEF DoCommand, Irq, Carried
  <2>3. RingInv'
    BY <1>9 DEF DoCommand, Irq, Carried
  <2>4. NoLostInterrupt'
    BY <1>9 DEF DoCommand, Irq, Carried
  <2>5. WakeInv'
    BY <1>9 DEF DoCommand, Irq, Carried
  <2> QED
    BY <2>1, <2>2, <2>3, <2>4, <2>5 DEF RadifInv
<1>10. CASE Final
  BY <1>10 DEF Final, Irq
<1> QED
  BY <1>1, <1>2, <1>3, <1>4, <1>5, <1>6, <1>7, <1>8, <1>9, <1>10, Zenon DEF Handler

\* Every step of the transceiver preserves it.
LEMMA TransceiverInv == RadifInv /\ Transceiver => RadifInv'
<1> SUFFICES ASSUME RadifInv, Transceiver PROVE RadifInv'
  OBVIOUS
<1> USE RadifAssumption, BootLen
     DEF RadifInv, RadifTypeOK, BootInv, RingInv, NoLostInterrupt, WakeInv, TxSlots, RxSlots, Frame,
         NextSlot, Busy, tx_ring, rx_ring, ctl, service, pins, radio
<1>1. CASE ReceiveBegin
  BY <1>1 DEF ReceiveBegin, Raise
<1>2. CASE ReceiveEnd
  BY <1>2 DEF ReceiveEnd, Raise
<1>3. CASE ReceiveFiltered
  BY <1>3 DEF ReceiveFiltered
<1>4. CASE AckSent
  BY <1>4 DEF AckSent
<1>5. CASE TransmitEnd
  BY <1>5 DEF TransmitEnd, Raise
<1> QED
  BY <1>1, <1>2, <1>3, <1>4, <1>5, Zenon DEF Transceiver

\* rf212_init starts in a state of the invariant.
LEMMA InitInv == InitRadif => RadifInv
<1> SUFFICES ASSUME InitRadif PROVE RadifInv
  OBVIOUS
<1> USE RadifAssumption, BootLen DEF InitRadif, TxSlots, RxSlots, Frame
<1>1. RadifTypeOK
  <2>1. up \in BOOLEAN /\ timer \in BOOLEAN /\ eint \in BOOLEAN
    BY Zenon
  <2> QED
    BY <2>1 DEF RadifTypeOK
<1>2. BootInv /\ RingInv
  BY DEF BootInv, RingInv
<1>3. NoLostInterrupt /\ WakeInv
  BY DEF NoLostInterrupt, WakeInv, Busy
<1> QED
  BY <1>1, <1>2, <1>3 DEF RadifInv

\* Every step preserves it.
LEMMA NextInv == RadifInv /\ [NextRadif]_varsRadif => RadifInv'
<1> SUFFICES ASSUME RadifInv, [NextRadif]_varsRadif PROVE RadifInv'
  OBVIOUS
<1>1. CASE NextRadif
  BY <1>1, ServiceInv, HandlerInv, TransceiverInv DEF NextRadif
<1>2. CASE UNCHANGED varsRadif
  BY <1>2 DEF varsRadif, RadifInv, RadifTypeOK, BootInv, RingInv, NoLostInterrupt, WakeInv, Busy
<1> QED
  BY <1>1, <1>2

-----------------------------------------------------------------------------
(* The rings *)

\* The contents of a ring are a sequence of Count frames.
LEMMA ContentsSeq ==
    ASSUME NEW n \in Nat \ {0, 1}, NEW S, NEW f \in [0 .. n - 1 -> S],
           NEW c \in 0 .. n - 1, NEW p \in 0 .. n - 1
    PROVE  /\ Count(c, p, n) \in 0 .. n - 1
           /\ Contents(f, c, p, n) \in Seq(S)
           /\ Len(Contents(f, c, p, n)) = Count(c, p, n)
           /\ \A k \in 1 .. Count(c, p, n) : SlotAt(c, k, n) \in 0 .. n - 1 /\ SlotAt(c, k, n) # p
<1>1. Count(c, p, n) \in 0 .. n - 1
  BY DEF Count
<1>2. \A k \in 1 .. Count(c, p, n) : SlotAt(c, k, n) \in 0 .. n - 1 /\ SlotAt(c, k, n) # p
  BY DEF Count, SlotAt
<1>3. Contents(f, c, p, n) \in [1 .. Count(c, p, n) -> S]
  BY <1>2 DEF Contents
<1>4. \A m \in Nat : \A g \in [1 .. m -> S] : g \in Seq(S) /\ Len(g) = m
  OBVIOUS
<1>5. Count(c, p, n) \in Nat
  BY <1>1
<1> QED
  BY <1>1, <1>2, <1>3, <1>4, <1>5, Zenon

\* Writing the slot at the produce index leaves them as they are.
LEMMA FillKeeps ==
    ASSUME NEW n \in Nat \ {0, 1}, NEW S, NEW f \in [0 .. n - 1 -> S],
           NEW c \in 0 .. n - 1, NEW p \in 0 .. n - 1, NEW v
    PROVE  Contents([f EXCEPT ![p] = v], c, p, n) = Contents(f, c, p, n)
BY ContentsSeq, Zenon DEF Contents

\* Moving the produce index appends the frame in its slot.
LEMMA PublishAppends ==
    ASSUME NEW n \in Nat \ {0, 1}, NEW S, NEW f \in [0 .. n - 1 -> S],
           NEW c \in 0 .. n - 1, NEW p \in 0 .. n - 1, NextSlot(p, n) # c
    PROVE  /\ Count(c, p, n) < n - 1
           /\ Contents(f, c, NextSlot(p, n), n) = Append(Contents(f, c, p, n), f[p])
<1>0. \A d, q \in 0 .. n - 1 : /\ Contents(f, d, q, n) \in Seq(S)
                              /\ Len(Contents(f, d, q, n)) = Count(d, q, n)
  <2> SUFFICES ASSUME NEW d \in 0 .. n - 1, NEW q \in 0 .. n - 1
               PROVE  /\ Contents(f, d, q, n) \in Seq(S)
                      /\ Len(Contents(f, d, q, n)) = Count(d, q, n)
    BY Zenon
  <2>1. Contents(f, d, q, n) \in Seq(S)
    BY ContentsSeq
  <2>2. Len(Contents(f, d, q, n)) = Count(d, q, n)
    <3>1. Count(d, q, n) \in Nat
      BY DEF Count
    <3> QED
      BY <2>1, <3>1 DEF Contents
  <2> QED
    BY <2>1, <2>2
<1>1. NextSlot(p, n) \in 0 .. n - 1
  BY DEF NextSlot
<1>2. Count(c, p, n) \in 0 .. n - 2 /\ Count(c, NextSlot(p, n), n) = Count(c, p, n) + 1
  BY DEF Count, NextSlot
<1>3. SlotAt(c, Count(c, p, n) + 1, n) = p
  BY DEF Count, SlotAt
<1> DEFINE old == Contents(f, c, p, n)
           new == Contents(f, c, NextSlot(p, n), n)
<1>4. old \in Seq(S) /\ Len(old) = Count(c, p, n)
  BY <1>0
<1>p. f[p] \in S
  OBVIOUS
<1>5. new \in Seq(S) /\ Len(new) = Count(c, p, n) + 1
  <2>1. new \in Seq(S) /\ Len(new) = Count(c, NextSlot(p, n), n)
    BY <1>0, <1>1
  <2> QED
    BY <1>2, <2>1
<1>6. \A k \in 1 .. Count(c, p, n) : new[k] = old[k]
  BY <1>2 DEF Contents
<1>7. new[Count(c, p, n) + 1] = f[p]
  BY <1>2, <1>3 DEF Contents
<1> HIDE DEF old, new
<1>8. Append(old, f[p]) \in Seq(S) /\ Len(Append(old, f[p])) = Len(old) + 1
  BY <1>4, <1>p
<1>9. \A k \in 1 .. Len(old) + 1 : new[k] = Append(old, f[p])[k]
  BY <1>4, <1>6, <1>7, <1>p, SMTT(30)
<1>10. new = Append(old, f[p])
  BY <1>4, <1>5, <1>8, <1>9, <1>2
<1> QED
  BY <1>2, <1>10 DEF old, new

\* Moving the consume index removes the first frame.
LEMMA ConsumeRemoves ==
    ASSUME NEW n \in Nat \ {0, 1}, NEW S, NEW f \in [0 .. n - 1 -> S],
           NEW c \in 0 .. n - 1, NEW p \in 0 .. n - 1, c # p
    PROVE  /\ Contents(f, c, p, n) # <<>>
           /\ Contents(f, NextSlot(c, n), p, n) = Tail(Contents(f, c, p, n))
<1>0. \A d, q \in 0 .. n - 1 : /\ Contents(f, d, q, n) \in Seq(S)
                              /\ Len(Contents(f, d, q, n)) = Count(d, q, n)
  <2> SUFFICES ASSUME NEW d \in 0 .. n - 1, NEW q \in 0 .. n - 1
               PROVE  /\ Contents(f, d, q, n) \in Seq(S)
                      /\ Len(Contents(f, d, q, n)) = Count(d, q, n)
    BY SMTT(30)
  <2>1. Contents(f, d, q, n) \in Seq(S)
    BY ContentsSeq
  <2>2. Len(Contents(f, d, q, n)) = Count(d, q, n)
    <3>1. Count(d, q, n) \in Nat
      BY DEF Count
    <3> QED
      BY <2>1, <3>1 DEF Contents
  <2> QED
    BY <2>1, <2>2
<1>1. NextSlot(c, n) \in 0 .. n - 1
  BY DEF NextSlot
<1>2. Count(c, p, n) \in 1 .. n - 1 /\ Count(NextSlot(c, n), p, n) = Count(c, p, n) - 1
  BY DEF Count, NextSlot
<1>3. \A k \in 1 .. Count(c, p, n) - 1 : SlotAt(NextSlot(c, n), k, n) = SlotAt(c, k + 1, n)
  BY <1>2 DEF SlotAt, NextSlot
<1> DEFINE old == Contents(f, c, p, n)
           new == Contents(f, NextSlot(c, n), p, n)
<1>4. old \in Seq(S) /\ Len(old) = Count(c, p, n)
  BY <1>0, Zenon
<1>5. new \in Seq(S) /\ Len(new) = Count(c, p, n) - 1
  <2>1. new \in Seq(S) /\ Len(new) = Count(NextSlot(c, n), p, n)
    BY <1>0, <1>1, Zenon
  <2> QED
    BY <1>2, <2>1
<1>6. \A k \in 1 .. Count(c, p, n) - 1 : new[k] = old[k + 1]
  BY <1>2, <1>3 DEF Contents
<1> HIDE DEF old, new
<1>7. old # <<>>
  BY <1>2, <1>4
<1>8. Tail(old) \in Seq(S) /\ Len(Tail(old)) = Len(old) - 1
  BY <1>4, <1>7
<1>9. \A k \in 1 .. Len(old) - 1 : new[k] = Tail(old)[k]
  BY <1>2, <1>4, <1>6, <1>7
<1>10. new = Tail(old)
  BY <1>4, <1>5, <1>8, <1>9, <1>2
<1> QED
  BY <1>7, <1>10 DEF old, new

-----------------------------------------------------------------------------
(* The theorems *)

\* The state of struct radif, the handler and the transceiver is well-typed,
\* rf212_init has the transceiver to itself, and the rings' indexes agree with
\* where radif_send, radif_service and radio_irq are.
THEOREM Invariance == SpecRadif => []RadifInv
BY InitInv, NextInv, PTL DEF SpecRadif

\* No event of the transceiver is left latched without the handler being due,
\* wherever in radio_irq it falls, although EINT1 is edge-triggered.
THEOREM NoInterruptLost == SpecRadif => []NoLostInterrupt
<1>1. RadifInv => NoLostInterrupt
  BY DEF RadifInv
<1> QED
  BY <1>1, Invariance, PTL

\* A frame radif_send has queued keeps the handler due or the transceiver busy,
\* as long as every reception is for this station.
THEOREM QueuedAttended == ASSUME Filtered = FALSE PROVE SpecRadif => []QueuedIsAttended
<1>1. RadifInv => QueuedIsAttended
  BY DEF RadifInv, WakeInv, QueuedIsAttended
<1> QED
  BY <1>1, Invariance, PTL

\* A step of any actor is a step of a bounded FIFO queue, or none, as seen from
\* the transmit ring.
LEMMA TxStep == RadifInv /\ [NextRadif]_varsRadif => [TxRing!Next]_<<reply, TxQueue>>
<1> SUFFICES ASSUME RadifInv, [NextRadif]_varsRadif PROVE [TxRing!Next]_<<reply, TxQueue>>
  OBVIOUS
<1> USE RadifAssumption
<1>0. /\ NumTx \in Nat \ {0, 1} /\ TxFrames \in [0 .. NumTx - 1 -> Said \cup {Blank}]
      /\ TxProduceIndex \in 0 .. NumTx - 1 /\ TxConsumeIndex \in 0 .. NumTx - 1
  BY DEF RadifInv, RadifTypeOK, TxSlots
<1>1. ASSUME NEW from, SendFill(from) PROVE UNCHANGED <<reply, TxQueue>>
  <2>1. TxFrames' = [TxFrames EXCEPT ![TxProduceIndex] = reply] /\ UNCHANGED reply
    BY <1>1 DEF SendFill, SendSlot
  <2>2. UNCHANGED <<TxProduceIndex, TxConsumeIndex>>
    BY <1>1 DEF SendFill
  <2>3. Contents([TxFrames EXCEPT ![TxProduceIndex] = reply], TxConsumeIndex, TxProduceIndex, NumTx)
          = TxQueue
    BY <1>0, FillKeeps, Zenon DEF TxQueue
  <2> QED
    BY <2>1, <2>2, <2>3 DEF TxQueue
<1>2. CASE SendPublish
  <2>1. /\ TxFrames[TxProduceIndex] = reply
        /\ NextSlot(TxProduceIndex, NumTx) # TxConsumeIndex
    BY <1>2 DEF SendPublish, Rit, RadifInv, RingInv
  <2>2. /\ UNCHANGED <<TxFrames, TxConsumeIndex, reply>>
        /\ TxProduceIndex' = NextSlot(TxProduceIndex, NumTx)
    BY <1>2 DEF SendPublish
  <2>3. TxQueue' = Append(TxQueue, reply)
    <3>1. Contents(TxFrames, TxConsumeIndex, NextSlot(TxProduceIndex, NumTx), NumTx)
            = Append(Contents(TxFrames, TxConsumeIndex, TxProduceIndex, NumTx), reply)
      BY <1>0, <2>1, PublishAppends, ZenonT(30)
    <3> QED
      BY <2>2, <3>1 DEF TxQueue
  <2>4. Len(TxQueue) < NumTx - 1
    <3>1. Count(TxConsumeIndex, TxProduceIndex, NumTx) < NumTx - 1
      BY <1>0, <2>1 DEF Count, NextSlot
    <3>2. TxQueue \in Seq(Said \cup {Blank})
      BY <1>0, ContentsSeq DEF TxQueue
    <3>3. Count(TxConsumeIndex, TxProduceIndex, NumTx) \in Nat
      BY <1>0 DEF Count
    <3>4. Len(TxQueue) = Count(TxConsumeIndex, TxProduceIndex, NumTx)
      BY <3>2, <3>3 DEF TxQueue, Contents
    <3> QED
      BY <3>1, <3>4
  <2>5. reply \in Frame
    BY DEF RadifInv, RadifTypeOK, Frame
  <2> QED
    BY <2>2, <2>3, <2>4, <2>5 DEF TxRing!Next, TxRing!Put
<1>3. CASE TxForce
  <2>1. TxConsumeIndex # TxProduceIndex
    BY <1>3 DEF TxForce, Irq, RadifInv, RingInv
  <2>2. /\ UNCHANGED <<TxFrames, TxProduceIndex, reply>>
        /\ TxConsumeIndex' = NextSlot(TxConsumeIndex, NumTx)
    BY <1>3 DEF TxForce, service
  <2>3. TxQueue # <<>> /\ TxQueue' = Tail(TxQueue)
    BY <1>0, <2>1, <2>2, ConsumeRemoves, Zenon DEF TxQueue
  <2> QED
    BY <2>2, <2>3 DEF TxRing!Next, TxRing!Take
<1>4. CASE Callback \/ SendFull \/ SendTrigger
  <2>1. UNCHANGED TxQueue
    BY <1>4 DEF Callback, SendFull, SendTrigger, tx_ring, TxQueue
  <2>2. reply' \in Frame
    BY <1>4 DEF Callback, SendFull, SendTrigger, Frame, RadifInv, RadifTypeOK
  <2> QED
    BY <2>1, <2>2 DEF TxRing!Next, TxRing!Offer
<1>5. CASE \/ CommandIssue \/ CommandTrigger \/ CommandDone \/ Consume
  BY <1>5, SMTT(30) DEF CommandIssue, CommandTrigger, CommandDone, Consume, tx_ring, TxQueue
<1>6. CASE Handler /\ ~TxForce
  BY <1>6 DEF Handler, Enter, ReadStatus, TxEnd, RxEnd, RxWait, TxSkip, TxStart, DoCommand, Final,
              tx_ring, service, TxQueue
<1>7. CASE Transceiver
  BY <1>7 DEF Transceiver, ReceiveBegin, ReceiveEnd, ReceiveFiltered, AckSent, TransmitEnd,
              tx_ring, service, TxQueue
<1>8. CASE UNCHANGED varsRadif
  BY <1>8 DEF varsRadif, TxQueue
<1> QED
  BY <1>1, <1>2, <1>3, <1>4, <1>5, <1>6, <1>7, <1>8 DEF NextRadif, Service, Handler

\* The transmit ring implements a FIFO queue of NUM_TXFRAMES - 1 frames between
\* radif_send and radio_tx.
THEOREM TxRingIsFifo == SpecRadif => TxFifo
<1>1. InitRadif => TxRing!Init
  BY RadifAssumption DEF InitRadif, TxRing!Init, TxQueue, Contents, Count, Frame
<1> QED
  BY <1>1, TxStep, Invariance, PTL DEF SpecRadif, TxFifo, TxRing!Spec

\* A step of any actor is a step of a bounded FIFO queue, or none, as seen from
\* the receive ring.
LEMMA RxStep == RadifInv /\ [NextRadif]_varsRadif => [RxRing!Next]_<<LastReceived, RxQueue>>
<1> SUFFICES ASSUME RadifInv, [NextRadif]_varsRadif PROVE [RxRing!Next]_<<LastReceived, RxQueue>>
  OBVIOUS
<1> USE RadifAssumption
<1>0. /\ NumRx \in Nat \ {0, 1} /\ RxFrames \in [0 .. NumRx - 1 -> Frame]
      /\ RxProduceIndex \in 0 .. NumRx - 1 /\ RxConsumeIndex \in 0 .. NumRx - 1
  BY DEF RadifInv, RadifTypeOK, RxSlots
<1>1. CASE RxEnd /\ RxRoom
  <2>1. PICK got \in Frame : RxFrames' = [RxFrames EXCEPT ![RxProduceIndex] = got]
    BY <1>1 DEF RxEnd, Frame, RadifInv, RadifTypeOK
  <2>2. /\ NextSlot(RxProduceIndex, NumRx) # RxConsumeIndex
        /\ RxProduceIndex' = NextSlot(RxProduceIndex, NumRx)
        /\ UNCHANGED RxConsumeIndex
    BY <1>1 DEF RxEnd, RxRoom
  <2>3. RxFrames' \in [0 .. NumRx - 1 -> Frame] /\ RxFrames'[RxProduceIndex] = got
    BY <1>0, <2>1
  <2>4. Contents(RxFrames', RxConsumeIndex, RxProduceIndex, NumRx) = RxQueue
    BY <1>0, <2>1, FillKeeps, Zenon DEF RxQueue
  <2>5. RxQueue' = Append(RxQueue, got)
    <3>1. Contents(RxFrames', RxConsumeIndex, NextSlot(RxProduceIndex, NumRx), NumRx)
            = Append(Contents(RxFrames', RxConsumeIndex, RxProduceIndex, NumRx),
                     RxFrames'[RxProduceIndex])
      BY <1>0, <2>2, <2>3, PublishAppends, Zenon
    <3> QED
      BY <2>2, <2>3, <2>4, <3>1 DEF RxQueue
  <2>6. LastReceived' = got
    BY <1>0, <2>2, <2>3 DEF LastReceived, NextSlot
  <2>7. Len(RxQueue) < NumRx - 1
    <3>1. Count(RxConsumeIndex, RxProduceIndex, NumRx) < NumRx - 1
      BY <1>0, <2>2 DEF Count, NextSlot
    <3>2. RxQueue \in Seq(Frame)
      BY <1>0, ContentsSeq DEF RxQueue
    <3>3. Count(RxConsumeIndex, RxProduceIndex, NumRx) \in Nat
      BY <1>0 DEF Count
    <3>4. Len(RxQueue) = Count(RxConsumeIndex, RxProduceIndex, NumRx)
      BY <3>2, <3>3 DEF RxQueue, Contents
    <3> QED
      BY <3>1, <3>4
  <2> QED
    BY <2>5, <2>6, <2>7 DEF RxRing!Next, RxRing!Put
<1>2. CASE Consume
  <2>1. RxConsumeIndex # RxProduceIndex
    BY <1>2 DEF Consume, Rit, RadifInv, RingInv
  <2>2. /\ UNCHANGED <<RxFrames, RxProduceIndex>>
        /\ RxConsumeIndex' = NextSlot(RxConsumeIndex, NumRx)
    BY <1>2 DEF Consume
  <2>3. RxQueue # <<>> /\ RxQueue' = Tail(RxQueue)
    BY <1>0, <2>1, <2>2, ConsumeRemoves, Zenon DEF RxQueue
  <2>4. UNCHANGED LastReceived
    BY <2>2 DEF LastReceived
  <2> QED
    BY <2>3, <2>4 DEF RxRing!Next, RxRing!Take
<1>3. CASE RxEnd /\ ~RxRoom
  BY <1>3 DEF RxEnd, RxQueue, LastReceived
<1>4. CASE Service /\ ~Consume
  BY <1>4 DEF Service, CommandIssue, CommandTrigger, CommandDone, Callback, SendFull, SendFill,
              SendPublish, SendTrigger, rx_ring, RxQueue, LastReceived
<1>5. CASE Handler /\ ~RxEnd
  BY <1>5 DEF Handler, Enter, ReadStatus, TxEnd, RxWait, TxSkip, TxStart, TxForce, DoCommand,
              Final, rx_ring, RxQueue, LastReceived
<1>6. CASE Transceiver
  BY <1>6 DEF Transceiver, ReceiveBegin, ReceiveEnd, ReceiveFiltered, AckSent, TransmitEnd,
              rx_ring, RxQueue, LastReceived
<1>7. CASE UNCHANGED varsRadif
  BY <1>7 DEF varsRadif, RxQueue, LastReceived
<1> QED
  BY <1>1, <1>2, <1>3, <1>4, <1>5, <1>6, <1>7 DEF NextRadif, Handler

\* The receive ring implements a FIFO queue of NUM_RXFRAMES - 1 frames between
\* radio_rx_end and radif_service.
THEOREM RxRingIsFifo == SpecRadif => RxFifo
<1>1. InitRadif => RxRing!Init
  BY RadifAssumption
     DEF InitRadif, RxRing!Init, RxQueue, LastReceived, Contents, Count, Frame, RxSlots
<1> QED
  BY <1>1, RxStep, Invariance, PTL DEF SpecRadif, RxFifo, RxRing!Spec

\* radio_rx_end never overwrites the frame rf212_rx_callback is reading.
THEOREM CallbackFrameKept == SpecRadif => CallbackFrameStable
<1>1. RadifInv /\ [NextRadif]_varsRadif =>
        [(rit \in {"send", "spin", "publish", "trigger", "consume"})
           => RxFrames'[RxConsumeIndex] = RxFrames[RxConsumeIndex]]_varsRadif
  <2> SUFFICES ASSUME RadifInv, NextRadif, rit \in {"send", "spin", "publish", "trigger", "consume"}
               PROVE  RxFrames'[RxConsumeIndex] = RxFrames[RxConsumeIndex]
    OBVIOUS
  <2>1. CASE RxEnd
    BY <2>1, SMTT(30) DEF RxEnd, RadifInv, RadifTypeOK, RingInv
  <2>2. CASE ~RxEnd
    BY <2>2, Zenon DEF NextRadif, Service, Handler, Transceiver, CommandIssue, CommandTrigger, CommandDone,
                Callback, Consume, SendFull, SendFill, SendPublish, SendTrigger, Enter,
                ReadStatus, TxEnd, RxWait, TxSkip, TxStart, TxForce, DoCommand, Final,
                ReceiveBegin, ReceiveEnd, ReceiveFiltered, AckSent, TransmitEnd, rx_ring
  <2> QED
    BY <2>1, <2>2
<1> QED
  BY <1>1, Invariance, PTL DEF SpecRadif, CallbackFrameStable

-----------------------------------------------------------------------------
(* The gateway: the inductive invariant *)

GatewayTypeOK ==
    /\ puts \in Nat
    /\ accepted \subseteq 1 .. puts /\ durable \subseteq accepted
    /\ pending \subseteq 1 .. puts /\ server \subseteq 1 .. puts /\ failed \subseteq 1 .. puts
    /\ held \subseteq Readings /\ undone \subseteq Readings
    /\ rx \in Seq([record : Readings, sound : BOOLEAN]) /\ tx \in Seq(Readings)
    /\ callback \in Readings \cup {NoReading}
    /\ origin \in Seq(Readings) /\ Len(origin) = puts

\* While put_sample runs the frame it was called for is still the first one.
CallbackHasFrame == callback # NoReading => rx # <<>>

\* The store keeps what it accepted.
AcceptedIsKept == accepted \subseteq server \cup pending \cup failed

\* block_uploaded acknowledges before it stores.  So a record that has been
\* discarded, or whose acknowledgement is still to be sent, was accepted by the
\* running program or is the one that is about to be.
InStore(r) == r = callback \/ \E a \in accepted : origin[a] = r
AckedIsStored ==
    /\ \A r \in Readings \ (held \cup undone) : InStore(r)
    /\ \A i \in 1 .. Len(tx) : tx[i] \in undone \/ InStore(tx[i])

GatewayInv == GatewayTypeOK /\ CallbackHasFrame /\ AcceptedIsKept /\ AckedIsStored

\* Frames of a ring after the first has been taken, and with another behind them.
LEMMA TailFrames ==
    ASSUME NEW S, NEW q \in Seq(S), q # <<>>
    PROVE  /\ Head(q) \in S /\ Head(q) = q[1] /\ 1 \in 1 .. Len(q)
           /\ Tail(q) \in Seq(S)
           /\ \A i \in 1 .. Len(Tail(q)) : i + 1 \in 1 .. Len(q) /\ Tail(q)[i] = q[i + 1]
OBVIOUS

\* A frame put at the end of a queue follows those before it.
LEMMA AppendFrame ==
    ASSUME NEW S, NEW q \in Seq(S), NEW e \in S
    PROVE  /\ Append(q, e) \in Seq(S) /\ Len(Append(q, e)) = Len(q) + 1
           /\ Append(q, e)[Len(q) + 1] = e
           /\ \A i \in 1 .. Len(q) : Append(q, e)[i] = q[i]
OBVIOUS

\* The gateway starts with an empty store and empty rings.
LEMMA InitGatewayInv == InitGateway => GatewayInv
BY GatewayAssumption
   DEF InitGateway, InitStore, GatewayInv, GatewayTypeOK, CallbackHasFrame, AcceptedIsKept,
       AckedIsStored, InStore

\* A sensor only adds a frame.
LEMMA SensorSendsInv == GatewayInv /\ SensorSends => GatewayInv'
<1> SUFFICES ASSUME GatewayInv, SensorSends PROVE GatewayInv'
  OBVIOUS
<1>1. PICK r \in held, sound \in BOOLEAN : rx' = Append(rx, [record |-> r, sound |-> sound])
  BY DEF SensorSends
<1>2. UNCHANGED <<puts, accepted, durable, pending, server, failed, held, tx, callback, origin,
                  undone>>
  BY DEF SensorSends, varsStore
<1>3. [record |-> r, sound |-> sound] \in [record : Readings, sound : BOOLEAN]
  BY DEF GatewayInv, GatewayTypeOK
<1>4. rx' \in Seq([record : Readings, sound : BOOLEAN]) /\ rx' # <<>>
  BY <1>1, <1>3, AppendFrame DEF GatewayInv, GatewayTypeOK
<1> QED
  BY <1>2, <1>4 DEF GatewayInv, GatewayTypeOK, CallbackHasFrame, AcceptedIsKept, AckedIsStored,
                    InStore

\* block_uploaded acknowledges a sound frame and gives up a damaged one.
LEMMA BlockUploadedInv == GatewayInv /\ block_uploaded => GatewayInv'
<1> SUFFICES ASSUME GatewayInv, block_uploaded PROVE GatewayInv'
  OBVIOUS
<1>1. UNCHANGED <<puts, accepted, durable, pending, server, failed, held, origin, undone>>
  BY DEF block_uploaded, varsStore
<1>2. Head(rx) \in [record : Readings, sound : BOOLEAN] /\ rx # <<>> /\ callback = NoReading
  BY TailFrames, Zenon DEF block_uploaded, GatewayInv, GatewayTypeOK
<1>3. CASE Head(rx).sound
  <2> DEFINE r == Head(rx).record
  <2>1. tx' = Append(tx, r) /\ callback' = r /\ rx' = rx /\ r \in Readings
    BY <1>2, <1>3 DEF block_uploaded
  <2>2. tx' \in Seq(Readings) /\ Len(tx') = Len(tx) + 1 /\ tx'[Len(tx) + 1] = r
        /\ \A i \in 1 .. Len(tx) : tx'[i] = tx[i]
    BY <2>1, AppendFrame DEF GatewayInv, GatewayTypeOK
  <2>3. Len(tx) \in Nat
    BY DEF GatewayInv, GatewayTypeOK
  <2>4. GatewayTypeOK' /\ CallbackHasFrame' /\ AcceptedIsKept'
    BY <1>1, <1>2, <2>1, <2>2 DEF GatewayInv, GatewayTypeOK, CallbackHasFrame, AcceptedIsKept
  <2>5. \A x \in Readings : InStore(x) => InStore(x)'
    BY <1>1, <1>2, <2>1, GatewayAssumption DEF InStore
  <2>6. \A x \in Readings \ (held \cup undone)' : InStore(x)'
    BY <1>1, <2>5 DEF GatewayInv, AckedIsStored
  <2>7. ASSUME NEW i \in 1 .. Len(tx') PROVE tx'[i] \in undone' \/ InStore(tx[i])'
    <3>1. CASE i = Len(tx) + 1
      BY <2>1, <2>2, <3>1 DEF InStore
    <3>2. CASE i \in 1 .. Len(tx)
      <4>1. tx'[i] = tx[i] /\ tx[i] \in Readings
        BY <2>2, <3>2 DEF GatewayInv, GatewayTypeOK
      <4>2. tx[i] \in undone \/ InStore(tx[i])
        BY <3>2 DEF GatewayInv, AckedIsStored
      <4> QED
        BY <1>1, <2>5, <4>1, <4>2 DEF InStore
    <3> QED
      BY <2>2, <2>3, <3>1, <3>2
  <2> QED
    BY <2>4, <2>6, <2>7 DEF GatewayInv, AckedIsStored
<1>4. CASE ~Head(rx).sound
  <2>1. rx' = Tail(rx) /\ UNCHANGED <<tx, callback>>
    BY <1>4 DEF block_uploaded
  <2>2. rx' \in Seq([record : Readings, sound : BOOLEAN])
    BY <1>2, <2>1, TailFrames DEF GatewayInv, GatewayTypeOK
  <2> QED
    BY <1>1, <1>2, <2>1, <2>2
       DEF GatewayInv, GatewayTypeOK, CallbackHasFrame, AcceptedIsKept, AckedIsStored, InStore
<1> QED
  BY <1>3, <1>4

\* put_sample stores the record of the callback or refuses it, and the frame is
\* given up.
LEMMA StoreRecordInv == GatewayInv /\ StoreRecord => GatewayInv'
<1> SUFFICES ASSUME GatewayInv, StoreRecord PROVE GatewayInv'
  OBVIOUS
<1>1. /\ callback \in Readings /\ callback' = NoReading /\ rx # <<>> /\ rx' = Tail(rx)
      /\ origin' = Append(origin, callback) /\ UNCHANGED <<held, tx>>
  BY DEF StoreRecord, GatewayInv, GatewayTypeOK, CallbackHasFrame
<1>2. rx' \in Seq([record : Readings, sound : BOOLEAN])
  BY <1>1, TailFrames DEF GatewayInv, GatewayTypeOK
<1>3. puts \in Nat /\ Len(origin) = puts /\ origin \in Seq(Readings)
  BY DEF GatewayInv, GatewayTypeOK
<1>4. /\ origin' \in Seq(Readings) /\ Len(origin') = puts + 1 /\ origin'[puts + 1] = callback
      /\ \A a \in 1 .. puts : origin'[a] = origin[a]
  BY <1>1, <1>3, AppendFrame
<1>5. puts' = puts + 1 /\ puts \in Nat /\ 1 .. puts' = 1 .. puts \cup {puts'}
  BY <1>3 DEF StoreRecord, Accept, Refuse
<1>6. CASE Accept /\ UNCHANGED undone
  <2>1. /\ accepted' = accepted \cup {puts + 1} /\ durable' \in {durable, accepted'}
        /\ failed' \in {failed, failed \cup {puts + 1}} /\ pending' \subseteq 1 .. puts'
        /\ pending \subseteq pending' /\ puts + 1 \in pending' \cup failed' /\ server' = server
    BY <1>5, <1>6 DEF Accept
  <2>2. GatewayTypeOK'
    BY <1>1, <1>2, <1>4, <1>5, <1>6, <2>1 DEF GatewayInv, GatewayTypeOK
  <2>3. AcceptedIsKept'
    BY <2>1, Zenon DEF GatewayInv, AcceptedIsKept
  <2>4. \A r \in Readings : InStore(r) => InStore(r)'
    BY <1>1, <1>4, <2>1 DEF InStore, GatewayInv, GatewayTypeOK
  <2>5. AckedIsStored'
    BY <1>1, <1>6, <2>4 DEF GatewayInv, GatewayTypeOK, AckedIsStored
  <2> QED
    BY <1>1, <2>2, <2>3, <2>5 DEF GatewayInv, CallbackHasFrame
<1>7. CASE Refuse /\ undone' = undone \cup {callback}
  <2>1. UNCHANGED <<accepted, durable, pending, server, failed>>
    BY <1>7 DEF Refuse
  <2>2. GatewayTypeOK'
    BY <1>1, <1>2, <1>4, <1>5, <1>7, <2>1 DEF GatewayInv, GatewayTypeOK
  <2>3. \A r \in Readings : InStore(r) => r \in undone' \/ InStore(r)'
    BY <1>1, <1>4, <1>7, <2>1 DEF InStore, GatewayInv, GatewayTypeOK
  <2>4. AckedIsStored'
    BY <1>1, <1>7, <2>3 DEF GatewayInv, GatewayTypeOK, AckedIsStored
  <2> QED
    BY <1>1, <2>1, <2>2, <2>4 DEF GatewayInv, CallbackHasFrame, AcceptedIsKept
<1> QED
  BY <1>6, <1>7 DEF StoreRecord

\* The radio sends an acknowledgement, which the sensor may miss.
LEMMA AcknowledgeInv == GatewayInv /\ Acknowledge => GatewayInv'
<1> SUFFICES ASSUME GatewayInv, Acknowledge PROVE GatewayInv'
  OBVIOUS
<1>1. /\ tx # <<>> /\ tx' = Tail(tx) /\ held' \in {held, held \ {Head(tx)}}
      /\ UNCHANGED <<puts, accepted, durable, pending, server, failed, rx, callback, origin, undone>>
  BY DEF Acknowledge, varsStore
<1>2. /\ Head(tx) = tx[1] /\ 1 \in 1 .. Len(tx) /\ tx' \in Seq(Readings)
      /\ \A i \in 1 .. Len(tx') : i + 1 \in 1 .. Len(tx) /\ tx'[i] = tx[i + 1]
  BY <1>1, TailFrames DEF GatewayInv, GatewayTypeOK
<1>3. \A r : InStore(r) => InStore(r)'
  BY <1>1 DEF InStore
<1>4. \A r \in Readings \ (held \cup undone)' : InStore(r)
  BY <1>1, <1>2 DEF GatewayInv, AckedIsStored
<1>5. \A i \in 1 .. Len(tx') : tx'[i] \in undone \/ InStore(tx'[i])
  BY <1>2 DEF GatewayInv, AckedIsStored
<1>6. AckedIsStored'
  BY <1>1, <1>3, <1>4, <1>5 DEF AckedIsStored, InStore
<1> QED
  BY <1>1, <1>2, <1>6 DEF GatewayInv, GatewayTypeOK, CallbackHasFrame, AcceptedIsKept

\* An upload puts pending records in the database, and the store releases only
\* what is there.
LEMMA UploadInv == GatewayInv /\ (UploadAll \/ ReleaseSome) => GatewayInv'
<1> SUFFICES ASSUME GatewayInv, UploadAll \/ ReleaseSome PROVE GatewayInv'
  OBVIOUS
<1>1. CASE UploadAll
  BY <1>1 DEF UploadAll, GatewayInv, GatewayTypeOK, CallbackHasFrame, AcceptedIsKept,
              AckedIsStored, InStore
<1>2. CASE ReleaseSome
  <2>1. /\ pending' \subseteq pending /\ pending \ pending' \subseteq server \cup failed
        /\ durable' \in {durable, accepted}
        /\ UNCHANGED <<puts, accepted, server, failed, held, rx, tx, callback, origin, undone>>
    BY <1>2 DEF ReleaseSome, Release
  <2> QED
    BY <2>1, Zenon DEF GatewayInv, GatewayTypeOK, CallbackHasFrame, AcceptedIsKept, AckedIsStored,
                InStore
<1> QED
  BY <1>1, <1>2

\* A power failure undoes what was not saved.
LEMMA PowerFailureInv == GatewayInv /\ PowerFailure => GatewayInv'
<1> SUFFICES ASSUME GatewayInv, PowerFailure PROVE GatewayInv'
  OBVIOUS
<1>1. /\ accepted' = durable /\ pending' \subseteq 1 .. puts
      /\ durable \subseteq server \cup failed \cup pending'
      /\ UNCHANGED <<puts, durable, server, failed, held, origin>>
      /\ rx' = <<>> /\ tx' = <<>> /\ callback' = NoReading
      /\ undone' = (undone \cup {callback} \cup {origin[a] : a \in accepted \ durable}) \ {NoReading}
  BY DEF PowerFailure, Crash
<1>2. \A a \in accepted : origin[a] \in Readings
  BY DEF GatewayInv, GatewayTypeOK
<1>3. GatewayTypeOK'
  BY <1>1, <1>2, GatewayAssumption DEF GatewayInv, GatewayTypeOK
<1>4. AckedIsStored'
  <2>1. ASSUME NEW r \in Readings, r \notin held', r \notin undone' PROVE InStore(r)'
    <3>1. r # NoReading /\ r \notin undone /\ r # callback
          /\ \A a \in accepted \ durable : origin[a] # r
      BY <1>1, <2>1, GatewayAssumption
    <3>2. \E a \in accepted : origin[a] = r
      BY <1>1, <2>1, <3>1 DEF GatewayInv, AckedIsStored, InStore
    <3> QED
      BY <1>1, <3>1, <3>2 DEF InStore
  <2> QED
    BY <1>1, <2>1 DEF AckedIsStored
<1> QED
  BY <1>1, <1>3, <1>4 DEF GatewayInv, CallbackHasFrame, AcceptedIsKept

\* Every step preserves the invariant.
LEMMA NextGatewayInv == GatewayInv /\ [NextGateway]_varsGateway => GatewayInv'
<1>1. GatewayInv /\ UNCHANGED varsGateway => GatewayInv'
  BY DEF varsGateway, varsStore, GatewayInv, GatewayTypeOK, CallbackHasFrame, AcceptedIsKept,
         AckedIsStored, InStore
<1> QED
  BY <1>1, SensorSendsInv, BlockUploadedInv, StoreRecordInv, AcknowledgeInv, UploadInv,
     PowerFailureInv DEF NextGateway

-----------------------------------------------------------------------------
(* The theorems *)

\* Whatever frames are lost, repeated or damaged and however often the power
\* fails, block_uploaded has acknowledged only what the store has accepted, has
\* refused or is about to take.
THEOREM GatewayInvariance == SpecGateway => []GatewayInv
BY InitGatewayInv, NextGatewayInv, PTL DEF SpecGateway

\* A record the sensor has discarded is in the store or in the database, unless
\* the card failed on it, put_sample refused it or a power failure undid it.
THEOREM DiscardedKept == SpecGateway => []DiscardedIsKept
<1>1. GatewayInv => DiscardedIsKept
  <2> SUFFICES ASSUME GatewayInv, NEW r \in Readings \ (held \cup undone), r # callback
               PROVE  Arrivals(r) \cap (server \cup pending \cup failed) # {}
    BY DEF DiscardedIsKept
  <2>1. PICK a \in accepted : origin[a] = r
    BY DEF GatewayInv, AckedIsStored, InStore
  <2> QED
    BY <2>1 DEF GatewayInv, GatewayTypeOK, AcceptedIsKept, Arrivals
<1> QED
  BY <1>1, GatewayInvariance, PTL

\* The gateway uses the store as RecordStore, which Memory implements, lets it:
\* every step of block_uploaded, of an upload and of a power failure is a step of
\* the store or leaves it alone.
THEOREM GatewayUsesStore == SpecGateway => SpecStore
<1>1. InitGateway => InitStore
  BY DEF InitGateway
<1>2. GatewayInv /\ [NextGateway]_varsGateway => [NextStore]_varsStore
  <2> SUFFICES ASSUME GatewayInv, [NextGateway]_varsGateway PROVE [NextStore]_varsStore
    OBVIOUS
  <2>1. CASE SensorSends \/ block_uploaded \/ Acknowledge \/ UNCHANGED varsGateway
    BY <2>1, Zenon DEF SensorSends, block_uploaded, Acknowledge, varsGateway
  <2>2. CASE StoreRecord \/ ReleaseSome \/ PowerFailure
    BY <2>2 DEF StoreRecord, ReleaseSome, PowerFailure, NextStore
  <2>3. CASE UploadAll
    <3>1. UploadStore
      BY <2>3 DEF UploadAll, UploadStore, GatewayInv, GatewayTypeOK
    <3> QED
      BY <3>1 DEF NextStore
  <2> QED
    BY <2>1, <2>2, <2>3 DEF NextGateway
<1> QED
  BY <1>1, <1>2, GatewayInvariance, PTL DEF SpecGateway, SpecStore
=============================================================================
