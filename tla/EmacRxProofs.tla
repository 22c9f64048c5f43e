--------------------------- MODULE EmacRxProofs ---------------------------
(***************************************************************************)
(* Proofs about the receive ring of the Ethernet driver, for a ring of any *)
(* size, and about the supervision of the PHY.                             *)
(***************************************************************************)
EXTENDS EmacRx, Phy, FiniteSetTheorems, TLAPS

-----------------------------------------------------------------------------
(* Going round the ring *)

\* The distance from one descriptor to another.
LEMMA AheadInRing ==
    ASSUME NEW a \in Slots, NEW b \in Slots
    PROVE  /\ Ahead(a, b) = IF a <= b THEN b - a ELSE b - a + RxN
           /\ Ahead(a, b) \in 0 .. RxN - 1
<1>1. Ahead(a, b) = IF a <= b THEN b - a ELSE b - a + RxN
  BY RxAssumption DEF Ahead, Slots
<1> QED
  BY <1>1, RxAssumption DEF Slots

\* The descriptor with a number that may be up to a round too high.
Round(n) == n % RxN
\* The index after the last of the ring is its first, by one subtraction.
LEMMA StepInRing ==
    ASSUME NEW n \in 0 .. 2 * RxN - 1
    PROVE  /\ n < RxN => Round(n) = n
           /\ ~(n < RxN) => Round(n) = n - RxN
           /\ Round(n) \in Slots
BY RxAssumption DEF Slots, Round
-----------------------------------------------------------------------------
(* The inductive invariant *)

\* Between calls at most one descriptor is without a pbuf, the one from which
\* lpc_low_level_input took the last frame; it is the one that lpc_rx_queue fills
\* next and that keeps the EMAC from going further.
RxInv ==
    /\ RxTypeOK
    /\ rx_fill_desc_index = RxConsumeIndex
    /\ rx_free_descs \in {0, 1}
    /\ rx_free_descs = 1 => RxProduceIndex # RxConsumeIndex
    /\ \A i \in Slots : rxb[i] <=> rx_free_descs = 0 \/ i # RxConsumeIndex

\* The pbufs in a ring in which n descriptors, none or one, are without.
LEMMA QueuedCount ==
    ASSUME NEW b, NEW n \in {0, 1}, NEW c \in Slots,
           \A i \in Slots : b[i] <=> n = 0 \/ i # c
    PROVE  Queued(b) = RxN - n
<1>1. IsFiniteSet(Slots) /\ Cardinality(Slots) = RxN
  BY FS_Interval, RxAssumption DEF Slots
<1>2. CASE n = 0
  <2>1. {i \in Slots : b[i]} = Slots
    BY <1>2
  <2> QED
    BY <1>1, <1>2, <2>1, RxAssumption DEF Queued
<1>3. CASE n = 1
  <2>1. {i \in Slots : b[i]} = Slots \ {c}
    BY <1>3
  <2> QED
    BY <1>1, <1>3, <2>1, FS_RemoveElement DEF Queued
<1> QED
  BY <1>2, <1>3

\* What the heap has left, by that count.
LEMMA FreeCount == RxInv => FreeBufs = RxBufs - stack - (RxN - rx_free_descs)
BY QueuedCount DEF RxInv, RxTypeOK, FreeBufs

\* lpc_rx_setup fills the ring.
LEMMA InitRxInv == InitRx => RxInv
<1> SUFFICES ASSUME InitRx PROVE RxInv
  OBVIOUS
<1> USE DEF InitRx
<1>1. 0 \in Slots /\ \A i \in Slots : rxb[i] <=> rx_free_descs = 0 \/ i # RxConsumeIndex
  BY RxAssumption DEF Slots
<1>2. FreeBufs = RxBufs - RxN
  BY <1>1, QueuedCount, RxAssumption DEF FreeBufs
<1>3. rxb \in [Slots -> BOOLEAN] /\ prxs \in [Slots -> Arrived \cup {Blank}]
  OBVIOUS
<1> QED
  BY <1>1, <1>2, <1>3, RxAssumption DEF RxInv, RxTypeOK

\* The EMAC and the rest of the stack preserve it.
LEMMA OutsideRxInv == RxInv /\ (HwReceive \/ HwOverrun \/ Stack) => RxInv'
<1> SUFFICES ASSUME RxInv, HwReceive \/ HwOverrun \/ Stack PROVE RxInv'
  OBVIOUS
<1>1. CASE HwReceive
  <2>1. RxProduceIndex' \in Slots /\ RxProduceIndex' # RxConsumeIndex
    BY <1>1, StepInRing, RxAssumption DEF HwReceive, RxInv, RxTypeOK, Slots
  <2>2. prxs' \in [Slots -> Arrived \cup {Blank}]
    BY <1>1 DEF HwReceive, RxInv, RxTypeOK
  <2>3. FreeBufs' = FreeBufs
    BY <1>1 DEF HwReceive, FreeBufs
  <2> QED
    BY <1>1, <2>1, <2>2, <2>3 DEF HwReceive, RxInv, RxTypeOK
<1>2. CASE HwOverrun
  <2>1. FreeBufs' = FreeBufs
    BY <1>2 DEF HwOverrun, FreeBufs
  <2> QED
    BY <1>2, <2>1 DEF HwOverrun, RxInv, RxTypeOK
<1>3. CASE Stack
  <2>1. UNCHANGED <<rxb, prxs, RxProduceIndex, RxConsumeIndex, overrun, rx_fill_desc_index,
                    rx_free_descs, taken>>
    BY <1>3 DEF Stack, rxregs
  <2>2. Queued(rxb) = RxN - rx_free_descs /\ Queued(rxb)' = Queued(rxb)
    BY <2>1, QueuedCount DEF RxInv, RxTypeOK
  <2>3. stack' \in Nat /\ FreeBufs' >= 0
    BY <1>3, <2>1, <2>2, RxAssumption
       DEF Stack, StackAlloc, StackFree, FreeBufs, RxInv, RxTypeOK
  <2> QED
    BY <2>1, <2>3 DEF RxInv, RxTypeOK
<1> QED
  BY <1>1, <1>2, <1>3

\* lpc_rx_queue preserves it.
LEMMA RxQueueInv == RxInv /\ RxQueue => RxInv'
<1> SUFFICES ASSUME RxInv, RxQueue PROVE RxInv'
  OBVIOUS
<1> DEFINE next == IF rx_fill_desc_index + 1 >= RxN THEN 0 ELSE rx_fill_desc_index + 1
<1>1. /\ rx_free_descs = 1 /\ rx_free_descs' = 0
      /\ rx_fill_desc_index' = next /\ RxConsumeIndex' = next /\ next \in Slots
      /\ UNCHANGED <<RxProduceIndex, overrun, stack, taken>>
  BY RxAssumption DEF RxQueue, RxInv, RxTypeOK, Slots
<1>2. rxb' = [i \in Slots |-> TRUE]
  BY <1>1 DEF RxQueue, RxInv, RxTypeOK
<1>3. prxs' \in [Slots -> Arrived \cup {Blank}]
  BY DEF RxQueue, RxInv, RxTypeOK
<1>4. /\ \A i \in Slots : rxb'[i] <=> rx_free_descs' = 0 \/ i # RxConsumeIndex'
      /\ rxb' \in [Slots -> BOOLEAN]
  BY <1>1, <1>2
<1>5. FreeBufs' >= 0
  <2>1. Queued(rxb)' = RxN
    BY <1>1, <1>4, QueuedCount, RxAssumption
  <2>2. FreeBufs = RxBufs - stack - (RxN - 1) /\ FreeBufs > 0
    BY <1>1, FreeCount DEF RxQueue
  <2> QED
    BY <1>1, <2>1, <2>2, RxAssumption DEF FreeBufs, RxInv, RxTypeOK
<1> QED
  BY <1>1, <1>3, <1>4, <1>5, RxAssumption DEF RxInv, RxTypeOK

\* The pbufs that lpc_low_level_input frees after an overrun are enough for
\* lpc_rx_setup to fill the ring again.
LEMMA OverrunRefills ==
    ASSUME RxInv, InputOverrun
    PROVE  /\ rxb' = [i \in Slots |-> TRUE] /\ prxs' = [i \in Slots |-> Blank]
           /\ rx_free_descs' = 0 /\ rx_fill_desc_index' = 0
           /\ RxConsumeIndex' = 0 /\ RxProduceIndex' = 0 /\ taken' = <<>>
           /\ overrun' = FALSE /\ stack' = stack
<1>1. rx_free_descs = 0 /\ FreeBufs >= 0
  BY DEF InputOverrun, RxInv, RxTypeOK
<1>2. RxBufs - stack >= RxN
  BY <1>1, FreeCount, RxAssumption DEF RxInv, RxTypeOK
<1>3. (IF RxBufs - stack < RxN THEN RxBufs - stack ELSE RxN) = RxN
  BY <1>2, RxAssumption DEF RxInv, RxTypeOK
<1>4. RxN % RxN = 0 /\ RxN - RxN = 0 /\ RxN # 0
  BY RxAssumption
<1>5. \A i \in Slots : i < RxN
  BY RxAssumption DEF Slots
<1> QED
  BY <1>3, <1>4, <1>5 DEF InputOverrun

\* lpc_low_level_input preserves it.
LEMMA InputRxInv == RxInv /\ (InputOverrun \/ Input) => RxInv'
<1> SUFFICES ASSUME RxInv, InputOverrun \/ Input PROVE RxInv'
  OBVIOUS
<1>1. CASE InputOverrun
  <2>1. 0 \in Slots /\ \A i \in Slots : rxb'[i] <=> rx_free_descs' = 0 \/ i # RxConsumeIndex'
    BY <1>1, OverrunRefills, RxAssumption DEF Slots
  <2>2. rxb' \in [Slots -> BOOLEAN] /\ prxs' \in [Slots -> Arrived \cup {Blank}]
    BY <1>1, OverrunRefills
  <2>3. FreeBufs' = FreeBufs
    <3>1. Queued(rxb)' = RxN - 0
      BY <1>1, <2>1, OverrunRefills, QueuedCount
    <3>2. rx_free_descs = 0
      BY <1>1 DEF InputOverrun
    <3> QED
      BY <1>1, <3>1, <3>2, OverrunRefills, FreeCount, RxAssumption DEF FreeBufs
  <2> QED
    BY <1>1, <2>1, <2>2, <2>3, OverrunRefills, RxAssumption DEF RxInv, RxTypeOK
<1>2. CASE Input
  <2> DEFINE idx == RxConsumeIndex
             good == prxs[idx].whole
  <2>1. /\ idx \in Slots /\ rxb[idx] /\ rx_free_descs = 0 /\ rx_free_descs' = 1
        /\ RxProduceIndex # idx
        /\ UNCHANGED <<prxs, RxProduceIndex, RxConsumeIndex, overrun, rx_fill_desc_index>>
    BY <1>2 DEF Input, RxInv, RxTypeOK, rxregs
  <2>2. /\ \A i \in Slots : rxb'[i] <=> rx_free_descs' = 0 \/ i # RxConsumeIndex'
        /\ rxb' \in [Slots -> BOOLEAN]
    BY <1>2, <2>1 DEF Input, RxInv, RxTypeOK
  <2>3. stack' \in Nat /\ FreeBufs' >= 0
    <3>1. Queued(rxb)' = RxN - 1
      BY <2>1, <2>2, QueuedCount
    <3>2. stack' \in {stack, stack + 1}
      BY <1>2, RxAssumption DEF Input, RxInv, RxTypeOK
    <3>3. stack \in Nat /\ RxBufs - stack - RxN >= 0
      BY <2>1, FreeCount, RxAssumption DEF RxInv, RxTypeOK
    <3>4. FreeBufs' = RxBufs - stack' - (RxN - 1)
      BY <3>1 DEF FreeBufs
    <3>5. CASE stack' = stack
      BY <3>3, <3>4, <3>5, RxAssumption
    <3>6. CASE stack' = stack + 1
      BY <3>3, <3>4, <3>6, RxAssumption
    <3> QED
      BY <3>2, <3>5, <3>6
  <2>4. taken' = <<>> \/ \E f \in RxFrames : taken' = <<f>>
    <3>1. good => prxs[idx].frame \in RxFrames
      BY <2>1 DEF RxInv, RxTypeOK, Arrived, Blank
    <3> QED
      BY <1>2, <3>1 DEF Input
  <2> QED
    BY <2>1, <2>2, <2>3, <2>4, RxAssumption DEF RxInv, RxTypeOK
<1> QED
  BY <1>1, <1>2

\* Every step preserves it.
LEMMA NextRxInv == RxInv /\ [NextRx]_rxvars => RxInv'
<1>1. RxInv /\ UNCHANGED rxvars => RxInv'
  BY DEF rxvars, rxregs, RxInv, RxTypeOK, FreeBufs
<1> QED
  BY <1>1, OutsideRxInv, RxQueueInv, InputRxInv DEF NextRx

-----------------------------------------------------------------------------
(* The theorems *)

\* While lpc_enetif_input and lpc_rx_queue run, and across overruns, the ring is
\* as RxInv says.
THEOREM RxInvariance == SpecRx => []RxInv
BY InitRxInv, NextRxInv, PTL DEF SpecRx

\* The EMAC writes only to descriptors with a pbuf, and lpc_low_level_input takes
\* frames only from such, in a ring of any size and however little memory the
\* stack leaves to pbuf_alloc.
THEOREM RxRingSound == SpecRx => []RxSound
<1>1. RxInv => DmaHasBuffers
  <2> SUFFICES ASSUME RxInv, NEW i \in Slots, ~rxb[i]
               PROVE  ~(Ahead(RxProduceIndex, i) + 1 <
                          (IF RxConsumeIndex = RxProduceIndex THEN RxN
                           ELSE Ahead(RxProduceIndex, RxConsumeIndex)))
    BY DEF DmaHasBuffers
  <2>1. rx_free_descs = 1 /\ i = RxConsumeIndex /\ RxProduceIndex # i /\ RxProduceIndex \in Slots
    BY DEF RxInv, RxTypeOK
  <2> QED
    BY <2>1, AheadInRing, RxAssumption DEF Slots
<1>2. RxInv => InputHasBuffer /\ RxTypeOK
  BY DEF RxInv, InputHasBuffer, RxTypeOK
<1> QED
  BY <1>1, <1>2, RxInvariance, PTL DEF RxSound
-----------------------------------------------------------------------------
(* The ring is a queue *)

\* The k-th descriptor from one on, as far as another, is that other one only at
\* the end.
LEMMA BetweenInRing ==
    ASSUME NEW a \in Slots, NEW b \in Slots, NEW k \in 0 .. Ahead(a, b)
    PROVE  Round(a + k) \in Slots /\ (Round(a + k) = b <=> k = Ahead(a, b))
<1>1. Ahead(a, b) = IF a <= b THEN b - a ELSE b - a + RxN
  BY AheadInRing
<1>2. a \in Nat /\ k \in Nat /\ a + k \in 0 .. 2 * RxN - 1
  BY <1>1, RxAssumption DEF Slots
<1>3. /\ a + k < RxN => Round(a + k) = a + k
      /\ ~(a + k < RxN) => Round(a + k) = a + k - RxN
      /\ Round(a + k) \in Slots
  BY <1>2, StepInRing, RxAssumption
<1> QED
  BY <1>1, <1>3, RxAssumption DEF Slots

\* The k-th descriptor counted from the one after a, which is b.
LEMMA NextInRing ==
    ASSUME NEW a \in Slots, NEW b \in Slots, b = IF a + 1 >= RxN THEN 0 ELSE a + 1,
           NEW k \in 1 .. RxN - 1
    PROVE  /\ Round(b + 0 + k - 1) = Round(a + 1 + k - 1)
           /\ Round(a + 1 + k - 1) \in Slots \ {a}
<1>1. a + 1 + k - 1 = a + k /\ b + 0 + k - 1 = b + k - 1
  BY DEF Slots
<1>2. /\ a \in Nat /\ b \in Nat /\ k \in Nat
      /\ a + k \in 0 .. 2 * RxN - 1 /\ b + k - 1 \in 0 .. 2 * RxN - 1
  BY RxAssumption DEF Slots
<1>3. /\ a + k < RxN => Round(a + k) = a + k
      /\ ~(a + k < RxN) => Round(a + k) = a + k - RxN
      /\ Round(a + k) \in Slots
  BY <1>2, StepInRing, RxAssumption
<1>4. /\ b + k - 1 < RxN => Round(b + k - 1) = b + k - 1
      /\ ~(b + k - 1 < RxN) => Round(b + k - 1) = b + k - 1 - RxN
  BY <1>2, StepInRing, RxAssumption
<1>5. Round(b + k - 1) = Round(a + k) /\ Round(a + k) # a
  BY <1>2, <1>3, <1>4, RxAssumption DEF Slots
<1> QED
  BY <1>1, <1>3, <1>5

\* What waits is a sequence of as many frames as lie between the indices, less the
\* one whose descriptor is empty.
LEMMA WaitingLength ==
    ASSUME RxInv
    PROVE  /\ Ahead(RxConsumeIndex, RxProduceIndex) - rx_free_descs \in 0 .. RxN - 1
           /\ FramesWaiting \in Seq(Arrived \cup {Blank})
           /\ Len(FramesWaiting) = Ahead(RxConsumeIndex, RxProduceIndex) - rx_free_descs
<1> DEFINE c == RxConsumeIndex
           n == Ahead(RxConsumeIndex, RxProduceIndex) - rx_free_descs
<1>1. c \in Slots /\ RxProduceIndex \in Slots /\ rx_free_descs \in {0, 1}
      /\ (rx_free_descs = 1 => RxProduceIndex # c)
  BY DEF RxInv, RxTypeOK
<1>2. n \in 0 .. RxN - 1
  <2>1. Ahead(c, RxProduceIndex) = (IF c <= RxProduceIndex THEN RxProduceIndex - c
                                    ELSE RxProduceIndex - c + RxN)
    BY <1>1, AheadInRing
  <2> QED
    BY <1>1, <2>1, RxAssumption DEF Slots
<1>3. ASSUME NEW k \in 1 .. n PROVE prxs[Round(c + rx_free_descs + k - 1)] \in Arrived \cup {Blank}
  <2>1. rx_free_descs + k - 1 \in 0 .. Ahead(RxConsumeIndex, RxProduceIndex)
    BY <1>1, <1>2, AheadInRing
  <2>2. c + rx_free_descs + k - 1 = c + (rx_free_descs + k - 1)
    BY <1>1 DEF Slots
  <2>3. Round(c + rx_free_descs + k - 1) \in Slots
    BY <1>1, <2>1, <2>2, BetweenInRing
  <2> QED
    BY <2>3 DEF RxInv, RxTypeOK
<1> QED
  BY <1>2, <1>3 DEF FramesWaiting, Round

\* A frame that the EMAC writes is appended.
LEMMA ReceiveArrives == RxInv /\ RxInv' /\ HwReceive => Link!Arrive
<1> SUFFICES ASSUME RxInv, RxInv', HwReceive PROVE Link!Arrive
  OBVIOUS
<1> DEFINE c == RxConsumeIndex
           p == RxProduceIndex
           f == rx_free_descs
           n == Ahead(c, p) - f
<1>1. PICK e \in Arrived : prxs' = [prxs EXCEPT ![p] = e]
  BY DEF HwReceive
<1>2. c \in Slots /\ p \in Slots /\ f \in {0, 1} /\ p' = Round(p + 1) /\ c' = c /\ f' = f
      /\ p' # c /\ taken' = taken /\ prxs \in [Slots -> Arrived \cup {Blank}]
  BY DEF HwReceive, RxInv, RxTypeOK, Round
<1>3. Ahead(c, p') = Ahead(c, p) + 1 /\ Ahead(c, p) \in 0 .. RxN - 2
  <2>1. /\ p + 1 < RxN => p' = p + 1
        /\ ~(p + 1 < RxN) => p' = p + 1 - RxN
        /\ p' \in Slots
    <3>1. p \in Nat /\ p + 1 \in 0 .. 2 * RxN - 1
      BY <1>2, RxAssumption DEF Slots
    <3> QED
      BY <1>2, <3>1, StepInRing, RxAssumption
  <2>2. Ahead(c, p) = (IF c <= p THEN p - c ELSE p - c + RxN)
    BY <1>2, AheadInRing
  <2>3. Ahead(c, p') = (IF c <= p' THEN p' - c ELSE p' - c + RxN)
    BY <1>2, <2>1, AheadInRing
  <2> QED
    BY <1>2, <2>1, <2>2, <2>3, RxAssumption DEF Slots
<1>4. n \in Nat /\ n < RxN - 1
  <2>1. n \in 0 .. RxN - 1
    BY WaitingLength
  <2> QED
    BY <1>2, <1>3, <2>1, RxAssumption
<1>5. ASSUME NEW k \in 1 .. n + 1
      PROVE  prxs'[Round(c + f + k - 1)] =
               IF k = n + 1 THEN e ELSE prxs[Round(c + f + k - 1)]
  <2>1. f + k - 1 \in 0 .. Ahead(c, p) /\ (f + k - 1 = Ahead(c, p) <=> k = n + 1)
    BY <1>2, <1>3, <1>4, RxAssumption
  <2>2. c + f + k - 1 = c + (f + k - 1)
    BY <1>2 DEF Slots
  <2>3. Round(c + f + k - 1) \in Slots /\ (Round(c + f + k - 1) = p <=> k = n + 1)
    BY <1>2, <2>1, <2>2, BetweenInRing
  <2> QED
    BY <1>1, <1>2, <2>3
<1>6. FramesWaiting' = [k \in 1 .. n + 1 |-> prxs'[Round(c + f + k - 1)]]
  <2>1. Ahead(c, p)' - f' = n + 1
    BY <1>2, <1>3, <1>4, AheadInRing, RxAssumption DEF Ahead, Slots
  <2> QED
    BY <1>2, <2>1 DEF FramesWaiting, Round
<1>7. FramesWaiting' = Append(FramesWaiting, e)
  <2>1. FramesWaiting = [k \in 1 .. n |-> prxs[Round(c + f + k - 1)]]
    BY DEF FramesWaiting, Round
  <2> QED
    BY <1>4, <1>5, <1>6, <2>1
<1>8. \E fr \in RxFrames, whole \in BOOLEAN : e = [frame |-> fr, whole |-> whole]
  BY DEF Arrived
<1> QED
  BY <1>2, <1>4, <1>7, <1>8, WaitingLength DEF Link!Arrive

\* lpc_low_level_input takes the first frame.
LEMMA InputDelivers == RxInv /\ Input => Link!Deliver
<1> SUFFICES ASSUME RxInv, Input PROVE Link!Deliver
  OBVIOUS
<1> DEFINE c == RxConsumeIndex
           n == Ahead(RxConsumeIndex, RxProduceIndex)
<1>1. /\ c \in Slots /\ RxProduceIndex \in Slots /\ rx_free_descs = 0 /\ rx_free_descs' = 1
      /\ RxProduceIndex # c /\ rxb[c]
      /\ UNCHANGED <<prxs, RxProduceIndex, RxConsumeIndex>>
  BY DEF Input, RxInv, RxTypeOK, rxregs
<1>2. n \in 1 .. RxN - 1
  <2>1. n = (IF c <= RxProduceIndex THEN RxProduceIndex - c ELSE RxProduceIndex - c + RxN)
    BY <1>1, AheadInRing
  <2> QED
    BY <1>1, <2>1, RxAssumption DEF Slots
<1>3. FramesWaiting = [k \in 1 .. n |-> prxs[Round(c + k - 1)]]
  BY <1>1, <1>2, RxAssumption DEF FramesWaiting, Round, Slots
<1>4. FramesWaiting' = [k \in 1 .. n - 1 |-> prxs[Round(c + (k + 1) - 1)]]
  <2>1. FramesWaiting' = [k \in 1 .. n - 1 |-> prxs[Round(c + 1 + k - 1)]]
    BY <1>1 DEF FramesWaiting, Round, Ahead
  <2>2. \A k \in 1 .. n - 1 : c + 1 + k - 1 = c + (k + 1) - 1
    BY <1>1 DEF Slots
  <2> QED
    BY <2>1, <2>2
<1>5. Len(FramesWaiting) = n /\ FramesWaiting \in Seq(Arrived \cup {Blank})
  BY <1>1, <1>2, WaitingLength
<1>6. FramesWaiting' = Tail(FramesWaiting)
  BY <1>2, <1>3, <1>4, <1>5
<1>7. Head(FramesWaiting) = prxs[c]
  <2>1. Round(c + 1 - 1) = c
    BY <1>1, RxAssumption DEF Slots, Round
  <2> QED
    BY <1>2, <1>3, <1>5, <2>1
<1>8. taken' = IF prxs[c].whole THEN <<prxs[c].frame>> ELSE <<>>
  BY DEF Input
<1> QED
  BY <1>2, <1>5, <1>6, <1>7, <1>8 DEF Link!Deliver

\* lpc_rx_setup leaves no frame.
LEMMA OverrunEmpties == RxInv /\ InputOverrun => Link!Overrun
<1> SUFFICES ASSUME RxInv, InputOverrun PROVE Link!Overrun
  OBVIOUS
<1>1. RxConsumeIndex' = 0 /\ RxProduceIndex' = 0 /\ rx_free_descs' = 0 /\ taken' = <<>>
  BY OverrunRefills
<1>2. Ahead(RxConsumeIndex, RxProduceIndex)' = 0
  BY <1>1, RxAssumption DEF Ahead
<1>3. FramesWaiting' = <<>>
  BY <1>1, <1>2 DEF FramesWaiting, Round
<1> QED
  BY <1>1, <1>3 DEF Link!Overrun

\* lpc_rx_queue moves RxConsumeIndex past the frame taken and blanks no other.
LEMMA QueueKeepsWaiting == RxInv /\ RxQueue => UNCHANGED <<FramesWaiting, taken>>
<1> SUFFICES ASSUME RxInv, RxQueue PROVE FramesWaiting' = FramesWaiting /\ taken' = taken
  OBVIOUS
<1> DEFINE c == RxConsumeIndex
           p == RxProduceIndex
           n == Ahead(RxConsumeIndex, RxProduceIndex)
<1>1. /\ c \in Slots /\ p \in Slots /\ rx_free_descs = 1 /\ rx_free_descs' = 0 /\ p # c
      /\ c' = (IF c + 1 >= RxN THEN 0 ELSE c + 1) /\ p' = p /\ taken' = taken
      /\ prxs' = [prxs EXCEPT ![c] = Blank] /\ prxs \in [Slots -> Arrived \cup {Blank}]
  BY DEF RxQueue, RxInv, RxTypeOK
<1>2. n \in 1 .. RxN - 1 /\ c' \in Slots /\ n = (IF c <= p THEN p - c ELSE p - c + RxN)
  <2>1. n = (IF c <= p THEN p - c ELSE p - c + RxN)
    BY <1>1, AheadInRing
  <2> QED
    BY <1>1, <2>1, RxAssumption DEF Slots
<1>3. Ahead(c, p)' = n - 1
  <2>1. Ahead(c', p) = IF c' <= p THEN p - c' ELSE p - c' + RxN
    BY <1>1, <1>2, AheadInRing
  <2>2. Ahead(c, p)' = Ahead(c', p)
    BY <1>1 DEF Ahead
  <2> QED
    BY <1>1, <1>2, <2>1, <2>2, RxAssumption DEF Slots
<1>4. FramesWaiting = [k \in 1 .. n - 1 |-> prxs[Round(c + 1 + k - 1)]]
  BY <1>1 DEF FramesWaiting, Round
<1>5. FramesWaiting' = [k \in 1 .. n - 1 |-> prxs'[Round(c' + 0 + k - 1)]]
  <2>1. Ahead(c, p)' - rx_free_descs' = n - 1
    BY <1>1, <1>2, <1>3
  <2> QED
    BY <1>1, <2>1 DEF FramesWaiting, Round
<1>6. ASSUME NEW k \in 1 .. n - 1
      PROVE  prxs'[Round(c' + 0 + k - 1)] = prxs[Round(c + 1 + k - 1)]
  <2>1. c' \in Slots /\ c' = (IF c + 1 >= RxN THEN 0 ELSE c + 1) /\ k \in 1 .. RxN - 1
    BY <1>1, <1>2, RxAssumption
  <2>2. /\ Round(c' + 0 + k - 1) = Round(c + 1 + k - 1)
        /\ Round(c + 1 + k - 1) \in Slots \ {c}
    BY <1>1, <2>1, NextInRing
  <2> QED
    BY <1>1, <2>2
<1> QED
  BY <1>1, <1>4, <1>5, <1>6

\* Frames come up once each and in the order in which they arrived, except that a
\* receiver overrun may lose all that wait, in a ring of any size: the driver
\* implements EtherLink.
THEOREM FramesComeInOrder == SpecRx => FramesInOrder
<1>1. InitRx => Link!Init
  <2> SUFFICES ASSUME InitRx PROVE Link!Init
    OBVIOUS
  <2>1. Ahead(RxConsumeIndex, RxProduceIndex) - rx_free_descs = 0
    BY RxAssumption DEF InitRx, Ahead
  <2> QED
    BY <2>1 DEF InitRx, Link!Init, FramesWaiting
<1>2. RxInv /\ RxInv' /\ [NextRx]_rxvars => [Link!Next]_<<FramesWaiting, taken>>
  <2> SUFFICES ASSUME RxInv, RxInv', [NextRx]_rxvars
               PROVE  [Link!Next]_<<FramesWaiting, taken>>
    OBVIOUS
  <2>1. CASE HwOverrun \/ Stack \/ UNCHANGED rxvars
    BY <2>1 DEF HwOverrun, Stack, rxvars, rxregs, FramesWaiting, Ahead
  <2> QED
    BY <2>1, ReceiveArrives, InputDelivers, OverrunEmpties, QueueKeepsWaiting
       DEF NextRx, Link!Next
<1> QED
  BY <1>1, <1>2, RxInvariance, PTL DEF SpecRx, FramesInOrder, Link!Spec

-----------------------------------------------------------------------------
(* The PHY *)

\* The inductive invariant: besides, all that is remembered is a status.
PhyInv ==
    /\ MacAsRemembered
    /\ {phy, mac, mii.data} \subseteq Status /\ sts \in BOOLEAN
    /\ mii = [busy |-> mii.busy, data |-> mii.data]

\* A status with another link flag
LEMMA Relinked ==
    ASSUME NEW d \in Status, NEW b \in BOOLEAN
    PROVE  [d EXCEPT !.link = b] \in Status
BY DEF Status

\* lpc_update_phy_sts sets what differs, so that everything is as it should be.
LEMMA UpdateSets ==
    ASSUME NEW now \in Status, mac \in Status, mac = olddphysts, lpc_update_phy_sts(now)
    PROVE  mac' = now /\ olddphysts' = now
<1>1. mac' = [k \in {"link", "fast", "full"} |-> now[k]]
    BY DEF lpc_update_phy_sts, Status
<1>2. now = [k \in {"link", "fast", "full"} |-> now[k]]
    BY DEF Status
<1> QED  BY <1>1, <1>2 DEF lpc_update_phy_sts

\* Whenever the PHY changes and however long its registers take to be read, what
\* lpc_phy_sts_sm has told the MAC is what it remembers having told it.
THEOREM MacRemembered == SpecPhy => []MacAsRemembered
<1>1. InitPhy => PhyInv
    BY DEF InitPhy, PhyInv, MacAsRemembered, Status
<1>2. PhyInv /\ [NextPhy]_phyvars => PhyInv'
    <2> SUFFICES ASSUME PhyInv, [NextPhy]_phyvars
                 PROVE  PhyInv'
        OBVIOUS
    <2>1. CASE PhyChanges
        BY <2>1 DEF PhyInv, PhyChanges, MacAsRemembered
    <2>2. CASE MiiDone
        BY <2>2 DEF PhyInv, MiiDone, MacAsRemembered
    <2>3. ASSUME ReadNoblock
          PROVE  mii' = [busy |-> TRUE, data |-> mii.data]
        BY <2>3 DEF PhyInv, ReadNoblock
    <2>4. CASE StsSm0
        BY <2>3, <2>4 DEF PhyInv, StsSm0, MacAsRemembered
    <2>5. CASE StsSm1
        <3>1. mii.data.link \in BOOLEAN
            BY DEF PhyInv, Status
        <3> QED  BY <2>3, <2>5, <3>1 DEF PhyInv, StsSm1, MacAsRemembered
    <2>6. CASE StsSm2
        <3> DEFINE now == [mii.data EXCEPT !.link = sts]
        <3>1. now \in Status
            BY Relinked DEF PhyInv
        <3>2. mac' = now /\ olddphysts' = now
            BY <2>6, <3>1, UpdateSets, Zenon DEF PhyInv, MacAsRemembered, StsSm2
        <3> HIDE DEF now
        <3> QED  BY <2>6, <3>1, <3>2 DEF PhyInv, StsSm2, MacAsRemembered
    <2>7. CASE UNCHANGED phyvars
        BY <2>7 DEF PhyInv, phyvars, MacAsRemembered
    <2> QED  BY <2>1, <2>2, <2>4, <2>5, <2>6, <2>7 DEF NextPhy, StsSm
<1>3. PhyInv => MacAsRemembered
    BY DEF PhyInv
<1> QED  BY <1>1, <1>2, <1>3, PTL DEF SpecPhy
=============================================================================
