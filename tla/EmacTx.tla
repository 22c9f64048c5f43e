------------------------------- MODULE EmacTx -------------------------------
(***************************************************************************)
(* The sending half of the Ethernet driver, src/lwip/netif/lpc_emac.c: a   *)
(* ring of TxN descriptors which the EMAC reads from TxConsumeIndex up to  *)
(* TxProduceIndex.  The pbufs of a frame are not copied but referred to    *)
(* (pbuf_ref) until lpc_tx_reclaim_st sees that the EMAC has read them.    *)
(*                                                                         *)
(* A frame is a chain of one or two pbufs, <<f, 1>> and <<f, 2>>, with the *)
(* reference counts of src/lwip/core/pbuf.c.  The stack may send a frame   *)
(* again while it is still in the ring, as TCP does, and drops its own     *)
(* reference at any time between.  A frame whose pbufs the DMA cannot      *)
(* reach is copied to a new pbuf that belongs to the ring alone.           *)
(*                                                                         *)
(* The EMAC is external: it reads descriptors in order, may set the        *)
(* underrun flag, and restarts at 0 when reset.                            *)
(*                                                                         *)
(* lpc_tx_ready takes too many descriptors for free whenever               *)
(* TxProduceIndex is above TxConsumeIndex, so that a frame may be queued   *)
(* over others the EMAC has still to read.  overfilled records that it has *)
(* happened: the references of the pbufs put out of the ring are lost.     *)
(***************************************************************************)
EXTENDS Integers, Sequences, FiniteSets

CONSTANTS
    TxN,       \* LPC_NUM_BUFF_TXDESCS
    TxFrames,  \* frames that can be in memory at once
    MaxRefs    \* bound on the references to one pbuf

ASSUME TxAssumption == TxN \in Nat /\ TxN > 2 /\ MaxRefs \in Nat

VARIABLES
    txb,              \* the pbuf descriptor i has the EMAC read, to be freed
                      \* after that, or NoPbuf
    TxProduceIndex, TxConsumeIndex, underrun,
    lpc_last_tx_idx,
    refs,             \* the reference count of each pbuf
    tx_held,             \* frames the stack refers to
    sending,          \* the chain lpc_low_level_output is waiting to queue
    overfilled        \* ghost: a chain was queued for which the ring had no room

txrefs == <<refs, tx_held>>
txvars == <<txb, TxProduceIndex, TxConsumeIndex, underrun, lpc_last_tx_idx,
            txrefs, sending, overfilled>>

TxSlots == 0 .. TxN - 1
TxPbufs == TxFrames \X {1, 2}
NoPbuf == <<>>
After(i) == IF i + 1 >= TxN THEN 0 ELSE i + 1

\* Nothing is being sent
Idle == [chain |-> <<>>, copied |-> FALSE]

InitTx ==
    /\ txb = [i \in TxSlots |-> NoPbuf]
    /\ TxProduceIndex = 0 /\ TxConsumeIndex = 0 /\ underrun = FALSE
    /\ lpc_last_tx_idx = 0
    /\ refs = [b \in TxPbufs |-> 0] /\ tx_held = {}
    /\ sending = Idle
    /\ overfilled = FALSE

\* Descriptors from i up to j, going round the ring
Between(i, j) == {k \in TxSlots : (k - i) % TxN < (j - i) % TxN}
Owned == Between(TxConsumeIndex, TxProduceIndex)

\* The ring has one descriptor less than it could hold, since a full ring would
\* look like an empty one.
HasRoom(n) == n <= (TxN - 1) - Cardinality(Owned)

-----------------------------------------------------------------------------
(* pbuf.c *)

Drop(r, b) == [r EXCEPT ![b] = @ - 1]

\* pbuf_free: a count that reaches 0 also drops the reference to the next pbuf of
\* the chain.
pbuf_free(r, b) ==
    LET next == <<b[1], 2>>
    IN  IF r[b] = 1 /\ b[2] = 1 /\ r[next] > 0 THEN Drop(Drop(r, b), next)
        ELSE Drop(r, b)

FreeFrames == {f \in TxFrames : \A i \in {1, 2} : refs[<<f, i>>] = 0}

\* pbuf_alloc and pbuf_chain: a frame of n pbufs
Alloc(r, f, n) == [r EXCEPT ![<<f, 1>>] = 1, ![<<f, 2>>] = n - 1]

\* The stack makes a frame, and drops it.
StackMakes ==
    /\ sending = Idle
    /\ \E f \in FreeFrames, n \in {1, 2} :
         refs' = Alloc(refs, f, n) /\ tx_held' = tx_held \cup {f}
    /\ UNCHANGED <<txb, TxProduceIndex, TxConsumeIndex, underrun,
                   lpc_last_tx_idx, sending, overfilled>>
StackDrops ==
    /\ sending = Idle
    /\ \E f \in tx_held : refs' = pbuf_free(refs, <<f, 1>>) /\ tx_held' = tx_held \ {f}
    /\ UNCHANGED <<txb, TxProduceIndex, TxConsumeIndex, underrun,
                   lpc_last_tx_idx, sending, overfilled>>

-----------------------------------------------------------------------------
(* The EMAC *)

HwTransmit ==
    /\ TxConsumeIndex # TxProduceIndex
    /\ TxConsumeIndex' = After(TxConsumeIndex)
    /\ UNCHANGED <<txb, TxProduceIndex, underrun, lpc_last_tx_idx, txrefs,
                   sending, overfilled>>
HwUnderrun ==
    /\ underrun' = TRUE
    /\ UNCHANGED <<txb, TxProduceIndex, TxConsumeIndex, lpc_last_tx_idx,
                   txrefs, sending, overfilled>>

-----------------------------------------------------------------------------
(* The driver *)

\* The counts after the pbufs of count descriptors from first on have been freed
FreeFrom(first, count) ==
    LET Freed[n \in 0 .. TxN] ==
          IF n = 0 THEN refs
          ELSE LET i == (first + n - 1) % TxN
               IN  IF txb[i] = NoPbuf THEN Freed[n - 1] ELSE pbuf_free(Freed[n - 1], txb[i])
    IN  Freed[count]

\* lpc_tx_reclaim_st: the counts and the ring it leaves
ReclaimedRefs == FreeFrom(lpc_last_tx_idx, (TxConsumeIndex - lpc_last_tx_idx) % TxN)
ReclaimedTxb ==
    [i \in TxSlots |->
        IF i \in Between(lpc_last_tx_idx, TxConsumeIndex) THEN NoPbuf ELSE txb[i]]

\* lpc_tx_reclaim, called by net_service
TxReclaim ==
    /\ sending = Idle
    /\ refs' = ReclaimedRefs /\ txb' = ReclaimedTxb
    /\ lpc_last_tx_idx' = TxConsumeIndex
    /\ UNCHANGED <<TxProduceIndex, TxConsumeIndex, underrun, tx_held, sending, overfilled>>

\* lpc_tx_ready: the descriptors it takes for free
lpc_tx_ready ==
    LET idx == TxProduceIndex
        cidx == TxConsumeIndex
    IN  CASE idx = cidx -> TxN
          [] cidx > idx -> (TxN - 1) - ((idx + TxN) - cidx)
          [] OTHER -> (TxN - 1) - (cidx - idx)

\* The chains a frame's pbufs make: as they are, or copied to a new one
Chain(f) == IF refs[<<f, 2>>] > 0 THEN <<<<f, 1>>, <<f, 2>>>> ELSE <<<<f, 1>>>>

\* lpc_low_level_output after an underrun: the pbufs of all descriptors are freed
ResetRefs == FreeFrom(0, TxN)

\* lpc_low_level_output up to its wait: after an underrun the reset, with
\* lpc_tx_setup; then the choice between the frame and a copy of it.  Without
\* memory for the copy it returns, the reset being done.
LowLevelOutput ==
    LET before == IF underrun THEN ResetRefs ELSE refs
    IN  /\ sending = Idle
        /\ \E f \in tx_held :
             \/ /\ \A i \in {1, 2} : refs[<<f, i>>] < MaxRefs
                /\ sending' = [chain |-> Chain(f), copied |-> FALSE]
                /\ refs' = before
             \/ \E g \in TxFrames :
                  /\ \A i \in {1, 2} : before[<<g, i>>] = 0
                  /\ sending' = [chain |-> <<<<g, 1>>>>, copied |-> TRUE]
                  /\ refs' = Alloc(before, g, 1)
             \/ sending' = Idle /\ refs' = before
        /\ IF underrun
           THEN /\ txb' = [i \in TxSlots |-> NoPbuf]
                /\ TxProduceIndex' = 0 /\ TxConsumeIndex' = 0 /\ lpc_last_tx_idx' = 0
           ELSE UNCHANGED <<txb, TxProduceIndex, TxConsumeIndex, lpc_last_tx_idx>>
        /\ underrun' = FALSE
        /\ UNCHANGED <<tx_held, overfilled>>

\* The rest of it: each look of the waiting loop reclaims, and the look that finds
\* descriptors enough is followed by the queueing of the chain.
OutputWait ==
    /\ sending # Idle /\ Len(sending.chain) > lpc_tx_ready
    /\ refs' = ReclaimedRefs /\ txb' = ReclaimedTxb
    /\ lpc_last_tx_idx' = TxConsumeIndex
    /\ UNCHANGED <<TxProduceIndex, TxConsumeIndex, underrun, tx_held, sending, overfilled>>
\* Mutant: the ring takes no reference of its own
OutputQueueNoRef ==
    LET dn == Len(sending.chain)
        slot(k) == (TxProduceIndex + k - 1) % TxN
    IN  /\ sending # Idle /\ dn <= lpc_tx_ready
        /\ txb' = [i \in TxSlots |->
                     IF \E k \in 1 .. dn : i = slot(k)
                     THEN sending.chain[CHOOSE k \in 1 .. dn : i = slot(k)]
                     ELSE ReclaimedTxb[i]]
        /\ refs' = ReclaimedRefs
        /\ lpc_last_tx_idx' = TxConsumeIndex
        /\ TxProduceIndex' = slot(dn + 1)
        /\ sending' = Idle
        /\ overfilled' = (overfilled \/ ~HasRoom(dn))
        /\ UNCHANGED <<TxConsumeIndex, underrun, tx_held>>
OutputQueue ==
    LET dn == Len(sending.chain)
        slot(k) == (TxProduceIndex + k - 1) % TxN
        Put(ring) == [i \in TxSlots |->
                        IF \E k \in 1 .. dn : i = slot(k)
                        THEN sending.chain[CHOOSE k \in 1 .. dn : i = slot(k)]
                        ELSE ring[i]]
    IN  /\ sending # Idle /\ dn <= lpc_tx_ready
        /\ txb' = Put(ReclaimedTxb)
        /\ refs' = [b \in TxPbufs |-> ReclaimedRefs[b] +
                     IF sending.copied THEN 0
                     ELSE Cardinality({k \in 1 .. dn : sending.chain[k] = b})]
        /\ lpc_last_tx_idx' = TxConsumeIndex
        /\ TxProduceIndex' = slot(dn + 1)
        /\ sending' = Idle
        /\ overfilled' = (overfilled \/ ~HasRoom(dn))
        /\ UNCHANGED <<TxConsumeIndex, underrun, tx_held>>

NextTx ==
    \/ StackMakes \/ StackDrops \/ HwTransmit \/ HwUnderrun
    \/ TxReclaim \/ LowLevelOutput \/ OutputWait \/ OutputQueue

SpecTx == InitTx /\ [][NextTx]_txvars

-----------------------------------------------------------------------------
(* Properties *)

\* The descriptors hold pbufs, indexes are in range, and no count is negative:
\* no pbuf is freed more often than it was referred to.
TxTypeOK ==
    /\ txb \in [TxSlots -> TxPbufs \cup {NoPbuf}]
    /\ {TxProduceIndex, TxConsumeIndex, lpc_last_tx_idx} \subseteq TxSlots
    /\ underrun \in BOOLEAN /\ overfilled \in BOOLEAN
    /\ refs \in [TxPbufs -> Nat] /\ tx_held \subseteq TxFrames
    /\ Len(sending.chain) \in 0 .. 2 /\ sending.copied \in BOOLEAN

\* References to a pbuf: the ring's, the stack's, that of the pbuf before it in
\* its chain, and that of a copy not yet queued.
Known(b) ==
    Cardinality({i \in TxSlots : txb[i] = b})
    + (IF b[2] = 1 /\ b[1] \in tx_held THEN 1 ELSE 0)
    + (IF b[2] = 2 /\ refs[<<b[1], 1>>] > 0 /\ refs[b] > 0 THEN 1 ELSE 0)
    + (IF sending.copied /\ sending.chain[1] = b THEN 1 ELSE 0)

\* What the EMAC may still read has not been freed, whoever else has dropped it,
\* and will be freed by the ring.
ReadsLivePbufs ==
    \A i \in Owned : txb[i] # NoPbuf /\ refs[txb[i]] > 0

\* Until the ring is overfilled, every reference is known to somebody who will
\* drop it.
NoLostReference == ~overfilled => \A b \in TxPbufs : refs[b] = Known(b)

\* "Wait until enough descriptors are available for the transfer": what
\* lpc_low_level_output queues fits into the descriptors that are free.
EnoughAvailable == [][OutputQueue => HasRoom(Len(sending.chain))]_txvars

\* A frame given to the driver gets into the ring.
OutputEnds == []<>(sending = Idle)

\* What lpc_low_level_output and lpc_tx_reclaim keep true of the ring and the
\* pbufs while the EMAC empties it.
TxSound == TxTypeOK /\ ReadsLivePbufs /\ NoLostReference
=============================================================================
