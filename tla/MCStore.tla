------------------------------- MODULE MCStore -------------------------------
(***************************************************************************)
(* The devices of the gateway in the long run, for TLC: the record store   *)
(* when power fails in the middle of a save ("torn") and when all goes     *)
(* well ("live"), the SD card driver under it, the clock whose time the    *)
(* records and the store use, and the radio.  A behaviour is one of a      *)
(* single part, chosen at the start; the others keep their initial state.  *)
(***************************************************************************)
EXTENDS Memory, Sd, Clock

CONSTANTS NumTx, NumRx, Frames, Filtered

\* The variables of Radif
VARIABLES TxFrames, TxProduceIndex, TxConsumeIndex, RxFrames, RxProduceIndex, RxConsumeIndex,
          Command, up, rit, boot, reply, irq, timer, eint, chip, irq_status, buffer

VARIABLE part

varsRadio == <<TxFrames, TxProduceIndex, TxConsumeIndex, RxFrames, RxProduceIndex, RxConsumeIndex,
               Command, up, rit, boot, reply, irq, timer, eint, chip, irq_status, buffer>>

\* What is in a frame, and whose it is, makes no difference to progress: all
\* frames are alike.
Radio == INSTANCE Radif WITH Heard <- Frames, Said <- Frames, Blank <- CHOOSE f \in Frames : TRUE

\* A store whose card does what it is told
Live == INSTANCE Memory WITH CardFaults <- FALSE, MaxRecords <- MaxRecords + 2

MCVars == <<part, vars, varsSd, varsClock, varsRadio>>

MCInit ==
    /\ part \in {"torn", "live", "sd", "clock", "radio"}
    /\ InitSd /\ InitClock /\ Radio!InitRadif
    /\ IF part = "torn" THEN InitUsed \/ InitReset \/ InitBlank ELSE Live!InitReset
    /\ part # "sd" => kind = CHOOSE k \in Kinds : TRUE
    /\ part # "sd" => size = CHOOSE n \in Sizes : TRUE

\* A step of part p alone
Only(p) ==
    /\ part = p /\ UNCHANGED part
    /\ (p \notin {"torn", "live"} => UNCHANGED vars)
    /\ (p # "sd" => UNCHANGED varsSd) /\ (p # "clock" => UNCHANGED varsClock)
    /\ (p # "radio" => UNCHANGED varsRadio)

MCNext ==
    \/ Only("torn") /\ NextTorn
    \/ Only("live") /\ Live!Next
    \/ Only("sd") /\ NextSd
    \/ Only("clock") /\ NextClock
    \/ Only("radio") /\ Radio!NextRadif

\* As in Memory: from some point on the power stays on and the server answers;
\* the driver goes on with what it has begun; and as in Radif.  Steps of
\* different parts share a condition, since a behaviour has but one.
MCFairness ==
    /\ WF_MCVars(\/ (Only("live") /\ Live!Quieten) \/ (Only("sd") /\ Driver)
                 \/ (Only("radio") /\ Radio!ReceiveBegin))
    /\ WF_MCVars((Only("live") /\ Live!StartUpload) \/ (Only("radio") /\ Radio!AckSent))
    /\ WF_MCVars((Only("live") /\ Live!SendRecord(TRUE)) \/ (Only("radio") /\ Radio!TransmitEnd))
    /\ WF_MCVars(Only("live") /\ Live!ServerStores)
    /\ WF_MCVars(Only("live") /\ Live!GoodUploadDone(TRUE))
    /\ WF_MCVars(Only("live") /\ Live!UploadEnd)
    /\ SF_MCVars(Only("radio") /\ Radio!Service) /\ SF_MCVars(Only("radio") /\ Radio!Handler)
    /\ SF_MCVars(Only("radio") /\ Radio!TxStart) /\ SF_MCVars(Only("radio") /\ Radio!ReceiveEnd)
    /\ Radio!ChannelNotFull

MCSpec == MCInit /\ [][MCNext]_MCVars /\ MCFairness /\ Live!Settled

-----------------------------------------------------------------------------
\* On a sound card a power failure rolls back fewer records than two strides of
\* put_memory_indexes.
SavedOften == part = "live" => RollbackBounded

\* Every block written and followed by another is uploaded in the end, unless
\* the write index first wraps round behind it or a power failure rolls it back
\* (get_blocks_to_read counts up to the write index only).
PendingUploaded == \A b \in Blocks : []<>(part = "live" => read_index # b \/ write_index <= b)

\* A call of the driver ends unless the card falls silent: the retries of
\* initialise_card are bounded, and no response leads back to where it came from.
CallsEnd == []<>(part = "sd" => pc = "rest" \/ card = "silent")

\* rf212_init, which waits for each command to be carried out by the interrupt
\* it triggers, gets through all six of them.
BootCompletes == part = "radio" => Radio!BootCompletes

\* Every frame in the transmit ring is transmitted in the end, so that
\* radif_send never spins for ever at a full ring.
QueuedIsSent == part = "radio" => Radio!QueuedIsSent
=============================================================================
