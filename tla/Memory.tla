------------------------------- MODULE Memory -------------------------------
(***************************************************************************)
(* The record store of the gateway: src/memory/memory.c over the SD card,  *)
(* with the upload session of src/upload.c and src/server_tcp.c reduced to *)
(* the calls it makes on the store.                                        *)
(*                                                                         *)
(* Blocks 1, 2, ... of the card hold one record each and are used as a     *)
(* ring; block 0 holds four offset copies of the two indexes.  put_sample  *)
(* (from the radio) advances write_index, good_upload_done (from the       *)
(* server's answer) advances read_index.  Both indexes live in RAM and are *)
(* written to block 0 only when one of them reaches a multiple of Stride.  *)
(* All of this code runs in the RIT interrupt handler, so each call is one *)
(* step; a power failure may come between any two steps.                   *)
(***************************************************************************)
EXTENDS Integers, FiniteSets

CONSTANTS
    Sectors,     \* disk_sectors(): blocks on the card; 0 when its CSD is not understood
    MaxBlock,    \* 0x007FFFFF, the last block a 32-bit byte address reaches
    Word,        \* 2^32, the modulus of a uint32_t
    Stride,      \* 8: the indexes are saved "every eighth address"
    BatchMax,    \* 1000 blocks per upload
    CardFaults,  \* whether a command to the card may fail (at start-up: SpecTorn only)
    MaxRecords   \* bound: records offered to the store

\* The last block is_block_valid accepts: disk_sectors()-1 wraps to 2^64-1
\* when the card reports no sectors.
LastBlock == IF Sectors = 0 \/ Sectors - 1 > MaxBlock THEN MaxBlock ELSE Sectors - 1

ASSUME SizesAssumption ==
    /\ Sectors \in Nat /\ Sectors # 1
    /\ MaxBlock \in Nat \ {0}
    /\ Word \in Nat /\ 2 * (MaxBlock + 1) < Word /\ 8 < Word
    /\ Stride \in Nat \ {0}
    /\ BatchMax \in Nat \ {0}
    /\ CardFaults \in BOOLEAN
    /\ MaxRecords \in Nat

Words   == 0 .. Word - 1
Blocks  == 1 .. LastBlock
Invalid == Word - 1                       \* 0xFFFFFFFF
Records == 1 .. MaxRecords                \* a record is named by its arrival
NoRecord == 0                             \* bytes that fail evaluate_checksum

VARIABLES
    disk,               \* Blocks -> record (or NoRecord) on the card
    page,               \* the eight words at the start of block 0
    read_index,         \* memory_indexes.read_index
    write_index,        \* memory_indexes.write_index: the last block written
    quiet,              \* LPC_TIM3->TC - last_write_time >= 3
    mem_buf,            \* the record left in mem_buf by the last disk_read
    session,            \* "idle", "sending" the request, "answering": being answered
    mem_output_index,   \* next block json_element will be given
    records_index,      \* records sent of
    records_count,      \* the records announced in the header
    acks,               \* "id": fields of the answer seen so far
    body,               \* records in the request (a set)
    server,             \* records the database has stored
    puts,               \* records offered to put_sample
    accepted,           \* ghost: records the running program believes it stored
    durable,            \* ghost: accepted when the indexes were last saved
    failed              \* ghost: records on which a card command failed

store   == <<disk, page, read_index, write_index, quiet, mem_buf>>
link    == <<session, mem_output_index, records_index, records_count, acks, body, server>>
ghosts  == <<puts, accepted, durable, failed>>
vars    == <<disk, page, read_index, write_index, quiet, mem_buf,
             session, mem_output_index, records_index, records_count, acks, body, server,
             puts, accepted, durable, failed>>

-----------------------------------------------------------------------------
(* uint32_t arithmetic *)

AddW(x, k) == IF x + k < Word THEN x + k ELSE x + k - Word
SubW(x, y) == IF x >= y THEN x - y ELSE x - y + Word
Int32(x)   == IF 2 * x < Word THEN x ELSE x - Word

(* The index page: copy i/2 is offset by i *)

EncodeIndexes(r, w) ==
    [i \in 0 .. 7 |-> IF i \in {0, 2, 4, 6} THEN AddW(r, i) ELSE AddW(w, i - 1)]

\* Mutant: a copy counts as sound when either of its words is.
PageValidEither(p) == \A i \in {2, 4, 6} : p[i] = AddW(p[0], i) \/ p[i + 1] = AddW(p[1], i)
PageValid(p) == \A i \in {2, 4, 6} : p[i] = AddW(p[0], i) /\ p[i + 1] = AddW(p[1], i)

DecodeIndexes(p) == IF PageValid(p) THEN <<p[0], p[1]>> ELSE <<Invalid, Invalid>>

(* Block control *)

IsBlockValid(b) == b # 0 /\ b <= MaxBlock /\ (Sectors = 0 \/ b <= Sectors - 1)

NextBlock(b) == IF IsBlockValid(AddW(b, 1)) THEN AddW(b, 1) ELSE 1

\* Mutant: one block short.
CapOneShort(blocks) ==
    IF blocks < 1 \/ ~quiet THEN 0 ELSE IF blocks - 1 < BatchMax THEN blocks - 1 ELSE BatchMax
\* None when the difference is negative or the last write is recent.
Cap(blocks) ==
    IF blocks < 0 \/ ~quiet THEN 0 ELSE IF blocks < BatchMax THEN blocks ELSE BatchMax
GetBlocksToRead == Cap(Int32(SubW(write_index, read_index)))

\* The blocks from r round to w: with the two indexes, those written and not
\* yet uploaded.
Ring(r, w) == IF r <= w THEN r .. w ELSE (r .. LastBlock) \cup (1 .. w)

Occupied == Ring(read_index, write_index)

Stored(B) == {disk[b] : b \in B \cap Blocks}

-----------------------------------------------------------------------------
(* Initial states *)

InitRam ==
    /\ read_index  = DecodeIndexes(page)[1]
    /\ write_index = DecodeIndexes(page)[2]
    /\ quiet = FALSE
    /\ mem_buf = NoRecord
    /\ session = "idle"
    /\ mem_output_index = 0 /\ records_index = 0 /\ records_count = 0 /\ acks = 0
    /\ body = {}

\* What the card held before is not tracked: no record of this run is on it.
InitRest ==
    /\ disk = [b \in Blocks |-> NoRecord]
    /\ InitRam
    /\ server = {} /\ puts = 0 /\ accepted = {} /\ durable = {} /\ failed = {}

\* A card in use: the saved indexes are two blocks of the ring.
InitUsed == (\E r, w \in Blocks : page = EncodeIndexes(r, w)) /\ InitRest

\* One of which all but the last block written has been uploaded.
InitEmptied == (\E b \in Blocks : page = EncodeIndexes(b, b)) /\ InitRest

\* A card whose indexes were reset by the lines memory_init keeps commented out.
InitReset == page = EncodeIndexes(0, 0) /\ InitRest

\* A card this firmware has never written.
InitBlank == page = [i \in 0 .. 7 |-> 0] /\ InitRest

-----------------------------------------------------------------------------
(* Writing *)

\* Whether a card command does what it was asked to.
Outcomes == IF CardFaults THEN BOOLEAN ELSE {TRUE}

\* Mutant: the indexes are saved before they are updated.
SaveIndexesEarly(r, w, pok) ==
    IF pok THEN page' = EncodeIndexes(read_index, write_index) /\ durable' = accepted'
           ELSE UNCHANGED <<page, durable>>
\* put_memory_indexes; pok: the write reaches the card (its result is ignored).
SaveIndexes(r, w, pok) ==
    IF pok THEN page' = EncodeIndexes(r, w) /\ durable' = accepted'
           ELSE UNCHANGED <<page, durable>>

\* What a write of rec to block b leaves there: disk_write's result is ignored,
\* so the record may be missing (the old block stays) or garbled.
DiskWrite(b, rec) == IF CardFaults THEN {rec, disk[b], NoRecord} ELSE {rec}

\* "Every eighth address"; mutant: every sixteenth.
DueForSaveRarely(b) == b % (2 * Stride) = 0
DueForSave(b) == b % Stride = 0

\* "If we're not about to overwrite valid data"; mutant: no check.
RoomAlways(next) == TRUE
RoomFor(next) == next # read_index

\* put_sample; got: what is on the card at the next block afterwards.
PutSample(pok) ==
    /\ puts < MaxRecords
    /\ puts' = puts + 1
    /\ LET next == NextBlock(write_index)
       IN  IF RoomFor(next)
           THEN /\ \E got \in DiskWrite(next, puts + 1) :
                     /\ disk' = [disk EXCEPT ![next] = got]
                     /\ failed' = IF got = puts + 1 THEN failed ELSE failed \cup {puts + 1}
                /\ write_index' = next
                /\ quiet' = FALSE
                /\ accepted' = accepted \cup {puts + 1}
                /\ SaveIndexes(read_index, next, pok /\ DueForSave(next))
           ELSE UNCHANGED <<disk, write_index, quiet, accepted, failed, page, durable>>
    /\ UNCHANGED <<read_index, mem_buf>>
    /\ UNCHANGED link

\* Three seconds pass without a write.
Quieten ==
    /\ ~quiet
    /\ quiet' = TRUE
    /\ UNCHANGED <<disk, page, read_index, write_index, mem_buf>>
    /\ UNCHANGED link /\ UNCHANGED ghosts

-----------------------------------------------------------------------------
(* Uploading *)

\* couchdb_start_upload with server_tcp_init, which refuses an empty batch.
StartUpload ==
    /\ session = "idle"
    /\ GetBlocksToRead > 0
    /\ session' = "sending"
    /\ mem_output_index' = read_index
    /\ records_count' = GetBlocksToRead
    /\ records_index' = 0
    /\ acks' = 0
    /\ body' = {}
    /\ UNCHANGED <<server>> /\ UNCHANGED store /\ UNCHANGED ghosts

\* The bytes disk_read leaves in mem_buf.  A block beyond MaxBlock reads as a
\* success that touches nothing; block 0 and an unwritten block hold no record.
DiskRead(index) ==
    IF index > MaxBlock THEN mem_buf ELSE IF index \in Blocks THEN disk[index] ELSE NoRecord

\* OP_JSON_DATA: get_sample of the next block; NULL becomes an empty object.
SendRecord(rok) ==
    /\ session = "sending"
    /\ records_index < records_count
    /\ rok \/ mem_output_index <= MaxBlock
    /\ mem_buf' = IF rok THEN DiskRead(mem_output_index) ELSE mem_buf
    /\ body' = IF rok THEN body \cup ({mem_buf'} \ {NoRecord}) ELSE body
    /\ failed' = IF rok THEN failed ELSE failed \cup ({DiskRead(mem_output_index)} \ {NoRecord})
    /\ mem_output_index' = AddW(mem_output_index, 1)
    /\ records_index' = records_index + 1
    /\ UNCHANGED <<disk, page, read_index, write_index, quiet, session, records_count, acks,
                   server, puts, accepted, durable>>

\* The database takes the request once all of it has arrived.
ServerStores ==
    /\ session = "sending"
    /\ records_index = records_count
    /\ session' = "answering"
    /\ server' = server \cup body
    /\ UNCHANGED <<mem_output_index, records_index, records_count, acks, body>>
    /\ UNCHANGED store /\ UNCHANGED ghosts

\* good_upload_done, called for each "id": of the answer.
GoodUploadDone(pok) ==
    /\ session = "answering"
    /\ acks < records_count
    /\ acks' = acks + 1
    /\ read_index' = NextBlock(read_index)
    /\ accepted' = accepted
    /\ SaveIndexes(read_index', write_index, pok /\ DueForSave(read_index'))
    /\ UNCHANGED <<disk, write_index, quiet, mem_buf, session, mem_output_index,
                   records_index, records_count, body, server, puts, failed>>

\* upload_end: the connection ends, at any point of the exchange.
UploadEnd ==
    /\ session # "idle"
    /\ session' = "idle"
    /\ UNCHANGED <<mem_output_index, records_index, records_count, acks, body, server>>
    /\ UNCHANGED store /\ UNCHANGED ghosts

-----------------------------------------------------------------------------
(* Power failure, then memory_init on what the card holds *)

\* got: the bytes of block 0 that get_memory_indexes sees.
Restart(got) ==
    /\ read_index'  = DecodeIndexes(got)[1]
    /\ write_index' = DecodeIndexes(got)[2]
    /\ quiet' = FALSE
    /\ mem_buf' = NoRecord
    /\ session' = "idle"
    /\ mem_output_index' = 0 /\ records_index' = 0 /\ records_count' = 0 /\ acks' = 0
    /\ body' = {}
    /\ accepted' = durable'
    /\ UNCHANGED <<server, failed>>

PowerFail == UNCHANGED <<disk, puts, page, durable>> /\ Restart(page')

\* The card does not answer at start-up: get_memory_indexes ignores disk_read's
\* result and takes the zeros of indexes_buf.
PowerFailNoCard ==
    /\ CardFaults
    /\ durable' = {}
    /\ UNCHANGED <<disk, puts, page>>
    /\ Restart([i \in 0 .. 7 |-> 0])

\* Power fails in put_memory_indexes with the first k words written.
TornSave(r, w, k) ==
    /\ page' = [i \in 0 .. 7 |-> IF i < k THEN EncodeIndexes(r, w)[i] ELSE page[i]]
    /\ durable' = {}
    /\ Restart(page')

PowerFailInPut(k) ==
    LET next == NextBlock(write_index)
    IN  /\ puts < MaxRecords
        /\ RoomFor(next)
        /\ DueForSave(next)
        /\ puts' = puts + 1
        /\ disk' = [disk EXCEPT ![next] = puts + 1]
        /\ TornSave(read_index, next, k)

PowerFailInAck(k) ==
    /\ session = "answering"
    /\ acks < records_count
    /\ DueForSave(NextBlock(read_index))
    /\ UNCHANGED <<disk, puts>>
    /\ TornSave(NextBlock(read_index), write_index, k)

-----------------------------------------------------------------------------
Next ==
    \/ \E pok \in Outcomes : PutSample(pok)
    \/ Quieten
    \/ StartUpload
    \/ \E rok \in Outcomes : SendRecord(rok)
    \/ ServerStores
    \/ \E pok \in Outcomes : GoodUploadDone(pok)
    \/ UploadEnd
    \/ PowerFail

Spec == InitUsed /\ [][Next]_vars

\* Also index pages torn by a power failure, or not read after one.
NextTorn ==
    \/ Next
    \/ \E k \in 1 .. 7 : PowerFailInPut(k) \/ PowerFailInAck(k)
    \/ PowerFailNoCard

\* The power stays on and connections stop failing from some point on; the
\* RIT interrupt keeps calling upload() and the server answers what it gets.
Settled == <>[][~PowerFail /\ (UploadEnd => session = "answering" /\ acks = records_count)]_vars

Fairness ==
    /\ WF_vars(Quieten) /\ WF_vars(StartUpload) /\ WF_vars(SendRecord(TRUE))
    /\ WF_vars(ServerStores) /\ WF_vars(\E pok \in Outcomes : GoodUploadDone(pok))
    /\ WF_vars(UploadEnd)

FairSpec  == InitReset /\ [][Next]_vars /\ Fairness /\ Settled
SpecBlank == InitBlank /\ [][Next]_vars
SpecEmptied == InitEmptied /\ [][Next]_vars
SpecTorn  == (InitUsed \/ InitReset \/ InitBlank) /\ [][NextTorn]_vars

-----------------------------------------------------------------------------
\* The indexes stay uint32_t values, and an exchange never covers more blocks
\* than get_blocks_to_read allows nor acknowledges more than it covers.
TypeOK ==
    /\ disk \in [Blocks -> Records \cup {NoRecord}]
    /\ page \in [0 .. 7 -> Words]
    /\ read_index \in Words /\ write_index \in Words
    /\ quiet \in BOOLEAN
    /\ mem_buf \in Records \cup {NoRecord}
    /\ session \in {"idle", "sending", "answering"}
    /\ mem_output_index \in Words
    /\ records_count \in 0 .. BatchMax
    /\ records_index \in 0 .. records_count
    /\ acks \in 0 .. records_count
    /\ puts \in 0 .. MaxRecords
    /\ body \subseteq Records /\ server \subseteq Records /\ failed \subseteq Records
    /\ accepted \subseteq 1 .. puts
    /\ durable \subseteq accepted

\* put_sample never overwrites a block that good_upload_done has not passed
\* ("If we're not about to overwrite valid data"), and nothing else writes one.
UnreadBlocksKept == [][\A b \in Occupied \cap Blocks : disk'[b] = disk[b]]_vars

\* Every record put_sample returned 1 for, and that no power failure rolled
\* back, is in the database, or in a block still to be uploaded, unless the
\* card failed on that very record.
NothingLost == accepted \subseteq server \cup failed \cup Stored(Occupied)

\* The same of what a power failure now would leave: memory_init finds every
\* record accepted before the indexes were last saved.
DurableKept ==
    durable \subseteq
        server \cup failed \cup Stored(Ring(DecodeIndexes(page)[1], DecodeIndexes(page)[2]))

\* good_upload_done frees exactly the block at read_index: the read index
\* never overtakes the write index, which would make an empty ring look full.
AckFreesOneBlock ==
    [][\A pok \in Outcomes : GoodUploadDone(pok) => Occupied' = Occupied \ {read_index}]_vars

\* put_sample, good_upload_done and memory_init together keep the promise of a
\* record store: a record leaves the ring only once the database has it.
Store == INSTANCE RecordStore WITH pending <- Stored(Occupied) \ {NoRecord}
ImplementsStore == Store!SpecStore

(* Why NothingLost and DurableKept hold of a card in use: the inductive invariant *)

\* The blocks the current exchange still has to acknowledge lie below the
\* write index (or the end of the ring), and those already sent are, or will
\* be, in the database.
SendingInv ==
    /\ acks = 0
    /\ mem_output_index = read_index + records_index
    /\ read_index + records_count <= LastBlock
    /\ read_index <= write_index => read_index + records_count <= write_index
    /\ \A b \in read_index .. mem_output_index - 1 : disk[b] \in body \cup failed \cup {NoRecord}

AnsweringInv ==
    /\ read_index + (records_count - acks) <= LastBlock
    /\ read_index <= write_index => read_index + (records_count - acks) <= write_index
    /\ \A b \in read_index .. read_index + (records_count - acks) - 1 :
         disk[b] \in server \cup failed \cup {NoRecord}

\* A record is on one block only, and outside the ring's occupied part there
\* is nothing left to upload.
DiskInv ==
    /\ \A b \in Blocks : disk[b] <= puts
    /\ \A b, c \in Blocks : disk[b] = disk[c] => b = c \/ disk[b] = NoRecord
    /\ \A b \in Blocks \ Occupied : disk[b] \in accepted => disk[b] \in server \cup failed

\* What put_sample, good_upload_done and memory_init keep true together of a
\* card in use; it implies NothingLost and DurableKept.
Inv ==
    /\ TypeOK
    /\ read_index \in Blocks /\ write_index \in Blocks
    /\ \E r, w \in Blocks : page = EncodeIndexes(r, w)
    /\ session = "sending" => SendingInv
    /\ session = "answering" => AnsweringInv
    /\ DiskInv
    /\ NothingLost
    /\ DurableKept

\* A power failure rolls back fewer records than two strides: the indexes are
\* saved "every eighth address", but from the last multiple of eight before the
\* end of the ring to the first one after it there are up to fifteen writes.
RollbackBounded == Cardinality(accepted \ durable) <= 2 * (Stride - 1)

\* However the power fails while put_memory_indexes replaces a sound page,
\* memory_init reads back the old indexes, the new ones or 0xFFFFFFFF: the
\* offset copies expose any mixture of the two.
TornPageDetected ==
    [][PageValid(page) => DecodeIndexes(page') \in
         {DecodeIndexes(page), <<Invalid, Invalid>>,
          <<read_index, NextBlock(write_index)>>, <<NextBlock(read_index), write_index>>}]_page

\* get_blocks_to_read "returns the number of blocks that are available to be
\* read": in a quiet store it is 0 only when no record waits, the one in the last
\* block written apart, which is uploaded once there is another behind it.
AvailableAreCounted ==
    quiet /\ GetBlocksToRead = 0 => Stored(Occupied \ {write_index}) \subseteq {NoRecord}
=============================================================================
