---------------------------- MODULE MemoryProofs ----------------------------
(***************************************************************************)
(* Proofs about Memory, for a card of any size: the ring and the index     *)
(* page, and an index page torn by a loss of power.                        *)
(***************************************************************************)
EXTENDS Memory, TLAPS

-----------------------------------------------------------------------------
(* The ring and the index page *)

\* The ring is not empty, and its blocks are words with room to spare, so that
\* none of the additions memory.c makes on them wraps.
LEMMA LastBlockType == LastBlock \in Nat \ {0} /\ LastBlock <= MaxBlock /\ 2 * (LastBlock + 1) < Word
BY SizesAssumption DEF LastBlock

\* is_block_valid accepts the blocks of the ring and no others.
LEMMA BlockValid == \A b \in Words : IsBlockValid(b) <=> b \in Blocks
BY SizesAssumption DEF Words, Blocks, LastBlock, IsBlockValid

\* next_block steps to the next block of the ring.
LEMMA NextBlockInRing ==
    \A b \in Blocks : /\ NextBlock(b) \in Blocks
                      /\ NextBlock(b) = IF b < LastBlock THEN b + 1 ELSE 1
BY SizesAssumption, LastBlockType, BlockValid DEF NextBlock, AddW, Blocks, Words

\* What put_memory_indexes writes, get_memory_indexes reads back, whatever the
\* indexes are.
LEMMA DecodeEncodeWords ==
    ASSUME NEW r \in Words, NEW w \in Words
    PROVE  /\ EncodeIndexes(r, w) \in [0 .. 7 -> Words]
           /\ DecodeIndexes(EncodeIndexes(r, w)) = <<r, w>>
<1> DEFINE p == EncodeIndexes(r, w)
<1>1. \A k \in 0 .. 7 : AddW(r, k) \in Words /\ AddW(w, k) \in Words
  BY SizesAssumption DEF AddW, Words
<1>2. /\ p[0] = AddW(r, 0) /\ p[1] = AddW(w, 0) /\ p[2] = AddW(r, 2) /\ p[3] = AddW(w, 2)
      /\ p[4] = AddW(r, 4) /\ p[5] = AddW(w, 4) /\ p[6] = AddW(r, 6) /\ p[7] = AddW(w, 6)
  BY DEF EncodeIndexes
<1>3. AddW(r, 0) = r /\ AddW(w, 0) = w
  BY SizesAssumption DEF AddW, Words
<1>4. PageValid(p)
  BY <1>2, <1>3 DEF PageValid
<1>5. p \in [0 .. 7 -> Words]
  BY <1>1 DEF EncodeIndexes
<1> QED
  BY <1>2, <1>3, <1>4, <1>5 DEF DecodeIndexes

\* So it is for blocks of the ring.
LEMMA DecodeEncode ==
    ASSUME NEW r \in Blocks, NEW w \in Blocks
    PROVE  /\ EncodeIndexes(r, w) \in [0 .. 7 -> Words]
           /\ DecodeIndexes(EncodeIndexes(r, w)) = <<r, w>>
<1>1. r \in Words /\ w \in Words
  BY SizesAssumption, LastBlockType DEF Blocks, Words
<1> QED BY <1>1, DecodeEncodeWords

\* A batch never reaches past the block before write_index.
LEMMA BatchBelowWrite ==
    ASSUME NEW r \in Blocks, NEW w \in Blocks, NEW n, n = Cap(Int32(SubW(w, r)))
    PROVE  n \in 0 .. BatchMax /\ (n > 0 => r + n <= w)
BY SizesAssumption, LastBlockType DEF Cap, Int32, SubW, Blocks

\* put_sample's test keeps the next block out of the occupied part of the ring,
\* which then grows by that block.
LEMMA PutGrowsRing ==
    ASSUME NEW r \in Blocks, NEW w \in Blocks, NextBlock(w) # r
    PROVE  /\ NextBlock(w) \notin Ring(r, w)
           /\ Ring(r, NextBlock(w)) = Ring(r, w) \cup {NextBlock(w)}
BY LastBlockType, NextBlockInRing DEF Ring, Blocks

\* good_upload_done shrinks it by the block at read_index.
LEMMA AckShrinksRing ==
    ASSUME NEW r \in Blocks, NEW w \in Blocks, r < LastBlock, r <= w => r < w
    PROVE  NextBlock(r) = r + 1 /\ Ring(r + 1, w) = Ring(r, w) \ {r}
BY LastBlockType, NextBlockInRing DEF Ring, Blocks

-----------------------------------------------------------------------------
(* The invariant holds initially and each action preserves it *)

\* memory_init on a card in use establishes the invariant.
LEMMA InitInv == InitUsed => Inv
<1> SUFFICES ASSUME InitUsed PROVE Inv
  OBVIOUS
<1> USE DEF InitUsed, InitRest, InitRam, Records, NoRecord
<1>1. PICK r \in Blocks, w \in Blocks : page = EncodeIndexes(r, w)
  OBVIOUS
<1>2. read_index = r /\ write_index = w /\ page \in [0 .. 7 -> Words]
  BY <1>1, DecodeEncode
<1>3. Blocks \subseteq Words /\ 0 \in Words
  BY SizesAssumption, LastBlockType DEF Blocks, Words
<1>4. TypeOK
  <2>1. disk \in [Blocks -> Records \cup {NoRecord}] /\ quiet \in BOOLEAN
    BY Zenon
  <2> QED
    BY <2>1, <1>2, <1>3, SizesAssumption DEF TypeOK
<1>5. DiskInv /\ NothingLost /\ DurableKept
  BY SizesAssumption DEF DiskInv, NothingLost, DurableKept
<1> QED
  BY <1>1, <1>2, <1>4, <1>5 DEF Inv

\* Steps that change neither the card nor the indexes nor the ghosts.
LEMMA LinkStep ==
    ASSUME Inv, TypeOK', UNCHANGED <<disk, page, read_index, write_index, puts, accepted, durable>>,
           server \subseteq server', failed \subseteq failed',
           (session = "sending" => SendingInv)', (session = "answering" => AnsweringInv)'
    PROVE  Inv'
<1>1. Occupied' = Occupied /\ \A B : Stored(B)' = Stored(B)
  BY DEF Occupied, Stored
<1>2. DiskInv'
  BY <1>1 DEF Inv, DiskInv
<1>3. NothingLost'
  BY <1>1 DEF Inv, NothingLost
<1>4. DurableKept'
  BY <1>1 DEF Inv, DurableKept, Stored
<1> QED
  BY <1>2, <1>3, <1>4 DEF Inv

\* The passing of the three seconds of get_blocks_to_read preserves it.
LEMMA QuietenInv == Inv /\ Quieten => Inv'
<1> SUFFICES ASSUME Inv, Quieten PROVE Inv'
  OBVIOUS
<1> USE DEF Quieten, link, ghosts
<1>1. TypeOK'
  BY DEF Inv, TypeOK
<1>2. (session = "sending" => SendingInv)' /\ (session = "answering" => AnsweringInv)'
  BY DEF Inv, SendingInv, AnsweringInv
<1> QED
  BY <1>1, <1>2, LinkStep

\* upload_end preserves it.
LEMMA UploadEndInv == Inv /\ UploadEnd => Inv'
<1> SUFFICES ASSUME Inv, UploadEnd PROVE Inv'
  OBVIOUS
<1> USE DEF UploadEnd, store, ghosts
<1>1. TypeOK'
  BY DEF Inv, TypeOK
<1> QED
  BY <1>1, LinkStep

\* couchdb_start_upload preserves it: the batch ends below write_index.
LEMMA StartUploadInv == Inv /\ StartUpload => Inv'
<1> SUFFICES ASSUME Inv, StartUpload PROVE Inv'
  OBVIOUS
<1> USE DEF StartUpload, store, ghosts
<1> DEFINE n == GetBlocksToRead
<1>1. n \in 0 .. BatchMax /\ read_index + n <= write_index
  BY BatchBelowWrite DEF GetBlocksToRead, Inv
<1>2. TypeOK'
  BY <1>1, SizesAssumption DEF Inv, TypeOK
<1>3. SendingInv'
  BY <1>1, LastBlockType DEF Inv, SendingInv, Blocks, TypeOK
<1> QED
  BY <1>2, <1>3, LinkStep

\* The database taking the request preserves it.
LEMMA ServerStoresInv == Inv /\ ServerStores => Inv'
<1> SUFFICES ASSUME Inv, ServerStores PROVE Inv'
  OBVIOUS
<1> USE DEF ServerStores, store, ghosts
<1>1. TypeOK'
  BY DEF Inv, TypeOK
<1>2. AnsweringInv'
  BY <1>1, LastBlockType DEF Inv, SendingInv, AnsweringInv, Blocks, TypeOK
<1> QED
  BY <1>1, <1>2, LinkStep

\* get_sample and the step of mem_output_index preserve it.
LEMMA SendRecordInv == ASSUME NEW rok \in BOOLEAN, Inv, SendRecord(rok) PROVE Inv'
<1>1. SendingInv /\ TypeOK /\ read_index \in Blocks
  BY DEF Inv, SendRecord
<1>2. records_index < records_count /\ records_index \in Nat /\ records_count \in Nat
  BY <1>1 DEF SendRecord, TypeOK
<1>3. mem_output_index \in Blocks /\ mem_output_index < LastBlock
  BY <1>1, <1>2, LastBlockType DEF SendingInv, Blocks
<1>4. DiskRead(mem_output_index) = disk[mem_output_index]
  BY <1>3, SizesAssumption, LastBlockType DEF DiskRead, Blocks
<1>5. disk[mem_output_index] \in Records \cup {NoRecord}
  BY <1>1, <1>3 DEF TypeOK
<1>6. mem_output_index' = mem_output_index + 1 /\ records_index' = records_index + 1
  BY <1>3, SizesAssumption, LastBlockType DEF SendRecord, Blocks, AddW
<1>7. /\ body \subseteq body' /\ failed \subseteq failed'
      /\ disk[mem_output_index] \in body' \cup failed' \cup {NoRecord}
  BY <1>4 DEF SendRecord
<1>8. TypeOK'
  <2>1. mem_output_index' \in Words /\ records_index' \in 0 .. records_count
    BY <1>2, <1>3, <1>6, SizesAssumption, LastBlockType DEF Words, Blocks
  <2>2. mem_buf' \in Records \cup {NoRecord}
    BY <1>1, <1>4, <1>5 DEF TypeOK, SendRecord
  <2>3. body' \subseteq Records /\ failed' \subseteq Records
    BY <1>1, <1>4, <1>5, <2>2 DEF TypeOK, SendRecord
  <2> QED
    BY <1>1, <2>1, <2>2, <2>3 DEF TypeOK, SendRecord
<1>9. SendingInv'
  <2>1. disk' = disk /\ read_index' = read_index
    BY DEF SendRecord
  <2>2. \A b \in read_index .. mem_output_index' - 1 : disk[b] \in body' \cup failed' \cup {NoRecord}
    BY <1>1, <1>3, <1>6, <1>7 DEF SendingInv, Blocks
  <2> QED
    BY <1>1, <1>2, <1>3, <1>6, <2>1, <2>2 DEF SendingInv, SendRecord, Blocks
<1> QED
  BY <1>7, <1>8, <1>9, LinkStep DEF SendRecord

\* Saving the current indexes makes durable what the invariant says of accepted.
LEMMA SaveIndexesInv ==
    ASSUME Inv, read_index' \in Blocks, write_index' \in Blocks,
           \/ page' = EncodeIndexes(read_index', write_index') /\ durable' = accepted'
           \/ UNCHANGED <<page, durable>>,
           NothingLost', accepted \subseteq accepted',
           server \subseteq server', failed \subseteq failed',
           \A b \in Blocks : disk[b] \in durable => disk[b] = disk'[b] \/ disk[b] \in server \cup failed
    PROVE  /\ \E r, w \in Blocks : page' = EncodeIndexes(r, w)
           /\ page' \in [0 .. 7 -> Words]
           /\ durable' \subseteq accepted'
           /\ DurableKept'
<1>1. CASE page' = EncodeIndexes(read_index', write_index') /\ durable' = accepted'
  <2>1. DecodeIndexes(page') = <<read_index', write_index'>> /\ page' \in [0 .. 7 -> Words]
    BY <1>1, DecodeEncode
  <2>2. DurableKept'
    BY <1>1, <2>1 DEF NothingLost, DurableKept, Occupied
  <2> QED
    BY <1>1, <2>1, <2>2
<1>2. CASE UNCHANGED <<page, durable>>
  <2>1. page' = page /\ durable' = durable
    BY <1>2
  <2> DEFINE R == Ring(DecodeIndexes(page)[1], DecodeIndexes(page)[2])
  <2>2. SUFFICES ASSUME NEW x \in durable, x \notin server' \cup failed'
                 PROVE  x \in Stored(R)'
    BY <2>1 DEF DurableKept, Inv, TypeOK
  <2>3. PICK b \in R \cap Blocks : x = disk[b]
    BY <2>2 DEF Inv, DurableKept, Stored
  <2>4. disk'[b] = x
    BY <2>2, <2>3
  <2> QED
    BY <2>1, <2>3, <2>4 DEF Stored
<1> QED
  BY <1>1, <1>2

\* While an acknowledgement is still due, the block at read_index is neither the
\* last of the ring nor the one at write_index.
LEMMA AckedBelowWrite ==
    ASSUME Inv, session = "answering", acks < records_count
    PROVE  /\ AnsweringInv /\ TypeOK /\ read_index \in Blocks /\ write_index \in Blocks
           /\ read_index < LastBlock
           /\ read_index <= write_index => read_index < write_index
<1>1. AnsweringInv /\ TypeOK /\ read_index \in Blocks /\ write_index \in Blocks
  BY DEF Inv
<1>2. read_index \in Nat /\ write_index \in Nat /\ acks \in Nat /\ records_count \in Nat
  BY <1>1, LastBlockType DEF TypeOK, Blocks
<1> QED
  BY <1>1, <1>2, LastBlockType DEF AnsweringInv

\* good_upload_done preserves it: the block it frees is in the database.
LEMMA GoodUploadDoneInv == ASSUME NEW pok \in BOOLEAN, Inv, GoodUploadDone(pok) PROVE Inv'
<1> USE DEF GoodUploadDone
<1>1. /\ AnsweringInv /\ TypeOK /\ read_index \in Blocks /\ write_index \in Blocks
      /\ read_index < LastBlock
      /\ read_index <= write_index => read_index < write_index
  BY AckedBelowWrite
<1>2. /\ read_index' = read_index + 1
      /\ read_index' \in Blocks
      /\ Occupied' = Occupied \ {read_index}
  BY <1>1, AckShrinksRing, NextBlockInRing DEF Occupied
<1>3. disk[read_index] \in server \cup failed \cup {NoRecord}
  BY <1>1, LastBlockType DEF AnsweringInv, TypeOK, Blocks
<1>4. AnsweringInv'
  BY <1>1, <1>2, LastBlockType DEF AnsweringInv, TypeOK, Blocks
<1>5. DiskInv'
  BY <1>2, <1>3 DEF Inv, DiskInv, TypeOK, NoRecord
<1>6. NothingLost'
  BY <1>2, <1>3 DEF Inv, NothingLost, Stored, TypeOK, NoRecord
<1>7. /\ \E r, w \in Blocks : page' = EncodeIndexes(r, w)
      /\ page' \in [0 .. 7 -> Words]
      /\ durable' \subseteq accepted'
      /\ DurableKept'
  <2>1. \/ page' = EncodeIndexes(read_index', write_index') /\ durable' = accepted'
        \/ UNCHANGED <<page, durable>>
    BY DEF SaveIndexes
  <2> QED
    BY <1>1, <1>2, <1>6, <2>1, SaveIndexesInv
<1>8. TypeOK'
  <2>1. read_index' \in Words
    BY <1>2, SizesAssumption, LastBlockType DEF Blocks, Words
  <2>2. acks' \in 0 .. records_count /\ accepted' = accepted
    BY <1>1 DEF TypeOK
  <2> QED
    BY <1>1, <1>7, <2>1, <2>2 DEF TypeOK
<1> QED
  BY <1>1, <1>2, <1>4, <1>5, <1>6, <1>7, <1>8, Zenon DEF Inv

\* put_sample preserves it, room or none.
LEMMA PutSampleInv == ASSUME NEW pok \in BOOLEAN, Inv, PutSample(pok) PROVE Inv'
<1> DEFINE next == NextBlock(write_index)
           rec  == puts + 1
<1>1. /\ TypeOK /\ read_index \in Blocks /\ write_index \in Blocks /\ next \in Blocks
      /\ rec \in Records /\ puts' = rec /\ puts' \in 0 .. MaxRecords /\ rec \notin 1 .. puts
      /\ UNCHANGED <<read_index, mem_buf>> /\ UNCHANGED link
  BY NextBlockInRing, SizesAssumption DEF Inv, PutSample, TypeOK, Records
<1>2. CASE next = read_index
  <2>1. UNCHANGED <<disk, write_index, quiet, accepted, failed, page, durable>>
    BY <1>2, Zenon DEF PutSample, RoomFor
  <2>2. TypeOK'
    BY <1>1, <2>1 DEF TypeOK, link
  <2>3. (session = "sending" => SendingInv)' /\ (session = "answering" => AnsweringInv)'
    BY <1>1, <2>1 DEF Inv, SendingInv, AnsweringInv, link
  <2>4. DiskInv' /\ NothingLost' /\ DurableKept'
    BY <1>1, <2>1, SMTT(30) DEF Inv, DiskInv, NothingLost, DurableKept, Occupied, Stored, link, TypeOK, Records, NoRecord
  <2> QED
    BY <1>1, <2>1, <2>2, <2>3, <2>4, SMTT(30) DEF Inv
<1>3. CASE next # read_index
  <2>1. PICK got \in {rec, disk[next], NoRecord} :
            /\ disk' = [disk EXCEPT ![next] = got]
            /\ failed' = IF got = rec THEN failed ELSE failed \cup {rec}
    BY <1>3 DEF PutSample, RoomFor, DiskWrite
  <2>2. write_index' = next /\ quiet' = FALSE /\ accepted' = accepted \cup {rec}
    BY <1>3 DEF PutSample, RoomFor
  <2>3. \/ page' = EncodeIndexes(read_index', write_index') /\ durable' = accepted'
        \/ UNCHANGED <<page, durable>>
    BY <1>1, <1>3, <2>2 DEF PutSample, RoomFor, SaveIndexes
  <2>4. next \notin Occupied /\ Occupied' = Occupied \cup {next}
    BY <1>1, <1>3, <2>2, PutGrowsRing DEF Occupied
  <2>5. /\ disk' \in [Blocks -> Records \cup {NoRecord}]
        /\ \A b \in Blocks \ {next} : disk'[b] = disk[b]
        /\ disk'[next] = got
    BY <1>1, <2>1 DEF TypeOK
  <2>6. failed \subseteq failed' /\ failed' \subseteq Records /\ (got # rec => rec \in failed')
    BY <1>1, <2>1 DEF TypeOK
  <2>7. DiskInv'
    <3>1. \A b \in Blocks : disk[b] \in Nat /\ disk[b] <= puts
      BY <1>1 DEF Inv, DiskInv, TypeOK, Records, NoRecord
    <3>2. \A b \in Blocks : disk'[b] <= puts'
      BY <1>1, <2>1, <2>5, <3>1 DEF TypeOK, NoRecord
    <3>3. \A b, c \in Blocks : disk'[b] = disk'[c] => b = c \/ disk'[b] = NoRecord
      BY <1>1, <2>1, <2>5, <3>1, SMTT(30) DEF Inv, DiskInv, TypeOK
    <3>4. \A b \in Blocks \ Occupied' : disk'[b] \in accepted' => disk'[b] \in server' \cup failed'
      BY <1>1, <2>2, <2>4, <2>5, <2>6, <3>1, SMTT(30) DEF Inv, DiskInv, TypeOK, link
    <3> QED
      BY <3>2, <3>3, <3>4 DEF DiskInv
  <2>8. NothingLost'
    <3>1. rec \in server' \cup failed' \cup Stored(Occupied)'
      BY <1>1, <2>4, <2>5, <2>6 DEF Stored
    <3>2. Stored(Occupied) \subseteq Stored(Occupied)'
      BY <2>4, <2>5 DEF Stored
    <3> QED
      BY <1>1, <2>2, <2>6, <3>1, <3>2 DEF Inv, NothingLost, link
  <2>9. (session = "sending" => SendingInv)' /\ (session = "answering" => AnsweringInv)'
    <3>1. ASSUME NEW n \in Nat, read_index + n <= LastBlock,
                 read_index <= write_index => read_index + n <= write_index
          PROVE  /\ \A b \in read_index .. read_index + n - 1 : b \in Blocks /\ disk'[b] = disk[b]
                 /\ read_index <= next => read_index + n <= next
      <4>1. \A b \in read_index .. read_index + n - 1 : b \in Blocks /\ b \in Occupied
        BY <1>1, <3>1, LastBlockType DEF Occupied, Ring, Blocks
      <4>2. read_index <= next => read_index + n <= next
        BY <1>1, <1>3, <3>1, LastBlockType, NextBlockInRing DEF Blocks
      <4> QED
        BY <2>4, <2>5, <4>1, <4>2
    <3>2. ASSUME session = "sending" PROVE SendingInv'
      <4>1. SendingInv /\ records_index \in Nat /\ records_count \in Nat /\ records_index <= records_count
        BY <1>1, <3>2 DEF Inv, TypeOK
      <4> QED
        BY <1>1, <2>2, <2>6, <3>1, <4>1, LastBlockType DEF SendingInv, link, Blocks
    <3>3. ASSUME session = "answering" PROVE AnsweringInv'
      <4>1. AnsweringInv /\ records_count - acks \in Nat
        BY <1>1, <3>3, SMTT(30) DEF Inv, TypeOK
      <4> QED
        BY <1>1, <2>2, <2>6, <3>1, <4>1 DEF AnsweringInv, link
    <3> QED
      BY <1>1, <3>2, <3>3 DEF link
  <2>10. /\ \E r, w \in Blocks : page' = EncodeIndexes(r, w)
         /\ page' \in [0 .. 7 -> Words]
         /\ durable' \subseteq accepted'
         /\ DurableKept'
    <3>1. \A b \in Blocks : disk[b] \in durable =>
                             disk[b] = disk'[b] \/ disk[b] \in server \cup failed
      BY <1>1, <2>4, <2>5, Zenon DEF Inv, DiskInv, TypeOK
    <3> QED
      BY <1>1, <2>2, <2>3, <2>6, <2>8, <3>1, SaveIndexesInv, Zenon DEF link
  <2>11. TypeOK'
    <3>1. write_index' \in Words
      BY <1>1, <2>2, SizesAssumption, LastBlockType DEF Blocks, Words
    <3>2. quiet' \in BOOLEAN
      BY <2>2, Zenon
    <3>3. accepted' \subseteq 1 .. puts'
      BY <1>1, <2>2 DEF TypeOK
    <3> QED
      BY <1>1, <2>5, <2>6, <2>10, <3>1, <3>2, <3>3 DEF TypeOK, link
  <2> QED
    BY <1>1, <2>2, <2>7, <2>8, <2>9, <2>10, <2>11 DEF Inv
<1> QED
  BY <1>2, <1>3

\* A power failure followed by memory_init preserves it.
LEMMA PowerFailInv == Inv /\ PowerFail => Inv'
<1> SUFFICES ASSUME Inv, PowerFail PROVE Inv'
  OBVIOUS
<1> USE DEF PowerFail, Restart
<1>1. PICK r \in Blocks, w \in Blocks : page = EncodeIndexes(r, w)
  BY DEF Inv
<1>2. /\ DecodeIndexes(page) = <<r, w>> /\ page' = page
      /\ read_index' = r /\ write_index' = w /\ Occupied' = Ring(r, w)
  BY <1>1, DecodeEncode DEF Occupied
<1>3. TypeOK'
  <2>1. r \in Words /\ w \in Words /\ 0 \in Words
    BY SizesAssumption, LastBlockType DEF Blocks, Words
  <2>2. quiet' \in BOOLEAN /\ accepted' \subseteq 1 .. puts' /\ durable' \subseteq accepted'
    BY Zenon DEF Inv, TypeOK
  <2> QED
    BY <1>2, <2>1, <2>2, SizesAssumption DEF Inv, TypeOK, NoRecord
<1>4. DurableKept'
  BY <1>2 DEF Inv, DurableKept, Stored
<1>5. NothingLost'
  BY <1>2, <1>4 DEF NothingLost, DurableKept, Stored
<1>6. DiskInv'
  <2>1. \A b \in Blocks \ Ring(r, w) : disk[b] \in durable => disk[b] \in server \cup failed
    <3> SUFFICES ASSUME NEW b \in Blocks \ Ring(r, w), disk[b] \in durable,
                        disk[b] \notin server \cup failed
                 PROVE  FALSE
      OBVIOUS
    <3>1. PICK c \in Ring(r, w) \cap Blocks : disk[b] = disk[c]
      <4>1. disk[b] \in Stored(Ring(r, w))
        BY <1>2 DEF Inv, DurableKept
      <4> QED
        BY <4>1 DEF Stored
    <3>2. disk[b] # NoRecord
      BY DEF Inv, TypeOK, NoRecord
    <3> QED
      BY <3>1, <3>2 DEF Inv, DiskInv
  <2> QED
    BY <1>2, <2>1 DEF Inv, DiskInv
<1> QED
  BY <1>1, <1>2, <1>3, <1>4, <1>5, <1>6 DEF Inv

\* Every step preserves it.
LEMMA NextInv == Inv /\ [Next]_vars => Inv'
<1> SUFFICES ASSUME Inv, [Next]_vars PROVE Inv'
  OBVIOUS
<1>1. Outcomes \subseteq BOOLEAN
  BY Zenon DEF Outcomes
<1>2. CASE \E pok \in Outcomes : PutSample(pok)
  BY <1>1, <1>2, PutSampleInv
<1>3. CASE \E rok \in Outcomes : SendRecord(rok)
  BY <1>1, <1>3, SendRecordInv
<1>4. CASE \E pok \in Outcomes : GoodUploadDone(pok)
  BY <1>1, <1>4, GoodUploadDoneInv
<1>5. CASE UNCHANGED vars
  <2>1. TypeOK' /\ (session = "sending" => SendingInv)' /\ (session = "answering" => AnsweringInv)'
    BY <1>5 DEF Inv, TypeOK, SendingInv, AnsweringInv, vars
  <2> QED
    BY <1>5, <2>1, LinkStep DEF vars
<1> QED
  BY <1>2, <1>3, <1>4, <1>5, QuietenInv, StartUploadInv, ServerStoresInv, UploadEndInv,
     PowerFailInv DEF Next

-----------------------------------------------------------------------------
(* The theorems *)

\* The state of memory.c is well-typed, its indexes stay on blocks of the ring
\* and what each block holds is accounted for, on any card in use.
THEOREM Invariance == Spec => []Inv
BY InitInv, NextInv, PTL DEF Spec

\* Whatever interleaving of put_sample, good_upload_done, card errors and power
\* failures, no record put_sample accepted is lost before it is in the database,
\* except one the card itself failed on or a power failure rolled back.
THEOREM NoRecordLost == Spec => []NothingLost
<1>1. Inv => NothingLost
  BY DEF Inv
<1> QED
  BY <1>1, Invariance, PTL

\* At every moment the saved index page still leads to every record accepted
\* before it was written.
THEOREM SavedIndexesSuffice == Spec => []DurableKept
<1>1. Inv => DurableKept
  BY DEF Inv
<1> QED
  BY <1>1, Invariance, PTL

\* put_sample never overwrites a block that has not been uploaded, on a card
\* whose indexes are blocks of the ring.
THEOREM NoUnreadOverwrite == Spec => UnreadBlocksKept
<1>1. Inv /\ [Next]_vars => [\A b \in Occupied \cap Blocks : disk'[b] = disk[b]]_vars
  <2> SUFFICES ASSUME Inv, Next, NEW b \in Occupied \cap Blocks PROVE disk'[b] = disk[b]
    BY DEF UnreadBlocksKept
  <2>1. ASSUME NEW pok, PutSample(pok) PROVE disk'[b] = disk[b]
    <3>1. CASE RoomFor(NextBlock(write_index))
      <4>1. NextBlock(write_index) \notin Occupied
        BY <3>1, PutGrowsRing, SMTT(30) DEF Inv, Occupied, RoomFor
      <4> QED
        BY <2>1, <3>1, <4>1 DEF PutSample, Inv, TypeOK
    <3>2. CASE ~RoomFor(NextBlock(write_index))
      BY <2>1, <3>2, Zenon DEF PutSample
    <3> QED
      BY <3>1, <3>2
  <2>2. CASE ~\E pok \in Outcomes : PutSample(pok)
    BY <2>2 DEF Next, Quieten, StartUpload, SendRecord, ServerStores, GoodUploadDone, UploadEnd,
                PowerFail, Restart, store
  <2> QED
    BY <2>1, <2>2
<1> QED
  BY <1>1, Invariance, PTL DEF Spec, UnreadBlocksKept

\* good_upload_done moves the read index off exactly one block, so it never
\* overtakes the write index.
THEOREM AckFreesOne == Spec => AckFreesOneBlock
<1>1. Inv /\ [Next]_vars =>
        [\A pok \in Outcomes : GoodUploadDone(pok) => Occupied' = Occupied \ {read_index}]_vars
  <2> SUFFICES ASSUME Inv, NEW pok \in Outcomes, GoodUploadDone(pok)
               PROVE  Occupied' = Occupied \ {read_index}
    OBVIOUS
  <2>1. /\ read_index \in Blocks /\ write_index \in Blocks /\ read_index < LastBlock
        /\ read_index <= write_index => read_index < write_index
    BY AckedBelowWrite DEF GoodUploadDone
  <2> QED
    BY <2>1, AckShrinksRing DEF Occupied, GoodUploadDone
<1> QED
  BY <1>1, Invariance, PTL DEF Spec, AckFreesOneBlock
\* The indexes stay uint32_t values and an upload stays within the batch that
\* get_blocks_to_read allowed it.
THEOREM TypesKept == Spec => []TypeOK
<1>1. Inv => TypeOK
  BY DEF Inv
<1> QED
  BY <1>1, Invariance, PTL

-----------------------------------------------------------------------------
(* Memory implements RecordStore *)

\* Only records that have been offered are in a request, in the database or
\* have failed.
Offered == body \cup server \cup failed \subseteq 1 .. puts

\* get_sample reads a block that put_sample has written, if it holds a record.
LEMMA SentIsOffered ==
    ASSUME Inv, Offered, NEW rok \in BOOLEAN, SendRecord(rok)
    PROVE  body' \cup failed' \subseteq 1 .. puts
<1>1. mem_output_index \in Blocks
  BY LastBlockType, SMTT(30) DEF Inv, SendRecord, SendingInv, TypeOK, Blocks
<1>2. DiskRead(mem_output_index) = disk[mem_output_index]
  BY <1>1, SizesAssumption, LastBlockType DEF DiskRead, Blocks
<1>3. disk[mem_output_index] \in 0 .. puts
  BY <1>1 DEF Inv, DiskInv, TypeOK, Records, NoRecord
<1> QED
  BY <1>2, <1>3 DEF SendRecord, Offered, NoRecord

\* Every step keeps it so.
LEMMA NextOffered == Inv /\ Offered /\ [Next]_vars => Offered'
<1> SUFFICES ASSUME Inv, Offered, [Next]_vars PROVE Offered'
  OBVIOUS
<1> USE DEF Offered
<1>1. ASSUME NEW pok \in Outcomes, PutSample(pok) PROVE Offered'
  <2>1. puts \in Nat /\ puts' = puts + 1 /\ body' = body /\ server' = server
    BY <1>1, SMTT(30) DEF PutSample, link, Inv, TypeOK
  <2>2. failed' \subseteq failed \cup {puts + 1}
    BY <1>1 DEF PutSample
  <2> QED
    BY <2>1, <2>2
<1>2. ASSUME NEW rok \in Outcomes, SendRecord(rok) PROVE Offered'
  <2>1. rok \in BOOLEAN
    BY Zenon DEF Outcomes
  <2> QED
    BY <1>2, <2>1, SentIsOffered, Zenon DEF SendRecord
<1>3. ASSUME NEW pok \in Outcomes, GoodUploadDone(pok) PROVE Offered'
  BY <1>3, SMTT(30) DEF GoodUploadDone
<1>4. CASE Quieten \/ StartUpload \/ ServerStores \/ UploadEnd \/ PowerFail
  BY <1>4 DEF Quieten, StartUpload, ServerStores, UploadEnd, PowerFail, Restart, link, ghosts
<1>5. CASE UNCHANGED vars
  BY <1>5 DEF vars
<1> QED
  BY <1>1, <1>2, <1>3, <1>4, <1>5 DEF Next

\* What the store offers for upload are records that have been put into it.
Pending == Stored(Occupied) \ {NoRecord}

PendingArePut == Pending \subseteq 1 .. puts

\* They are, whenever the invariant holds.
LEMMA PendingPut == Inv => PendingArePut
<1> SUFFICES ASSUME Inv, NEW b \in Occupied \cap Blocks, disk[b] # NoRecord
             PROVE  disk[b] \in 1 .. puts
  BY DEF PendingArePut, Pending, Stored
<1>1. disk[b] \in Records \cup {NoRecord} /\ disk[b] <= puts
  BY DEF Inv, TypeOK, DiskInv
<1> QED
  BY <1>1 DEF Records, NoRecord

\* put_sample accepts the record, or refuses it at a full ring.
LEMMA PutImplements ==
    ASSUME Inv, Inv', NEW pok, PutSample(pok)
    PROVE  Store!Accept \/ Store!Refuse
<1> DEFINE next == NextBlock(write_index)
           rec  == puts + 1
<1>1. /\ TypeOK /\ read_index \in Blocks /\ write_index \in Blocks /\ next \in Blocks
      /\ puts \in Nat /\ puts' = rec /\ read_index' = read_index /\ server' = server
  <2>1. TypeOK /\ read_index \in Blocks /\ write_index \in Blocks
    BY DEF Inv
  <2>2. next \in Blocks
    BY <2>1, NextBlockInRing
  <2>3. puts \in Nat
    BY <2>1, SMTT(30) DEF TypeOK
  <2>4. puts' = rec /\ read_index' = read_index /\ server' = server
    BY DEF PutSample, link
  <2> QED
    BY <2>1, <2>2, <2>3, <2>4
<1>2. CASE next = read_index
  <2>1. UNCHANGED <<disk, write_index, accepted, failed, durable>>
    BY <1>2 DEF PutSample, RoomFor
  <2>2. Pending' = Pending
    BY <1>1, <2>1 DEF Pending, Stored, Occupied
  <2> QED
    BY <1>1, <2>1, <2>2 DEF Store!Refuse, Pending
<1>3. CASE next # read_index
  <2>1. PICK got :
            /\ disk' = [disk EXCEPT ![next] = got]
            /\ failed' = IF got = rec THEN failed ELSE failed \cup {rec}
    BY <1>3 DEF PutSample, RoomFor
  <2>2. /\ write_index' = next /\ accepted' = accepted \cup {rec}
        /\ durable' \in {durable, accepted'}
    BY <1>3 DEF PutSample, RoomFor, SaveIndexes
  <2>3. next \notin Occupied /\ Occupied' = Occupied \cup {next}
    BY <1>1, <1>3, <2>2, PutGrowsRing DEF Occupied
  <2>4. disk'[next] = got /\ \A b \in Blocks \ {next} : disk'[b] = disk[b]
    BY <1>1, <2>1 DEF TypeOK
  <2>5. Pending \subseteq Pending' /\ (got = rec => rec \in Pending')
    BY <1>1, <2>3, <2>4 DEF Pending, Stored, NoRecord
  <2>6. Pending' \subseteq 1 .. puts'
    <3>1. PendingArePut'
      BY PendingPut, PTL
    <3> QED
      BY <3>1 DEF PendingArePut
  <2>7. /\ failed' \in {failed, failed \cup {rec}} /\ rec \in Pending' \cup failed'
    BY <2>1, <2>5
  <2> QED
    BY <1>1, <2>2, <2>5, <2>6, <2>7, SMTT(30) DEF Store!Accept, Pending
<1> QED
  BY <1>2, <1>3

\* good_upload_done releases a record that is in the database or has failed.
LEMMA AckImplements == ASSUME Inv, NEW pok, GoodUploadDone(pok) PROVE Store!Release
<1> USE DEF GoodUploadDone
<1>1. /\ AnsweringInv /\ TypeOK /\ read_index \in Blocks /\ write_index \in Blocks
      /\ read_index < LastBlock
      /\ read_index <= write_index => read_index < write_index
  BY AckedBelowWrite
<1>2. Occupied' = Occupied \ {read_index}
  BY <1>1, AckShrinksRing DEF Occupied
<1>3. disk[read_index] \in server \cup failed \cup {NoRecord}
  BY <1>1, LastBlockType, SMTT(30) DEF AnsweringInv, TypeOK, Blocks
<1>4. Pending' \subseteq Pending /\ Pending \ Pending' \subseteq {disk[read_index]} \ {NoRecord}
  BY <1>2, Zenon DEF Pending, Stored
<1>5. durable' \in {durable, accepted}
  BY DEF SaveIndexes
<1> QED
  BY <1>3, <1>4, <1>5 DEF Store!Release, Pending

\* memory_init after a power failure goes on from what was saved.
LEMMA CrashImplements == ASSUME Inv, Inv', PowerFail PROVE Store!Crash
<1> USE DEF PowerFail, Restart
<1>1. Occupied' = Ring(DecodeIndexes(page)[1], DecodeIndexes(page)[2])
  BY SMTT(30) DEF Occupied
<1>2. durable \subseteq server \cup failed \cup Pending'
  <2>1. NoRecord \notin durable
    BY SMTT(30) DEF Inv, TypeOK, NoRecord
  <2> QED
    BY <1>1, <2>1, Zenon DEF Inv, DurableKept, Pending, Stored
<1>3. Pending' \subseteq 1 .. puts'
  <2>1. PendingArePut'
    BY PendingPut, PTL
  <2> QED
    BY <2>1 DEF PendingArePut
<1> QED
  BY <1>2, <1>3 DEF Store!Crash, Pending

\* Every step of the store is one RecordStore allows, or is not visible in it.
LEMMA NextImplements ==
    Inv /\ Inv' /\ Offered /\ Offered' /\ [Next]_vars => [Store!NextStore]_(Store!varsStore)
<1> SUFFICES ASSUME Inv, Inv', Offered, Offered', [Next]_vars
             PROVE  Store!NextStore \/ UNCHANGED Store!varsStore
  OBVIOUS
<1>1. ASSUME NEW pok \in Outcomes, PutSample(pok) PROVE Store!NextStore
  BY <1>1, PutImplements DEF Store!NextStore
<1>2. ASSUME NEW rok \in Outcomes, SendRecord(rok) PROVE Store!Unreadable
  <2>1. Pending' = Pending
    BY <1>2, Zenon DEF SendRecord, Pending, Stored, Occupied
  <2>2. failed' \subseteq 1 .. puts /\ failed \subseteq failed'
    BY <1>2 DEF SendRecord, Offered
  <2> QED
    BY <1>2, <2>1, <2>2, SMTT(30) DEF SendRecord, Store!Unreadable, Pending
<1>3. ASSUME NEW pok \in Outcomes, GoodUploadDone(pok) PROVE Store!Release
  BY <1>3, AckImplements
<1>4. CASE ServerStores
  <2>1. Pending' = Pending
    <3>1. UNCHANGED <<disk, read_index, write_index>>
      BY <1>4 DEF ServerStores, store
    <3> QED BY <3>1 DEF Pending, Stored, Occupied
  <2> QED
    BY <1>4, <2>1, SMTT(30) DEF ServerStores, ghosts, Offered, Store!NextStore, Store!UploadStore, Pending
<1>5. CASE Quieten \/ StartUpload \/ UploadEnd \/ UNCHANGED vars
  BY <1>5 DEF Quieten, StartUpload, UploadEnd, store, link, ghosts, vars, Store!varsStore, Stored,
              Occupied
<1>6. CASE PowerFail
  BY <1>6, CrashImplements DEF Store!NextStore
<1> QED
  BY <1>1, <1>2, <1>3, <1>4, <1>5, <1>6 DEF Next, Store!NextStore

\* put_sample, good_upload_done and memory_init keep the promise of a record
\* store on any card in use: a record leaves the ring only once the database
\* has it, and a power failure takes back only what was not saved.
THEOREM StoreImplemented == Spec => ImplementsStore
<1>1. InitUsed => Store!InitStore
  BY DEF InitUsed, InitRest, Store!InitStore, Stored
<1>2. InitUsed => Offered
  BY DEF InitUsed, InitRest, InitRam, Offered
<1> QED
  BY <1>1, <1>2, NextOffered, NextImplements, Invariance, PTL DEF Spec, ImplementsStore, Store!SpecStore

-----------------------------------------------------------------------------
(* Torn index pages *)

\* Offsets are undone by nothing but themselves.
LEMMA AddWInjective ==
    ASSUME NEW x \in Words, NEW y \in Words, AddW(x, 6) = AddW(y, 6)
    PROVE  x = y
BY SizesAssumption DEF AddW, Words

\* A sound page of which the first k words have been replaced by those of
\* another decodes to one of the two or is not sound.
LEMMA MixtureDetected ==
    ASSUME NEW old \in [0 .. 7 -> Words], PageValid(old), NEW r \in Words, NEW w \in Words, NEW k \in 1 .. 7, NEW mix,
           mix = [i \in 0 .. 7 |-> IF i < k THEN EncodeIndexes(r, w)[i] ELSE old[i]]
    PROVE  DecodeIndexes(mix) \in {DecodeIndexes(old), <<Invalid, Invalid>>, <<r, w>>}
<1>1. CASE ~PageValid(mix)
  BY <1>1 DEF DecodeIndexes
<1>2. CASE PageValid(mix)
  <2>1. DecodeIndexes(mix) = <<mix[0], mix[1]>> /\ DecodeIndexes(old) = <<old[0], old[1]>>
    BY <1>2 DEF DecodeIndexes
  <2>2. EncodeIndexes(r, w)[0] = r /\ EncodeIndexes(r, w)[1] = w
    BY SizesAssumption DEF EncodeIndexes, AddW, Words
  <2>3. mix[0] = r /\ mix[1] \in Words /\ (k = 7 => mix[1] = w)
    BY <2>2
  <2>4. CASE k = 7
    BY <2>1, <2>3, <2>4
  <2>5. CASE k < 7
    <3>1. mix[6] = old[6] /\ mix[7] = old[7]
      BY <2>5
    <3>2. mix[6] = AddW(mix[0], 6) /\ mix[7] = AddW(mix[1], 6) /\ old[6] = AddW(old[0], 6) /\ old[7] = AddW(old[1], 6)
      BY <1>2 DEF PageValid
    <3>3. old[0] \in Words /\ old[1] \in Words
      OBVIOUS
    <3>4. mix[0] = old[0] /\ mix[1] = old[1]
      <4>1. AddW(mix[0], 6) = AddW(old[0], 6) /\ AddW(mix[1], 6) = AddW(old[1], 6)
        BY <3>1, <3>2, Zenon
      <4>2. mix[0] \in Words /\ mix[1] \in Words
        BY <2>3
      <4> QED BY <3>3, <4>1, <4>2, AddWInjective
    <3> QED BY <2>1, <3>4
  <2> QED BY <2>4, <2>5
<1> QED BY <1>1, <1>2

\* The index page and the indexes are words, on every card.
WordsInv == page \in [0 .. 7 -> Words] /\ read_index \in Words /\ write_index \in Words

\* A page decodes to words.
LEMMA DecodeType == ASSUME NEW p \in [0 .. 7 -> Words] PROVE DecodeIndexes(p)[1] \in Words /\ DecodeIndexes(p)[2] \in Words
BY SizesAssumption DEF DecodeIndexes, Invalid, Words

\* So does next_block step to one.
LEMMA NextBlockWord == ASSUME NEW b \in Words PROVE NextBlock(b) \in Words
BY SizesAssumption DEF NextBlock, AddW, Words

\* Zeros, what a card that was never written holds, are such a page.
LEMMA ZerosAreWords == [i \in 0 .. 7 |-> 0] \in [0 .. 7 -> Words]
BY SizesAssumption DEF Words

\* Cards in use, reset or never written start with words.
LEMMA InitWords == InitUsed \/ InitReset \/ InitBlank => WordsInv
<1> SUFFICES ASSUME InitUsed \/ InitReset \/ InitBlank PROVE WordsInv
  OBVIOUS
<1>1. page \in [0 .. 7 -> Words]
  <2>1. Blocks \subseteq Words /\ 0 \in Words
    BY SizesAssumption, LastBlockType, SMTT(30) DEF Blocks, Words
  <2> QED BY <2>1, DecodeEncodeWords, ZerosAreWords DEF InitUsed, InitReset, InitBlank
<1>2. read_index = DecodeIndexes(page)[1] /\ write_index = DecodeIndexes(page)[2]
  BY DEF InitUsed, InitReset, InitBlank, InitRest, InitRam
<1> QED BY <1>1, <1>2, DecodeType DEF WordsInv

\* The pages put_sample and good_upload_done write when nothing tears them
LEMMA SavedPage ==
    ASSUME WordsInv, NEW pok \in BOOLEAN, PutSample(pok) \/ GoodUploadDone(pok)
    PROVE  /\ WordsInv'
           /\ \/ page' = page
              \/ DecodeIndexes(page') \in {<<read_index, NextBlock(write_index)>>, <<NextBlock(read_index), write_index>>}
<1>1. NextBlock(read_index) \in Words /\ NextBlock(write_index) \in Words
  BY NextBlockWord DEF WordsInv
<1>2. CASE PutSample(pok)
  <2>1. /\ read_index' = read_index /\ write_index' \in {write_index, NextBlock(write_index)}
        /\ page' = page \/ page' = EncodeIndexes(read_index, NextBlock(write_index))
    BY <1>2, Zenon DEF PutSample, SaveIndexes
  <2> QED BY <1>1, <2>1, DecodeEncodeWords, SMTT(30) DEF WordsInv
<1>3. CASE GoodUploadDone(pok)
  <2>1. /\ read_index' = NextBlock(read_index) /\ write_index' = write_index
        /\ page' = page \/ page' = EncodeIndexes(NextBlock(read_index), write_index)
    BY <1>3 DEF GoodUploadDone, SaveIndexes
  <2> QED BY <1>1, <2>1, DecodeEncodeWords DEF WordsInv
<1> QED BY <1>2, <1>3

\* The pages a power failure in them leaves
LEMMA TornPage ==
    ASSUME WordsInv, NEW r \in Words, NEW w \in Words, NEW k \in 1 .. 7, TornSave(r, w, k)
    PROVE  /\ WordsInv'
           /\ PageValid(page) => DecodeIndexes(page') \in {DecodeIndexes(page), <<Invalid, Invalid>>, <<r, w>>}
<1>1. PICK old, mix : old = page /\ mix = page'
  OBVIOUS
<1>2. /\ mix = [i \in 0 .. 7 |-> IF i < k THEN EncodeIndexes(r, w)[i] ELSE old[i]] /\ old \in [0 .. 7 -> Words]
      /\ read_index' = DecodeIndexes(mix)[1] /\ write_index' = DecodeIndexes(mix)[2]
  BY <1>1 DEF WordsInv, TornSave, Restart
<1>3. mix \in [0 .. 7 -> Words]
  <2>1. EncodeIndexes(r, w) \in [0 .. 7 -> Words]
    BY DecodeEncodeWords, SMTT(30)
  <2> QED BY <1>2, <2>1
<1>4. WordsInv'
  BY <1>1, <1>2, <1>3, DecodeType DEF WordsInv
<1>5. PageValid(old) => DecodeIndexes(mix) \in {DecodeIndexes(old), <<Invalid, Invalid>>, <<r, w>>}
  BY <1>2, MixtureDetected, SMTT(30)
<1> QED BY <1>1, <1>4, <1>5

\* What a step may do to the index page
LEMMA PageStep ==
    ASSUME WordsInv, [NextTorn]_vars
    PROVE  /\ WordsInv'
           /\ [PageValid(page) => DecodeIndexes(page') \in
                {DecodeIndexes(page), <<Invalid, Invalid>>,
                 <<read_index, NextBlock(write_index)>>, <<NextBlock(read_index), write_index>>}]_page
<1>1. NextBlock(read_index) \in Words /\ NextBlock(write_index) \in Words /\ read_index \in Words /\ write_index \in Words
  BY NextBlockWord DEF WordsInv
<1>2. Outcomes \subseteq BOOLEAN
  BY DEF Outcomes
<1>3. CASE \E pok \in Outcomes : PutSample(pok) \/ GoodUploadDone(pok)
  BY <1>2, <1>3, SavedPage
<1>4. CASE \E k \in 1 .. 7 : PowerFailInPut(k)
  <2>1. PICK k \in 1 .. 7 : TornSave(read_index, NextBlock(write_index), k)
    BY <1>4 DEF PowerFailInPut
  <2> QED BY <1>1, <2>1, TornPage
<1>5. CASE \E k \in 1 .. 7 : PowerFailInAck(k)
  <2>1. PICK k \in 1 .. 7 : TornSave(NextBlock(read_index), write_index, k)
    BY <1>5, SMTT(30) DEF PowerFailInAck
  <2> QED BY <1>1, <2>1, TornPage
<1>6. CASE PowerFail
  <2>1. PICK p : p = page
    OBVIOUS
  <2>2. page' = p /\ read_index' = DecodeIndexes(p)[1] /\ write_index' = DecodeIndexes(p)[2] /\ p \in [0 .. 7 -> Words]
    BY <1>6, <2>1 DEF PowerFail, Restart, WordsInv
  <2> QED BY <2>1, <2>2, DecodeType DEF WordsInv
<1>7. CASE PowerFailNoCard
  BY <1>7, DecodeType, ZerosAreWords DEF PowerFailNoCard, Restart, WordsInv
<1>8. CASE Quieten \/ StartUpload \/ (\E rok \in Outcomes : SendRecord(rok)) \/ ServerStores \/ UploadEnd
  <2>1. UNCHANGED <<page, read_index, write_index>>
    BY <1>8 DEF Quieten, StartUpload, SendRecord, ServerStores, UploadEnd, store
  <2> QED BY <2>1, SMTT(30) DEF WordsInv
<1>9. CASE UNCHANGED vars
  BY <1>9 DEF vars, WordsInv
<1> QED BY <1>3, <1>4, <1>5, <1>6, <1>7, <1>8, <1>9 DEF NextTorn, Next

\* TornPageDetected, on cards in use, reset or never written, of any size: however
\* the power fails while put_memory_indexes replaces a sound page, memory_init reads
\* back the old indexes, the new ones or 0xFFFFFFFF.
THEOREM TornPagesAreDetected == SpecTorn => TornPageDetected
BY InitWords, PageStep, PTL DEF SpecTorn, TornPageDetected
=============================================================================
