------------------------------ MODULE Gateway ------------------------------
(***************************************************************************)
(* A record on its way from a sensor to the database: the sensor's frame   *)
(* in the receive ring of the radio, the callback that acknowledges it and *)
(* puts it in the store (frame_processor.c), the acknowledgement in the    *)
(* transmit ring, and the upload.  The rings are those of FrameQueue and   *)
(* the store is that of RecordStore, which Radif and Memory implement.     *)
(*                                                                         *)
(* The sensors are external: each keeps a record until it sees the         *)
(* acknowledgement, and sends it again when none comes.                    *)
(***************************************************************************)
EXTENDS RecordStore, Sequences, FiniteSets

CONSTANTS Readings,    \* the records of the sensors
          NoReading,
          RxCapacity,  \* frames the receive ring holds
          TxCapacity,  \* frames the transmit ring holds
          Mishaps,     \* the kinds of things that may go wrong
          MaxMishaps   \* how often they may

ASSUME GatewayAssumption ==
  /\ NoReading \notin Readings /\ {RxCapacity, TxCapacity} \subseteq Nat \ {0}
  /\ Mishaps \subseteq {"lost", "damaged", "early", "full", "card", "power"}
  /\ MaxMishaps \in Nat

VARIABLES held,        \* the records the sensors have not discarded
          rx,          \* frames received and not yet given up
          tx,          \* acknowledgements to transmit
          callback,    \* the record block_uploaded has acknowledged and not yet stored
          origin,      \* ghost: the record each arrival at the store was
          undone,      \* ghost: records the store refused or a power failure rolled back
          mishaps

varsGateway == <<varsStore, held, rx, tx, callback, origin, undone, mishaps>>

InitGateway ==
  /\ InitStore /\ held = Readings /\ rx = <<>> /\ tx = <<>>
  /\ callback = NoReading /\ origin = <<>> /\ undone = {} /\ mishaps = 0

Mishap(kind) == kind \in Mishaps /\ mishaps < MaxMishaps /\ mishaps' = mishaps + 1

\* A frame or an acknowledgement of the record is on its way.
Underway(r) == \/ \E i \in 1..Len(rx) : rx[i].record = r
               \/ \E i \in 1..Len(tx) : tx[i] = r

\* A frame that finds the ring full is dropped, which changes nothing here.
SensorSends ==
  \E r \in held, sound \in BOOLEAN :
    /\ Len(rx) < RxCapacity
    /\ rx' = Append(rx, [record |-> r, sound |-> sound])
    /\ IF ~sound THEN ~Underway(r) /\ Mishap("damaged")
       ELSE IF Underway(r) THEN Mishap("early")
       ELSE UNCHANGED mishaps
    /\ UNCHANGED <<varsStore, held, tx, callback, origin, undone>>

\* Mutant: the checksum is not looked at.
block_uploaded_unchecked ==
  /\ rx # <<>> /\ callback = NoReading /\ Len(tx) < TxCapacity
  /\ tx' = Append(tx, Head(rx).record)
  /\ IF Head(rx).sound THEN callback' = Head(rx).record /\ UNCHANGED rx
     ELSE rx' = Tail(rx) /\ UNCHANGED callback
  /\ UNCHANGED <<varsStore, held, origin, undone, mishaps>>

\* Mutant: a damaged frame is not given up.
block_uploaded_stuck ==
  /\ rx # <<>> /\ callback = NoReading
  /\ Head(rx).sound /\ Len(tx) < TxCapacity
  /\ tx' = Append(tx, Head(rx).record) /\ callback' = Head(rx).record
  /\ UNCHANGED <<varsStore, held, rx, origin, undone, mishaps>>

\* The callback of radif_service, up to put_sample.  radif_send waits for room.
block_uploaded ==
  /\ rx # <<>> /\ callback = NoReading
  /\ IF Head(rx).sound
       THEN /\ Len(tx) < TxCapacity /\ tx' = Append(tx, Head(rx).record)
            /\ callback' = Head(rx).record /\ UNCHANGED rx
       ELSE rx' = Tail(rx) /\ UNCHANGED <<tx, callback>>
  /\ UNCHANGED <<varsStore, held, origin, undone, mishaps>>

\* put_sample, whose result is ignored; then the frame is given up.
StoreRecord ==
  /\ callback # NoReading
  /\ \/ /\ Accept /\ pending' \subseteq pending \cup {puts'}
        /\ IF failed' # failed \/ puts' \notin pending' THEN Mishap("card")
           ELSE UNCHANGED mishaps
        /\ UNCHANGED undone
     \/ Refuse /\ Mishap("full") /\ undone' = undone \cup {callback}
  /\ origin' = Append(origin, callback) /\ callback' = NoReading
  /\ rx' = Tail(rx)
  /\ UNCHANGED <<held, tx>>

\* The radio's interrupt transmits, and the sensor discards the record.
Acknowledge ==
  /\ tx # <<>> /\ tx' = Tail(tx)
  /\ \/ held' = held \ {Head(tx)} /\ UNCHANGED mishaps
     \/ Mishap("lost") /\ UNCHANGED held
  /\ UNCHANGED <<varsStore, rx, callback, origin, undone>>

UploadAll ==
  /\ pending \ server # {} /\ server' = server \cup pending
  /\ UNCHANGED <<puts, accepted, durable, pending, failed, held, rx, tx, callback, origin, undone, mishaps>>

ReleaseSome ==
  /\ pending # {} /\ Release /\ pending' # pending
  /\ UNCHANGED <<held, rx, tx, callback, origin, undone, mishaps>>

PowerFailure ==
  /\ Mishap("power") /\ Crash
  /\ rx' = <<>> /\ tx' = <<>> /\ callback' = NoReading
  /\ undone' = (undone \cup {callback} \cup {origin[a] : a \in accepted \ durable}) \ {NoReading}
  /\ UNCHANGED <<held, origin>>

NextGateway ==
  \/ SensorSends \/ block_uploaded \/ StoreRecord \/ Acknowledge
  \/ UploadAll \/ ReleaseSome \/ PowerFailure

SpecGateway == InitGateway /\ [][NextGateway]_varsGateway

-----------------------------------------------------------------------------
Arrivals(r) == {a \in 1..puts : origin[a] = r}

\* A record the sensor has discarded, because send_upload_ack was called for it,
\* is pending, in the database or about to be stored, unless the card failed on
\* it, put_sample refused it or a power failure rolled back its arrival: lost,
\* repeated and damaged frames make no difference.
DiscardedIsKept ==
  \A r \in Readings \ (held \cup undone) :
    r = callback \/ Arrivals(r) \cap (server \cup pending \cup failed) # {}

\* A record is discarded by its sensor and in the database, with the same
\* exceptions.
InDatabase(r) ==
  r \notin held /\ (r \in undone \/ Arrivals(r) \cap (server \cup failed) # {})
=============================================================================
