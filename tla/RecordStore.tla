---------------------------- MODULE RecordStore ----------------------------
(***************************************************************************)
(* What the record store promises the rest of the gateway: a record that   *)
(* was accepted is pending until the database has it.  Only a failure of   *)
(* the card, or a power failure before the store was last saved, undoes    *)
(* that; either may also bring back records that were pending before.      *)
(* Memory implements this specification.                                   *)
(***************************************************************************)
EXTENDS Integers

VARIABLES puts,        \* records offered, named by their arrival
          accepted,    \* those the running program has accepted
          durable,     \* those it had accepted when it last saved its indexes
          pending,     \* those the store will offer for upload
          server,      \* those the database has
          failed       \* those on which the card failed

varsStore == <<puts, accepted, durable, pending, server, failed>>

InitStore ==
  puts = 0 /\ accepted = {} /\ durable = {} /\ pending = {} /\ server = {} /\ failed = {}

Accept ==
  /\ puts' = puts + 1
  /\ accepted' = accepted \cup {puts'} /\ durable' \in {durable, accepted'}
  /\ failed' \in {failed, failed \cup {puts'}}
  /\ pending' \in SUBSET (1..puts') /\ pending \subseteq pending'
  /\ puts' \in pending' \cup failed'
  /\ UNCHANGED server

Refuse == puts' = puts + 1 /\ UNCHANGED <<accepted, durable, pending, server, failed>>

\* A record cannot be read back.
Unreadable ==
  /\ failed' \in SUBSET (1..puts) /\ failed \subseteq failed'
  /\ UNCHANGED <<puts, accepted, durable, pending, server>>

UploadStore ==
  /\ server' \in SUBSET (1..puts) /\ server \subseteq server'
  /\ UNCHANGED <<puts, accepted, durable, pending, failed>>

Release ==
  /\ pending' \in SUBSET pending /\ pending \ pending' \subseteq server \cup failed
  /\ durable' \in {durable, accepted}
  /\ UNCHANGED <<puts, accepted, server, failed>>

Crash ==
  /\ accepted' = durable
  /\ pending' \in SUBSET (1..puts) /\ durable \subseteq server \cup failed \cup pending'
  /\ UNCHANGED <<puts, durable, server, failed>>

NextStore == Accept \/ Refuse \/ Unreadable \/ UploadStore \/ Release \/ Crash

SpecStore == InitStore /\ [][NextStore]_varsStore
=============================================================================
