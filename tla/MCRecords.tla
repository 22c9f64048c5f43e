------------------------------ MODULE MCRecords ------------------------------
(***************************************************************************)
(* The way of a record into the gateway for TLC: the rings and interrupts  *)
(* of Radif ("rings"), the octets of a frame ("frame") and the record      *)
(* store on a card in use ("store").  A behaviour is one of a single part, *)
(* chosen at the start; they share no state.                               *)
(***************************************************************************)
EXTENDS Memory, Radif, RadioFrame

VARIABLE part

MCInit ==
    /\ part \in {"rings", "frame", "store"}
    /\ InitRadif /\ InitFrame /\ InitUsed
    /\ part # "frame" => seq = 0
    /\ part # "store" => page = EncodeIndexes(1, 1)

MCNext ==
    \/ part = "rings" /\ NextRadif /\ UNCHANGED <<part, vars, varsFrame>>
    \/ part = "frame" /\ NextFrame /\ UNCHANGED <<part, vars, varsRadif>>
    \/ part = "store" /\ Next /\ UNCHANGED <<part, varsRadif, varsFrame>>

MCSpec == MCInit /\ [][MCNext]_<<part, vars, varsRadif, varsFrame>>
=============================================================================
