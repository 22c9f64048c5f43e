------------------------------ MODULE EtherLink ------------------------------
(***************************************************************************)
(* What the receiving half of the Ethernet driver promises the stack: the  *)
(* frames that arrived whole come up once each and in order, as long as    *)
(* they are fewer than Capacity; a receiver overrun may lose all that      *)
(* wait.                                                                   *)
(***************************************************************************)
EXTENDS Naturals, Sequences

CONSTANTS Frame, Capacity

VARIABLES
    waiting,   \* frames received and not yet taken, each whole or damaged
    taken         \* the frames of the last delivery: none or one

Init == waiting = <<>> /\ taken = <<>>

Arrive ==
    /\ Len(waiting) < Capacity
    /\ \E f \in Frame, whole \in BOOLEAN :
         waiting' = Append(waiting, [frame |-> f, whole |-> whole])
    /\ UNCHANGED taken

Deliver ==
    /\ waiting # <<>>
    /\ waiting' = Tail(waiting)
    /\ taken' = IF Head(waiting).whole THEN <<Head(waiting).frame>> ELSE <<>>

Overrun == waiting' = <<>> /\ taken' = <<>>

Next == Arrive \/ Deliver \/ Overrun

Spec == Init /\ [][Next]_<<waiting, taken>>
=============================================================================
