------------------------------- MODULE TcpSeq -------------------------------
(***************************************************************************)
(* Arithmetic on TCP sequence numbers, which wrap round at SeqSpace (2^32  *)
(* in the code, where they are u32_t and compared by the sign of their     *)
(* difference).                                                            *)
(***************************************************************************)
EXTENDS Integers

CONSTANT SeqSpace     \* number of sequence numbers

ASSUME SeqSpaceAssumption == SeqSpace \in Nat \ {0} /\ SeqSpace % 2 = 0

Sub(a, b) == (a - b) % SeqSpace
Add(a, n) == (a + n) % SeqSpace
SEQ_LT(a, b) == Sub(a, b) >= SeqSpace \div 2
SEQ_LEQ(a, b) == a = b \/ SEQ_LT(a, b)
SEQ_BETWEEN(a, b, c) == SEQ_LEQ(b, a) /\ SEQ_LEQ(a, c)

TCPLEN(seg) == seg.len + (IF seg.fin THEN 1 ELSE 0)
End(seg) == Add(seg.seq, TCPLEN(seg))
=============================================================================
