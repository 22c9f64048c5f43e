------------------------------- MODULE Base64 -------------------------------
(***************************************************************************)
(* src/base64.c: the encoding of the credentials http_header sends.        *)
(***************************************************************************)
EXTENDS Integers, Sequences, SequencesExt

CONSTANTS
    Octets,     \* the octets credentials are made of
    MaxOctets   \* bound: their length

VARIABLES
    auth,       \* the credentials
    encoded     \* what base64_encode made of them; 64 stands for '='

varsBase64 == <<auth, encoded>>

Quad(a, b, c) == <<a \div 4, (a % 4) * 16 + b \div 16, (b % 16) * 4 + c \div 64, c % 64>>

base64_encode(input) ==
    LET At(n) == IF n <= Len(input) THEN input[n] ELSE 0
        full  == Len(input) \div 3
        i     == Len(input) % 3
        quads == FlattenSeq([n \in 1 .. full |-> Quad(At(3 * n - 2), At(3 * n - 1), At(3 * n))])
        last  == Quad(At(3 * full + 1), At(3 * full + 2), 0)
    IN  quads \o (IF i = 0 THEN <<>> ELSE SubSeq(last, 1, i + 1) \o [n \in 1 .. 3 - i |-> 64])

InitBase64 == auth = <<>> /\ encoded = <<>>

Encode == \E a \in BoundedSeq(Octets, MaxOctets) : auth' = a /\ encoded' = base64_encode(a)

SpecBase64 == InitBase64 /\ [][Encode]_varsBase64

\* base64_encode keeps the bits of the credentials in order, in sixes, and
\* fills the last group of four with zero bits and '='.
Base64Keeps ==
    LET bits == 8 * Len(auth)
        InBit(n)  == (auth[n \div 8 + 1] \div 2^(7 - (n % 8))) % 2
        OutBit(n) == (encoded[n \div 6 + 1] \div 2^(5 - (n % 6))) % 2
        signs == (bits + 5) \div 6
    IN  /\ Len(encoded) = 4 * ((Len(auth) + 2) \div 3)
        /\ \A n \in 0 .. bits - 1 : OutBit(n) = InBit(n)
        /\ \A n \in bits .. 6 * signs - 1 : OutBit(n) = 0
        /\ \A k \in 1 .. Len(encoded) : encoded[k] = 64 <=> k > signs
=============================================================================
