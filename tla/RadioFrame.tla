----------------------------- MODULE RadioFrame -----------------------------
(***************************************************************************)
(* The octets of a frame: src/radio/ieee_frame.c, with radio_frame_write   *)
(* and radio_frame_read of src/radio/radio_functions.c.                    *)
(*                                                                         *)
(* A station writes a frame into its transceiver; the transceiver of the   *)
(* other station gives back the octets on the air, the check sequence      *)
(* included.  Other stations may use other addressing modes.               *)
(***************************************************************************)
EXTENDS Integers, Sequences

CONSTANTS
    Words16,     \* PAN identifiers and short addresses
    Lengths,     \* lengths of the data of a frame
    Seqs         \* bound: sequence numbers frames are sent with

FCF_PAN_ID_COMPRESSION  == 64
FCF_ACKNOWLEDGE_REQUEST == 32
FRAME_TYPE_DATA         == 1
FRAME_VERSION_IEEE_2006 == 1
FRAME_NO_ADDRESS        == 0
FRAME_PAN_ID_16BIT_ADDR == 2
FRAME_PAN_ID_64BIT_ADDR == 3

\* The data of a frame of n octets; each octet tells its place.
Data(n) == [k \in 1 .. n |-> (7 * k + n) % 256]

VARIABLES
    out_frame,       \* what was to be sent: source, destination, PAN, length, ack
    seq,      \* radif->seq of the sender
    halted,   \* radio_frame_write met a frame too long and stopped
    air,      \* the octets of the frame on the air, its length first
    in_frame        \* struct rx_frame: source_address, length, data

varsFrame == <<out_frame, seq, halted, air, in_frame>>

-----------------------------------------------------------------------------
\* write_spi_word and read_spi_word: least significant octet first
write_spi_word(w)    == <<w % 256, (w \div 256) % 256>>
read_spi_word(s, at) == s[at] + 256 * s[at + 1]

ieee_header_len == 9

\* The octets write_out_ieee_header sends.
write_out_ieee_header(f, s) ==
    LET fcf == FRAME_PAN_ID_16BIT_ADDR * 2^14 + FRAME_VERSION_IEEE_2006 * 2^12
                 + FRAME_PAN_ID_16BIT_ADDR * 2^10 + FCF_PAN_ID_COMPRESSION + FRAME_TYPE_DATA
                 + (IF f.ack THEN FCF_ACKNOWLEDGE_REQUEST ELSE 0)
    IN  write_spi_word(fcf) \o <<s>> \o write_spi_word(f.pan) \o write_spi_word(f.dest)
          \o write_spi_word(f.src)

\* The length octet (a uint8_t), the header, the data, and two octets in place
\* of the check sequence.
radio_frame_write(f, s) ==
    <<(f.length + ieee_header_len + 2) % 256>> \o write_out_ieee_header(f, s)
        \o Data(f.length) \o <<0, 0>>

\* Mutant: the PAN identifier of the source is read although it was compressed.
read_in_ieee_header_pans(s) ==
    LET fcf  == read_spi_word(s, 2)
        dest == (fcf \div 2^10) % 4
        src  == (fcf \div 2^14) % 4
        a == 3 + (IF dest = FRAME_PAN_ID_16BIT_ADDR THEN 4
                  ELSE IF dest = FRAME_PAN_ID_64BIT_ADDR THEN 2 ELSE 0)
        b == a + (IF src \in {FRAME_PAN_ID_16BIT_ADDR, FRAME_PAN_ID_64BIT_ADDR} THEN 2 ELSE 0)
    IN  [read |-> b + (IF src = FRAME_PAN_ID_16BIT_ADDR THEN 2 ELSE 0),
         source_address |->
           IF src = FRAME_PAN_ID_16BIT_ADDR THEN read_spi_word(s, b + 2) ELSE in_frame.source_address]
\* read_in_ieee_header on the octets s, whose first is the length: the octets
\* read and the source address, which stays as it was in a frame without one.
read_in_ieee_header(s) ==
    LET fcf  == read_spi_word(s, 2)
        compressed == (fcf \div FCF_PAN_ID_COMPRESSION) % 2 = 1
        dest == (fcf \div 2^10) % 4
        src  == (fcf \div 2^14) % 4
        a == 3 + (IF dest = FRAME_PAN_ID_16BIT_ADDR THEN 4
                  ELSE IF dest = FRAME_PAN_ID_64BIT_ADDR THEN 2 ELSE 0)
        b == a + (IF src \in {FRAME_PAN_ID_16BIT_ADDR, FRAME_PAN_ID_64BIT_ADDR} /\ ~compressed
                  THEN 2 ELSE 0)
    IN  [read |-> b + (IF src = FRAME_PAN_ID_16BIT_ADDR THEN 2 ELSE 0),
         source_address |->
           IF src = FRAME_PAN_ID_16BIT_ADDR THEN read_spi_word(s, b + 2) ELSE in_frame.source_address]

\* Past its end the transceiver's buffer gives octets of no frame.
radio_frame_read(s) ==
    LET header == read_in_ieee_header(s)
        length == (s[1] - (header.read + 2)) % 256
        At(n)  == IF n <= Len(s) THEN s[n] ELSE 0
    IN  [source_address |-> header.source_address, length |-> length,
         data |-> [k \in 1 .. length |-> At(header.read + 1 + k)]]

-----------------------------------------------------------------------------
NoFrame == [src |-> 0, dest |-> 0, pan |-> 0, length |-> 0, ack |-> FALSE]

InitFrame ==
    /\ out_frame = NoFrame /\ seq \in Seqs /\ halted = FALSE /\ air = <<>>
    /\ in_frame = [source_address |-> 0, length |-> 0, data |-> <<>>]

\* radif->seq++ is a uint8_t; "If the length is too big, halt!"
FrameWrite ==
    /\ air = <<>> /\ ~halted /\ seq \in Seqs
    /\ \E f \in [src : Words16, dest : Words16, pan : Words16, length : Lengths, ack : BOOLEAN] :
         /\ out_frame' = f
         /\ IF f.length + ieee_header_len + 2 > 127
            THEN halted' = TRUE /\ UNCHANGED <<air, seq>>
            ELSE /\ air' = radio_frame_write(f, seq)
                 /\ seq' = (seq + 1) % 256
                 /\ UNCHANGED halted
    /\ UNCHANGED in_frame

\* A frame of another station: with or without a destination, with its PAN
\* identifiers written out, with or without a source.
OtherFrame ==
    /\ air = <<>>
    /\ \E f \in [src : Words16, dest : Words16, pan : Words16, length : Lengths, ack : {FALSE}],
          modes \in {<<2, 2>>, <<2, 0>>, <<0, 2>>} :
         LET fcf == modes[2] * 2^14 + modes[1] * 2^10 + FRAME_TYPE_DATA
             octets == write_spi_word(fcf) \o <<seq>>
               \o (IF modes[1] = 0 THEN <<>> ELSE write_spi_word(f.pan) \o write_spi_word(f.dest))
               \o (IF modes[2] = 0 THEN <<>> ELSE write_spi_word(f.pan) \o write_spi_word(f.src))
               \o Data(f.length) \o <<0, 0>>
         IN  /\ Len(octets) <= 127
             /\ air' = <<Len(octets)>> \o octets
             /\ out_frame' = [f EXCEPT !.src = IF modes[2] = 0 THEN in_frame.source_address ELSE f.src]
    /\ UNCHANGED <<seq, halted, in_frame>>

FrameRead ==
    /\ air # <<>>
    /\ in_frame' = radio_frame_read(air)
    /\ air' = <<>> /\ out_frame' = NoFrame
    /\ UNCHANGED <<seq, halted>>

NextFrame == FrameWrite \/ OtherFrame \/ FrameRead
SpecFrame == InitFrame /\ [][NextFrame]_varsFrame

-----------------------------------------------------------------------------
\* What radio_frame_read puts in the rx_frame is the data that was sent, and
\* the short address of its sender where the frame carries one: read and
\* written headers have the same length in every supported addressing mode.
FramesReadBack ==
    [][FrameRead => /\ in_frame'.source_address = out_frame.src
                    /\ in_frame'.length = out_frame.length
                    /\ in_frame'.data = Data(out_frame.length)]_varsFrame
=============================================================================
