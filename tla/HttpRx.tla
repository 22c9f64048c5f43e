------------------------------- MODULE HttpRx -------------------------------
(***************************************************************************)
(* src/http_rx.c: the matcher that calls good_upload_done once for each    *)
(* document in the answer to a _bulk_docs request.                         *)
(*                                                                         *)
(* The answer arrives in buffers cut anywhere.  A character is a quote,    *)
(* one of the letters of the pattern, a colon, or another one ("o").       *)
(***************************************************************************)
EXTENDS Integers, Sequences, SequencesExt

CONSTANTS
    Values,     \* texts a document of the answer may hold
    MaxDocs,    \* bound: documents in an answer
    BufferMax   \* bound: characters in one buffer

good == <<"quote", "i", "d", "quote", "colon">>

VARIABLES
    rest,         \* the part of the answer still to arrive
    received,     \* the part that has
    good_index,   \* the characters of good matched so far
    acked         \* calls to good_upload_done for this answer

varsHttpRx == <<rest, received, good_index, acked>>

-----------------------------------------------------------------------------
(* What the database answers (external) *)

Text(v)      == <<"quote">> \o v \o <<"quote">>
Key(k)       == Text(k) \o <<"colon">>
Field(k, v)  == Key(k) \o Text(v)
Object(fs)   == <<"o">> \o fs \o <<"o">>

\* {"ok":true,"id":"...","rev":"..."} or {"id":"...","error":"..."}
Document(v) ==
    { Object(Key(<<"o", "o">>) \o <<"o", "o">> \o Field(<<"i", "d">>, v) \o <<"o">>
             \o Field(<<"o", "o">>, v)),
      Object(Field(<<"i", "d">>, v) \o <<"o">> \o Field(<<"o", "o">>, v)) }

Documents == UNION {Document(v) : v \in Values}

Answers ==
    {<<"o">> \o FlattenSeq([k \in DOMAIN ds |-> ds[k] \o <<"o">>])
        : ds \in BoundedSeq(Documents, MaxDocs) \ {<<>>}}

-----------------------------------------------------------------------------
\* One octet of parse_http_response_buffer.  bad_index is only ever set to 0,
\* so that the second pattern is never matched.
Octet(m, c) ==
    IF c # good[m.good_index + 1] THEN [m EXCEPT !.good_index = 0]
    ELSE IF m.good_index + 1 = Len(good) THEN [good_index |-> 0, acked |-> m.acked + 1]
    ELSE [m EXCEPT !.good_index = @ + 1]

parse_http_response_buffer(buffer) ==
    FoldLeft(Octet, [good_index |-> good_index, acked |-> acked], buffer)

InitHttpRx == rest = <<>> /\ received = <<>> /\ good_index = 0 /\ acked = 0

\* reset_http_response_parser, at the start of an upload; the answer to the
\* one before may have been cut short.
reset_http_response_parser ==
    /\ good_index' = 0
    /\ rest' \in Answers
    /\ received' = <<>> /\ acked' = 0

Buffer ==
    \E n \in 1 .. BufferMax :
      /\ n <= Len(rest)
      /\ LET m == parse_http_response_buffer(SubSeq(rest, 1, n))
         IN  good_index' = m.good_index /\ acked' = m.acked
      /\ received' = received \o SubSeq(rest, 1, n)
      /\ rest' = SubSeq(rest, n + 1, Len(rest))

NextHttpRx == reset_http_response_parser \/ Buffer
SpecHttpRx == InitHttpRx /\ [][NextHttpRx]_varsHttpRx

-----------------------------------------------------------------------------
\* good_upload_done is called once for each "id": received, however the answer
\* is cut into buffers and whatever its documents hold, although the matcher
\* does not look again at a character that broke a match.
EachIdAcked ==
    acked = Cardinality({n \in DOMAIN received : n + 4 \in DOMAIN received
                                                  /\ SubSeq(received, n, n + 4) = good})
=============================================================================
