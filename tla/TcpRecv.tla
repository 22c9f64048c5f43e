------------------------------ MODULE TcpRecv ------------------------------
(***************************************************************************)
(* The receiving half of a TCP connection of lwIP, as the upload uses it:  *)
(* tcp_receive puts the server's answer in order, tcp_input hands it to    *)
(* server_tcp_recv, which consumes all of it at once (tcp_recved), and     *)
(* acknowledgements are sent at once or by tcp_fasttmr.                    *)
(*                                                                         *)
(* The server's stream is 0, 1, .., Stream - 1 and a FIN.  A segment has   *)
(* the fields of its header (seq, len, fin) apart from its payload, since  *)
(* the code trims the two separately.  Any segment of the stream that lies *)
(* in the announced window may come in at any time: early, late, again,    *)
(* cut in another way.                                                     *)
(***************************************************************************)
EXTENDS TcpSeq, Sequences, SequencesExt, FiniteSetsExt

CONSTANTS IRS,        \* the first sequence number of the stream
          Stream,     \* its length
          RcvMSS,     \* pcb->mss
          WND         \* TCP_WND

ASSUME TcpRecvAssumption ==
  /\ {Stream, RcvMSS, WND} \subseteq Nat \ {0} /\ IRS \in 0..(SeqSpace - 1)
  /\ SeqSpace > 2 * (Stream + WND + 1)

VARIABLES rcv,        \* the receiver's fields of the protocol control block
          delivered,  \* what server_tcp_recv has been given
          una,        \* the last acknowledgement the server has seen
          short,      \* memory is short: an allocation may fail
          resent      \* flips when the server retransmits

varsRcv == <<rcv, delivered, una, short, resent>>

Lesser(a, b) == IF a <= b THEN a ELSE b

InitRcv ==
  /\ rcv = [rcv_nxt |-> IRS, rcv_wnd |-> WND, rcv_ann_wnd |-> WND,
            rcv_ann_right_edge |-> Add(IRS, WND), ooseq |-> <<>>,
            ack_delay |-> FALSE, ack_now |-> FALSE, sent |-> IRS,
            data |-> <<>>, fin |-> FALSE, state |-> "ESTABLISHED"]
  /\ delivered = <<>> /\ una = IRS /\ short \in BOOLEAN /\ resent = FALSE

-----------------------------------------------------------------------------
(* Windows and acknowledgements. *)

ack_now(r) == [r EXCEPT !.ack_now = TRUE]

tcp_ack(r) == IF r.ack_delay THEN [r EXCEPT !.ack_delay = FALSE, !.ack_now = TRUE]
              ELSE [r EXCEPT !.ack_delay = TRUE]

\* The window is announced to grow only by steps that are worth it.
Grows(r) == SEQ_LEQ(Add(r.rcv_ann_right_edge, Lesser(WND \div 2, RcvMSS)),
                    Add(r.rcv_nxt, r.rcv_wnd))

tcp_update_rcv_ann_wnd(r) ==
  [r EXCEPT !.rcv_ann_wnd =
     IF Grows(r) THEN r.rcv_wnd
     ELSE IF SEQ_LT(r.rcv_ann_right_edge, r.rcv_nxt) THEN 0
     ELSE Sub(r.rcv_ann_right_edge, r.rcv_nxt)]

tcp_recved(r, len) ==
  LET q == [r EXCEPT !.rcv_wnd = Lesser(@ + len, WND)]
      inflation == IF Grows(q) THEN Sub(Add(q.rcv_nxt, q.rcv_wnd), q.rcv_ann_right_edge) ELSE 0
      s == tcp_update_rcv_ann_wnd(q)
  IN IF inflation >= WND \div 4 THEN ack_now(s) ELSE s

tcp_send_empty_ack(r) ==
  [r EXCEPT !.ack_delay = FALSE, !.ack_now = FALSE,
            !.rcv_ann_right_edge = Add(r.rcv_nxt, r.rcv_ann_wnd), !.sent = r.rcv_nxt]

-----------------------------------------------------------------------------
(* Trimming and the queue of segments that came early. *)

pbuf_realloc(data, len) == SubSeq(data, 1, Lesser(len, Len(data)))

\* Mutant: the payload is left as it is.
TrimTail_header(seg, seq) ==
  IF SEQ_LT(seq, Add(seg.seq, seg.len)) THEN [seg EXCEPT !.len = Sub(seq, seg.seq)] ELSE seg

\* A segment without what lies behind seq.
TrimTail(seg, seq) ==
  IF SEQ_LT(seq, Add(seg.seq, seg.len))
    THEN [seg EXCEPT !.len = Sub(seq, seg.seq),
                     !.data = pbuf_realloc(@, Sub(seq, seg.seq))]
    ELSE seg

\* A segment without what has been received already.
TrimHead(seg, nxt) ==
  IF SEQ_BETWEEN(nxt, Add(seg.seq, 1), Sub(End(seg), 1))
    THEN [seg EXCEPT !.seq = nxt, !.len = @ - Sub(nxt, seg.seq),
                     !.data = SubSeq(@, Sub(nxt, seg.seq) + 1, Len(@))]
    ELSE seg

\* A segment cut at the right edge of the window.
TrimToWindow(seg, len) ==
  [seg EXCEPT !.fin = FALSE, !.len = len, !.data = pbuf_realloc(@, len)]

\* A segment in front of later ones: those it covers go, a FIN among them is
\* taken over, and it ends where the first one left begins.
Covers(seg, later) == SEQ_LEQ(Add(later.seq, later.len), Add(seg.seq, seg.len))

Uncovered(seg, later) ==
  LET left == {i \in 1..Len(later) : ~Covers(seg, later[i])}
  IN IF seg.fin \/ left = {} THEN <<>> ELSE SubSeq(later, Min(left), Len(later))

Merged(seg, later) ==
  LET left == Uncovered(seg, later)
      gone == 1..(Len(later) - Len(left))
      whole == [seg EXCEPT !.fin = @ \/ \E i \in gone : later[i].fin]
  IN IF left = <<>> THEN whole ELSE TrimTail(whole, Head(left).seq)

tcp_oos_insert_segment(seg, later) == <<Merged(seg, later)>> \o Uncovered(seg, later)

\* The last segment of the queue is cut at the right edge of the window; the
\* test compares the two sequence numbers as they are.
Windowed(r, seg) ==
  LET edge == Add(r.rcv_nxt, r.rcv_wnd)
  IN IF End(seg) > edge THEN TrimToWindow(seg, Sub(edge, seg.seq)) ELSE seg

PutAt(queue, seg, i) ==
  [j \in 1..(i - 1) |-> TrimTail(queue[j], seg.seq)]
    \o tcp_oos_insert_segment(seg, SubSeq(queue, i, Len(queue)))

Insert(r, seg) ==
  LET q == r.ooseq
      behind == {i \in 1..Len(q) : SEQ_LEQ(seg.seq, q[i].seq)}
  IN IF q = <<>> THEN <<seg>>
     ELSE IF behind # {}
       THEN LET i == Min(behind)
            IN IF q[i].seq = seg.seq /\ seg.len <= q[i].len THEN q
               ELSE PutAt(q, seg, i)
     ELSE IF Last(q).fin THEN q
     ELSE Append([j \in 1..Len(q) |-> TrimTail(q[j], seg.seq)], Windowed(r, seg))

-----------------------------------------------------------------------------
(* tcp_receive and tcp_input. *)

\* Segments that have come into sequence; fin and data go to tcp_input.
Takes(r, seg) ==
  LET n == TCPLEN(seg)
      q == [r EXCEPT !.rcv_nxt = Add(@, n), !.rcv_wnd = @ - n,
                     !.data = @ \o seg.data, !.fin = @ \/ seg.fin]
  IN tcp_update_rcv_ann_wnd(q)

\* How many at the head of the queue follow one another from seq on.
Contiguous(queue, seq) ==
  LET from(i) == IF i = 1 THEN seq ELSE End(queue[i - 1])
  IN Min({i - 1 : i \in {j \in 1..Len(queue) : queue[j].seq # from(j)}} \cup {Len(queue)})

InSequence(r, inseg) ==
  LET fit == IF TCPLEN(inseg) > r.rcv_wnd THEN TrimToWindow(inseg, r.rcv_wnd) ELSE inseg
      queue == Uncovered(fit, r.ooseq)
      seg == Merged(fit, r.ooseq)
      n == Contiguous(queue, End(seg))
      taken == FoldLeft(Takes, Takes(r, seg), SubSeq(queue, 1, n))
  IN tcp_ack([taken EXCEPT !.ooseq = SubSeq(queue, n + 1, Len(queue))])

Early(r, seg, fails) ==
  LET q == IF "ack" \in fails THEN r ELSE tcp_send_empty_ack(r)
  IN IF "copy" \in fails THEN q ELSE [q EXCEPT !.ooseq = Insert(r, seg)]

InWindow(r, seq) == SEQ_BETWEEN(seq, r.rcv_nxt, Sub(Add(r.rcv_nxt, r.rcv_wnd), 1))

tcp_receive_data(r, inseg, fails) ==
  LET seg == TrimHead(inseg, r.rcv_nxt)
      q == IF SEQ_LT(seg.seq, r.rcv_nxt) THEN ack_now(r) ELSE r
  IN IF TCPLEN(inseg) = 0
       THEN IF InWindow(r, inseg.seq) THEN r ELSE ack_now(r)
     ELSE IF ~InWindow(q, seg.seq)
       THEN IF "ack" \in fails THEN q ELSE tcp_send_empty_ack(q)
     ELSE IF seg.seq = q.rcv_nxt THEN InSequence(q, seg)
     ELSE Early(q, seg, fails)

\* server_tcp_recv takes the data.
Consumed(r) == IF r.data = <<>> THEN r ELSE tcp_recved(r, Len(r.data))

\* The FIN: server_tcp_recv closes the connection, which tcp_close does by a
\* reset if the application seems not to have taken all the data.
Finished(r) ==
  IF ~r.fin THEN r
  ELSE LET q == [ack_now(r) EXCEPT !.rcv_wnd = IF @ # WND THEN @ + 1 ELSE @]
       IN [q EXCEPT !.state = IF @ # "ESTABLISHED" THEN @
                              ELSE IF q.rcv_wnd # WND THEN "RESET" ELSE "LAST_ACK"]

tcp_output_ack(r, fails) ==
  IF r.ack_now /\ "ack" \notin fails THEN tcp_send_empty_ack(r) ELSE r

-----------------------------------------------------------------------------
(* The steps. *)

Fails == {f \in SUBSET {"ack", "copy"} : f # {} => short}

\* The segments the server may send, or may have sent before.
Sent(from, len, fin) ==
  [seq |-> Add(IRS, from), len |-> len, fin |-> fin, data |-> [i \in 1..len |-> from + i - 1]]

StreamSegments ==
  {seg \in {Sent(from, len, fin) : from \in 0..(Stream + 1), len \in 0..RcvMSS, fin \in BOOLEAN} :
     LET from == Sub(seg.seq, IRS)
     IN /\ from + seg.len <= Stream \/ (from = Stream + 1 /\ seg.len = 0)
        /\ seg.fin => from + seg.len = Stream
        /\ SEQ_LEQ(End(seg), rcv.rcv_ann_right_edge)}

BecomesRcv(r) ==
  /\ rcv' = [r EXCEPT !.data = <<>>, !.fin = FALSE]
  /\ delivered' = delivered \o r.data
  /\ UNCHANGED <<una, short>>

RecvSegment(seg) ==
  \E fails \in Fails :
    /\ rcv.state # "RESET"
    /\ BecomesRcv(tcp_output_ack(Finished(Consumed(tcp_receive_data(rcv, seg, fails))), fails))

\* The delayed acknowledgement; if it cannot be sent it is dropped.
tcp_fasttmr ==
  \E fails \in Fails :
    /\ rcv.ack_delay
    /\ LET r == tcp_output_ack(ack_now(rcv), fails)
       IN BecomesRcv([r EXCEPT !.ack_delay = FALSE, !.ack_now = FALSE])

\* tcp_slowtmr gives up segments that wait for too long, and polls.
SlowTmrRcv ==
  \E fails \in Fails, queue \in {rcv.ooseq, <<>>} :
    /\ rcv.state # "RESET" /\ (queue # rcv.ooseq \/ rcv.ack_now)
    /\ BecomesRcv(tcp_output_ack([rcv EXCEPT !.ooseq = queue], fails))

\* The server retransmits from the last acknowledgement it has.
Resend ==
  /\ \E seg \in StreamSegments :
       /\ seg.seq = una /\ TCPLEN(seg) > 0
       /\ \A s \in StreamSegments : s.seq = una => TCPLEN(s) <= TCPLEN(seg)
       /\ RecvSegment(seg)
  /\ resent' = ~resent

AckArrives == una # rcv.sent /\ una' = rcv.sent /\ UNCHANGED <<rcv, delivered, short, resent>>

MemoryBack == short /\ short' = FALSE /\ UNCHANGED <<rcv, delivered, una, resent>>

NextRcv ==
  \/ (\E seg \in StreamSegments : RecvSegment(seg)) /\ UNCHANGED resent
  \/ (tcp_fasttmr \/ SlowTmrRcv) /\ UNCHANGED resent
  \/ Resend \/ AckArrives \/ MemoryBack

SpecRcv == InitRcv /\ [][NextRcv]_varsRcv

-----------------------------------------------------------------------------
(* Properties. *)

\* Whatever order, overlap and repetition the segments came in, tcp_receive
\* gives the application the stream from its beginning, each byte once, and
\* rcv_nxt, which is what the server is told has arrived, counts exactly
\* what has been given to it and the FIN.
StreamIsPrefix ==
  /\ delivered = [i \in 1..Len(delivered) |-> i - 1] /\ Len(delivered) <= Stream
  /\ Sub(rcv.rcv_nxt, IRS) = Len(delivered) + (IF rcv.state = "ESTABLISHED" THEN 0 ELSE 1)
  /\ rcv.state # "ESTABLISHED" => Len(delivered) = Stream

\* The segments tcp_receive keeps on ooseq lie above rcv_nxt, in order and
\* apart from one another, inside the window, each with the payload its
\* header says, and a FIN only at the end.
OoseqInOrder ==
  LET q == rcv.ooseq
  IN \A i \in 1..Len(q) :
       /\ SEQ_LT(rcv.rcv_nxt, q[i].seq) /\ SEQ_LEQ(End(q[i]), Add(rcv.rcv_nxt, rcv.rcv_wnd))
       /\ q[i] = Sent(Sub(q[i].seq, IRS), q[i].len, q[i].fin)
       /\ i < Len(q) => SEQ_LEQ(End(q[i]), q[i + 1].seq) /\ ~q[i].fin

\* tcp_recved and the correction for the FIN in tcp_input give the whole window
\* back, so tcp_close ends the connection in order and not by a reset
\* (tcp.c:143 takes a smaller window for data not read).
WindowGivenBack == rcv.rcv_wnd = WND /\ rcv.state # "RESET"

\* The server's answer has arrived to its end and the server knows.
Answered == rcv.state = "LAST_ACK" /\ una = rcv.rcv_nxt

\* What tcp_receive, tcp_input and tcp_fasttmr keep true of the receiving half.
RcvSound == StreamIsPrefix /\ OoseqInOrder /\ WindowGivenBack
=============================================================================
