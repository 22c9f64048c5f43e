------------------------------ MODULE TcpSend ------------------------------
(***************************************************************************)
(* The sending half of a TCP connection of lwIP, as the upload uses it:    *)
(* tcp_write and tcp_close queue data and the FIN, tcp_output sends what   *)
(* the windows allow, tcp_receive processes acknowledgements, and          *)
(* tcp_slowtmr retransmits, probes a closed window and gives up.           *)
(*                                                                         *)
(* A segment is the interval of sequence numbers it carries; sequence      *)
(* numbers are taken modulo SeqSpace (2^32 in the code).  The timers count *)
(* abstract time: a running timer may be found due by any tcp_slowtmr.     *)
(* The connection starts as the answer to the SYN leaves it.  The server   *)
(* sends nothing before it has the request, so every segment that comes in *)
(* is a bare acknowledgement.                                              *)
(***************************************************************************)
EXTENDS TcpSeq, Sequences, SequencesExt, FiniteSetsExt

CONSTANTS ISS,        \* the first sequence number of the data
          MSS,        \* pcb->mss
          SndBuf,     \* TCP_SND_BUF
          QueueLen,   \* TCP_SND_QUEUELEN
          MaxRtx,     \* TCP_MAXRTX
          U16, U8,    \* number of values of a u16_t and of a u8_t
          Data,       \* how much the application writes in all
          WriteSizes,     \* how much it may write at a time
          PeerBuf,    \* the receive buffer of the server
          MaxNrtx,    \* bound on pcb->nrtx
          FaultKinds, \* what may go wrong: a packet is lost or duplicated, an
                      \* allocation fails, a timer is due while a packet is
                      \* still on its way
          MaxFaults   \* how often it may

ASSUME TcpSendAssumption ==
  /\ {MSS, SndBuf, QueueLen, MaxRtx, MaxNrtx, U16, U8, Data, PeerBuf} \subseteq Nat \ {0}
  /\ FaultKinds \subseteq {"loss", "copy", "memory", "early"}
  /\ MaxFaults \in Nat /\ MaxNrtx >= MaxRtx /\ WriteSizes \subseteq 1..Data
  /\ ISS \in 0..(SeqSpace - 1) /\ SeqSpace > 2 * (Data + PeerBuf + 2)

VARIABLES snd,        \* the protocol control block
          net,        \* segments on their way to the server
          acks,       \* acknowledgements on their way back
          got,        \* what the server has received, as offsets from ISS
          edge,       \* the right edge of the window it has announced
          faults      \* how many faults there have been

varsSnd == <<snd, net, acks, got, edge, faults>>

Least(a, b) == IF a <= b THEN a ELSE b

Offset(seq) == Sub(seq, ISS)

SegmentOf(seq, len, fin) == [seq |-> seq, len |-> len, fin |-> fin, clen |-> 1]

\* snd_wl2 is still the number tcp_alloc chose.
InitSnd ==
  /\ snd = [state |-> "ESTABLISHED", unsent |-> <<>>, unacked |-> <<>>,
            unsent_oversize |-> 0, snd_nxt |-> ISS, lastack |-> ISS,
            snd_lbb |-> ISS, snd_wnd |-> PeerBuf, snd_wl1 |-> "syn",
            snd_wl2 |-> Sub(ISS, 1), cwnd |-> 2 * MSS, ssthresh |-> 10 * MSS,
            dupacks |-> 0, rtime |-> "off", nrtx |-> 0, infr |-> FALSE,
            memerr |-> FALSE, fin |-> FALSE, persist |-> FALSE,
            snd_buf |-> SndBuf, snd_queuelen |-> 0, out |-> {}]
  /\ net = {} /\ acks = {} /\ got = {} /\ edge = PeerBuf
  /\ faults = 0

-----------------------------------------------------------------------------
(* Queueing: tcp_write, tcp_enqueue_flags, tcp_send_fin. *)

\* How len is laid out behind the unsent queue: what fits in the spare room of
\* the last pbuf, what is concatenated to the last segment, and the rest in
\* segments of its own.
Used(p, len) == IF p.unsent = <<>> THEN 0 ELSE Least(p.unsent_oversize, len)

Space(p, len) == MSS - Last(p.unsent).len - Used(p, len)

Concat(p, len) ==
  IF p.unsent # <<>> /\ Last(p.unsent).len > 0
    THEN Least(Space(p, len), len - Used(p, len)) ELSE 0

NewSegments(seq, len) ==
  [i \in 1..((len + MSS - 1) \div MSS) |->
     SegmentOf(Add(seq, (i - 1) * MSS), Least(MSS, len - (i - 1) * MSS), FALSE)]

Oversize(p, len) ==
  LET rest == len - Used(p, len) - Concat(p, len)
      last == rest - MSS * ((rest - 1) \div MSS)
  IN IF rest > 0
       THEN IF rest > MSS \/ p.unsent # <<>> \/ p.unacked # <<>> THEN MSS - last ELSE 0
     ELSE IF Concat(p, len) > 0 THEN Space(p, len) - Concat(p, len)
     ELSE p.unsent_oversize - Used(p, len)

Written(p, len) ==
  LET grown == Used(p, len) + Concat(p, len)
      grow(seg) == [seg EXCEPT !.len = @ + grown,
                               !.clen = @ + (IF Concat(p, len) > 0 THEN 1 ELSE 0)]
      kept == IF p.unsent = <<>> THEN <<>>
              ELSE Front(p.unsent) \o <<grow(Last(p.unsent))>>
      queue == NewSegments(Add(p.snd_lbb, grown), len - grown)
  IN [p EXCEPT !.unsent = kept \o queue, !.unsent_oversize = Oversize(p, len),
               !.snd_lbb = Add(@, len), !.snd_buf = @ - len,
               !.snd_queuelen = @ + Len(queue) + (IF Concat(p, len) > 0 THEN 1 ELSE 0)]

\* Nothing is queued when the buffer, the queue or the memory is full.
Refused(p) == [p EXCEPT !.memerr = TRUE]

Room(p, len) ==
  /\ len <= p.snd_buf
  /\ p.snd_queuelen < QueueLen /\ Written(p, len).snd_queuelen <= QueueLen

tcp_write(p, len, mem) == IF mem /\ Room(p, len) THEN Written(p, len) ELSE Refused(p)

tcp_enqueue_fin(p, mem) ==
  IF p.snd_queuelen >= QueueLen THEN Refused(p)
  ELSE IF p.snd_buf = 0 THEN p
  ELSE IF ~mem THEN Refused(p)
  ELSE [p EXCEPT !.unsent = Append(@, SegmentOf(p.snd_lbb, 0, TRUE)),
                 !.unsent_oversize = 0, !.snd_lbb = Add(@, 1), !.snd_buf = @ - 1,
                 !.fin = TRUE, !.snd_queuelen = @ + 1, !.state = "FIN_WAIT_1"]

tcp_send_fin(p, mem) ==
  IF p.unsent # <<>> /\ ~Last(p.unsent).fin
    THEN [p EXCEPT !.unsent[Len(p.unsent)].fin = TRUE, !.state = "FIN_WAIT_1"]
    ELSE tcp_enqueue_fin(p, mem)

-----------------------------------------------------------------------------
(* Sending: tcp_output. *)

Fits(p, seg, wnd) == Add(Sub(seg.seq, p.lastack), seg.len) <= wnd

\* Into the unacked queue: at its end, or where its sequence number belongs
\* when the segment is a retransmission from before the end.
\* Mutant: always at the end.
Sorted_end(queue, seg) == Append(queue, seg)

Sorted(queue, seg) ==
  LET before == SelectSeq(queue, LAMBDA s : SEQ_LT(s.seq, seg.seq))
      behind == SelectSeq(queue, LAMBDA s : ~SEQ_LT(s.seq, seg.seq))
  IN before \o <<seg>> \o behind

\* The i-th unsent segment goes out once those before it have.
Sendable(p, i) ==
  /\ Fits(p, p.unsent[i], Least(p.snd_wnd, p.cwnd))
  /\ \/ i = 1 /\ p.unacked = <<>>
     \/ p.infr \/ i < Len(p.unsent) \/ p.unsent[i].len >= MSS
     \/ p.memerr \/ p.fin

\* How many segments at the head of a queue pass a test, given those that do.
Leading(queue, passing) ==
  Min({i - 1 : i \in DOMAIN queue \ passing} \cup {Len(queue)})

tcp_output_segments(p, n) ==
  LET segs == SubSeq(p.unsent, 1, n)
  IN [p EXCEPT !.unsent = SubSeq(@, n + 1, Len(@)),
               !.unacked = FoldLeft(Sorted, @, segs),
               !.out = @ \cup {[seq |-> segs[i].seq, len |-> segs[i].len,
                               fin |-> segs[i].fin, probe |-> FALSE] : i \in 1..n},
               !.rtime = IF n > 0 THEN "on" ELSE @,
               !.snd_nxt = FoldLeft(LAMBDA nxt, s : IF SEQ_LT(nxt, End(s)) THEN End(s)
                                                    ELSE nxt, @, segs)]

\* Mutant: the persist timer is not armed.
tcp_output_unarmed(p) ==
  LET q == tcp_output_segments(p, Leading(p.unsent, {i \in DOMAIN p.unsent : Sendable(p, i)}))
  IN [q EXCEPT !.unsent_oversize = IF q.unsent = <<>> THEN 0 ELSE @, !.memerr = FALSE]

tcp_output(p) ==
  LET q == tcp_output_segments(p, Leading(p.unsent, {i \in DOMAIN p.unsent : Sendable(p, i)}))
      blocked == q.unsent # <<>> /\ ~Fits(q, Head(q.unsent), q.snd_wnd)
  IN [q EXCEPT !.unsent_oversize = IF q.unsent = <<>> THEN 0 ELSE @,
               !.persist = @ \/ blocked, !.memerr = FALSE]

-----------------------------------------------------------------------------
(* Retransmission. *)

tcp_rexmit_rto(p) ==
  IF p.unacked = <<>> THEN p
  ELSE tcp_output([p EXCEPT !.unsent = p.unacked \o @, !.unacked = <<>>,
                            !.nrtx = @ + 1])

tcp_rexmit(p) ==
  IF p.unacked = <<>> THEN p
  ELSE [p EXCEPT !.unsent = Sorted(@, Head(p.unacked)), !.unacked = Tail(@),
                 !.nrtx = @ + 1]

Halved(p) == LET half == Least(p.cwnd, p.snd_wnd) \div 2
             IN IF half < 2 * MSS THEN 2 * MSS ELSE half

tcp_rexmit_fast(p) ==
  IF p.unacked = <<>> \/ p.infr THEN p
  ELSE [tcp_rexmit(p) EXCEPT !.ssthresh = Halved(p), !.cwnd = Halved(p) + 3 * MSS,
                             !.infr = TRUE]

tcp_zero_window_probe(p) ==
  IF p.unacked \o p.unsent = <<>> THEN p
  ELSE LET seg == Head(p.unacked \o p.unsent)
           len == IF seg.fin /\ seg.len = 0 THEN 0 ELSE 1
       IN [p EXCEPT !.out = @ \cup {[seq |-> seg.seq, len |-> len, fin |-> len = 0, probe |-> TRUE]}]

-----------------------------------------------------------------------------
(* Acknowledgements: the first half of tcp_receive, and tcp_process. *)

Inflated(cwnd, by) == IF (cwnd + by) % U16 > cwnd THEN cwnd + by ELSE cwnd

UpdateWindow(p, a) ==
  IF \/ p.snd_wl1 = "syn"
     \/ SEQ_LT(p.snd_wl2, a.ack)
     \/ p.snd_wl2 = a.ack /\ a.wnd > p.snd_wnd
    THEN [p EXCEPT !.snd_wnd = a.wnd, !.snd_wl1 = "data", !.snd_wl2 = a.ack,
                   !.persist = @ /\ a.wnd = 0]
    ELSE p

\* The window is as it was before this acknowledgement.
SameEdge(p, old) == Add(p.snd_wl2, p.snd_wnd) = Add(old.snd_wl2, old.snd_wnd)

DupAck(p) ==
  LET n == (p.dupacks + 1) % U8
      q == [p EXCEPT !.dupacks = n]
  IN IF n > 3 THEN [q EXCEPT !.cwnd = Inflated(@, MSS)]
     ELSE IF n = 3 THEN tcp_rexmit_fast(q)
     ELSE q

\* A queue without the segments at its head that the acknowledgement covers.
Unacked(queue, ack) ==
  SubSeq(queue, Leading(queue, {i \in DOMAIN queue : SEQ_LEQ(End(queue[i]), ack)}) + 1, Len(queue))

Pbufs(queue) == FoldLeft(LAMBDA n, seg : n + seg.clen, 0, queue)

NewAck(p, ack) ==
  LET cwnd == IF p.infr THEN p.ssthresh ELSE p.cwnd
      left == Unacked(p.unacked, ack)
  IN [p EXCEPT !.infr = FALSE, !.nrtx = 0, !.dupacks = 0, !.lastack = ack,
               !.snd_buf = @ + Sub(ack, p.lastack),
               !.cwnd = Inflated(cwnd, IF cwnd < p.ssthresh THEN MSS
                                       ELSE (MSS * MSS) \div cwnd),
               !.unacked = left,
               !.snd_queuelen = @ - Pbufs(p.unacked) + Pbufs(left),
               !.rtime = IF left = <<>> THEN "off" ELSE "on"]

\* Segments put back for retransmission may be acknowledged as well.
AckUnsent(p, ack) ==
  LET left == IF SEQ_LEQ(ack, p.snd_nxt) THEN Unacked(p.unsent, ack) ELSE p.unsent
  IN [p EXCEPT !.unsent = left, !.snd_queuelen = @ - Pbufs(p.unsent) + Pbufs(left)]

tcp_receive(p, a) ==
  LET w == UpdateWindow(p, a)
      q == IF SEQ_LEQ(a.ack, p.lastack)
             THEN IF SameEdge(w, p) /\ w.rtime = "on" /\ a.ack = p.lastack
                    THEN DupAck(w) ELSE [w EXCEPT !.dupacks = 0]
           ELSE IF SEQ_LEQ(a.ack, p.snd_nxt) THEN NewAck(w, a.ack)
           ELSE w
  IN AckUnsent(q, a.ack)

tcp_process(p, a) ==
  LET q == tcp_receive(p, a)
  IN IF p.state = "FIN_WAIT_1" /\ a.ack = q.snd_nxt
       THEN [q EXCEPT !.state = "FIN_WAIT_2"] ELSE q

-----------------------------------------------------------------------------
(* The steps. *)

BecomesSnd(p) == snd' = [p EXCEPT !.out = {}] /\ net' = net \cup p.out

Fault(kind, happens) ==
  /\ happens => kind \in FaultKinds /\ faults < MaxFaults
  /\ faults' = IF happens THEN faults + 1 ELSE faults

Lengths(p) == {n \in WriteSizes : p.state = "ESTABLISHED" /\ Offset(p.snd_lbb) + n <= Data}

\* server_tcp_service writes; nothing is sent before the next tcp_output.
Write ==
  \E len \in Lengths(snd), mem \in BOOLEAN :
    /\ BecomesSnd(tcp_write(snd, len, mem))
    /\ Fault("memory", ~mem) /\ UNCHANGED <<acks, got, edge>>

tcp_close ==
  \E mem \in BOOLEAN :
    /\ snd.state = "ESTABLISHED" /\ Offset(snd.snd_lbb) = Data
    /\ LET p == tcp_send_fin(snd, mem)
       IN BecomesSnd(IF p.state = "FIN_WAIT_1" THEN tcp_output(p) ELSE p)
    /\ Fault("memory", ~mem) /\ UNCHANGED <<acks, got, edge>>

\* tcp_input: the sent callback may write more before the output.
tcp_input(a) ==
  LET q == tcp_process(snd, a)
      more == IF SEQ_LT(snd.lastack, q.lastack) THEN Lengths(q) ELSE {}
  IN {tcp_output(p) : p \in {q} \cup {tcp_write(q, len, TRUE) : len \in more}}

RecvAck ==
  \E a \in acks, again \in BOOLEAN :
    /\ snd.state # "CLOSED"
    /\ \E p \in tcp_input(a) : BecomesSnd(p)
    /\ acks' = IF again THEN acks ELSE acks \ {a}
    /\ Fault("copy", again) /\ UNCHANGED <<got, edge>>

Removed(p) ==
  [p EXCEPT !.state = "CLOSED", !.unsent = <<>>, !.unacked = <<>>, !.rtime = "off",
            !.unsent_oversize = 0, !.snd_queuelen = 0, !.persist = FALSE]

RtoExpired(p) ==
  tcp_rexmit_rto([p EXCEPT !.ssthresh = Halved(p), !.cwnd = MSS])

\* tcp_slowtmr, with the timer that runs found due or not.  The connection is
\* polled at every tick, and tcp_output follows.
Timed(p, due) ==
  IF ~due THEN p
  ELSE IF p.persist THEN tcp_zero_window_probe(p)
  ELSE IF p.unacked # <<>> /\ p.rtime = "on" THEN RtoExpired(p)
  ELSE p

tcp_slowtmr(due) ==
  /\ snd.state # "CLOSED"
  /\ snd.nrtx < MaxNrtx
  /\ \E p \in {IF snd.nrtx = MaxRtx THEN Removed(snd)
                ELSE tcp_output(Timed(snd, due))} : BecomesSnd(p)
  /\ Fault("early", due /\ net \cup acks # {})
  /\ UNCHANGED <<acks, got, edge>>

\* Nothing is on its way, and tcp_slowtmr has something to do.
TimerPending ==
  /\ net \cup acks = {} /\ snd.state # "CLOSED" /\ snd.nrtx < MaxNrtx
  /\ snd.nrtx = MaxRtx \/ tcp_output(Timed(snd, TRUE)) # snd

FinWaitTimeout ==
  /\ snd.state = "FIN_WAIT_2"
  /\ snd' = Removed(snd) /\ UNCHANGED <<net, acks, got, edge, faults>>

-----------------------------------------------------------------------------
(* The server and the network, external to the firmware. *)

Missing(g) == CHOOSE n \in 0..(Data + 1) : n \notin g /\ 0..(n - 1) \subseteq g

Answer(g, e) ==
  LET n == Missing(g)
  IN [ack |-> Add(ISS, n), wnd |-> IF e > n THEN e - n ELSE 0]

Accepted(m) ==
  LET from == Offset(m.seq)
      bytes == from..(from + m.len - 1)
  IN {n \in bytes : n < edge} \cup
     {n \in {from + m.len} : m.fin /\ bytes \subseteq 0..(edge - 1)}

PeerReceives ==
  \E m \in net, again \in BOOLEAN :
    /\ got' = got \cup Accepted(m)
    /\ acks' = acks \cup {Answer(got', edge)}
    /\ net' = IF again THEN net ELSE net \ {m}
    /\ Fault("copy", again) /\ UNCHANGED <<snd, edge>>

PeerReads ==
  /\ edge < Missing(got) + PeerBuf
  /\ edge' = Missing(got) + PeerBuf
  /\ acks' = acks \cup {Answer(got, edge')}
  /\ UNCHANGED <<snd, net, got, faults>>

Lose ==
  /\ \/ \E m \in net : net' = net \ {m} /\ UNCHANGED acks
     \/ \E a \in acks : acks' = acks \ {a} /\ UNCHANGED net
  /\ Fault("loss", TRUE) /\ UNCHANGED <<snd, got, edge>>

NextSnd ==
  \/ Write \/ tcp_close \/ RecvAck \/ tcp_slowtmr(FALSE) \/ tcp_slowtmr(TRUE)
  \/ FinWaitTimeout \/ PeerReceives \/ PeerReads \/ Lose

SpecSnd == InitSnd /\ [][NextSnd]_varsSnd

-----------------------------------------------------------------------------
(* Properties. *)

Segs(queue) == {queue[i] : i \in 1..Len(queue)}
Queued == Segs(snd.unacked) \cup Segs(snd.unsent)
Bytes(seg) == Offset(seg.seq)..(Offset(seg.seq) + TCPLEN(seg) - 1)
InOrder(queue) == \A i \in 1..(Len(queue) - 1) : SEQ_LT(queue[i].seq, queue[i + 1].seq)

\* The counters stay within their types: cwnd, a u16_t that tcp_receive only
\* lets grow when the sum does not wrap, never falls below one segment, and
\* snd_buf and snd_queuelen stay within TCP_SND_BUF and TCP_SND_QUEUELEN.
SndTypeOK ==
  /\ snd.state \in {"ESTABLISHED", "FIN_WAIT_1", "FIN_WAIT_2", "CLOSED"}
  /\ snd.cwnd \in MSS..(U16 + 2 * MSS) /\ snd.dupacks \in 0..(U8 - 1)
  /\ snd.snd_buf \in 0..(SndBuf + 1) /\ snd.snd_queuelen \in 0..QueueLen
  /\ snd.nrtx \in 0..(MaxNrtx + 1) /\ snd.out = {}

\* Whatever mixture of retransmissions, acknowledgements and writes there has
\* been, the two queues are in order and hold every byte not yet acknowledged
\* exactly once (tcp_output, tcp_rexmit, tcp_rexmit_rto and tcp_receive move
\* segments between them).
QueuesCover ==
  snd.state # "CLOSED" =>
    /\ InOrder(snd.unacked) /\ InOrder(snd.unsent)
    /\ \A s \in Queued, u \in Queued : s # u => Bytes(s) \cap Bytes(u) = {}
    /\ Cardinality(Queued) = Len(snd.unacked) + Len(snd.unsent)
    /\ Offset(snd.lastack)..(Offset(snd.snd_lbb) - 1) \subseteq UNION {Bytes(s) : s \in Queued}
    /\ \A s \in Queued : SEQ_LT(snd.lastack, End(s))

\* What tcp_write asserts of the queue length and of unsent_oversize.
CountsAgree ==
  /\ snd.snd_queuelen = Pbufs(snd.unacked) + Pbufs(snd.unsent)
  /\ snd.unsent = <<>> => snd.unsent_oversize = 0
  /\ snd.unsent # <<>> => Last(snd.unsent).len + snd.unsent_oversize <= MSS
  /\ snd.state = "ESTABLISHED" =>
       snd.snd_buf + Sub(snd.snd_lbb, snd.lastack) = SndBuf

\* tcp_output never sends beyond the window the server has announced, whatever
\* the order its acknowledgements arrive in; only tcp_zero_window_probe does.
NeverOverruns == \A m \in net : ~m.probe => Offset(m.seq) + m.len <= edge

\* While something sent is not acknowledged the retransmission timer runs.
TimerRuns == snd.unacked # <<>> => snd.rtime = "on"

\* All that was written reaches the server, or the connection is ended: the
\* persist timer and the retransmission timer make up for every packet lost
\* (a zero window announced and opened again included).
WrittenArrived == Offset(snd.snd_lbb) = Data /\ snd.state = "ESTABLISHED" => 0..(Data - 1) \subseteq got

\* What tcp_write, tcp_output, tcp_receive and tcp_slowtmr keep true of the
\* sending half.
SndSound == SndTypeOK /\ QueuesCover /\ CountsAgree /\ NeverOverruns /\ TimerRuns
=============================================================================
