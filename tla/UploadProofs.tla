---------------------------- MODULE UploadProofs ----------------------------
(***************************************************************************)
(* Proofs about uploads, for any pool of control blocks, batch and limits, *)
(* and whatever may go wrong.                                              *)
(***************************************************************************)
EXTENDS Upload, SequenceTheorems, TLAPS

-----------------------------------------------------------------------------
(* States *)

Blocks == {"none", "header", "open", "element,", "element", "close"}
Phases == {"HTTP_HEADER", "JSON_HEADER", "JSON_DATA", "JSON_FOOTER", "WAIT_BEFORE_CLOSE",
           "CLOSE", "CLOSED"}
TcpStates == {"CLOSED", "SYN_SENT", "ESTABLISHED", "CLOSE_WAIT", "FIN_WAIT_1", "FIN_WAIT_2",
              "CLOSING", "LAST_ACK", "TIME_WAIT"}
PcbRecord == [state : TcpStates, arg : BOOLEAN, rxclosed : BOOLEAN]
TcpRecord == [pcb : Pcbs \cup {NoPcb}, connected : BOOLEAN, output_phase : Phases,
              records_index : Nat, records_count : 0 .. MaxBatch, block : Blocks,
              left : 0 .. Pieces, wait : 0 .. WaitBeforeClose + 2, write_err : Nat,
              request : Seq(Blocks)]
UpStates == [active : BOOLEAN, countdown : 0 .. UploadWait, tcp : TcpRecord,
             pcb : [Pcbs -> PcbRecord], pool : SUBSET Pcbs, bogus : BOOLEAN, unread : BOOLEAN]

\* The block number k of a request for n records
Expected(n, k) ==
    IF k = 1 THEN "header" ELSE IF k = 2 THEN "open" ELSE IF k = n + 3 THEN "close"
    ELSE IF k - 2 < n THEN "element," ELSE "element"

\* How many blocks server_tcp_out has put into the buffer so far
Loaded(t) ==
    IF t.output_phase = "HTTP_HEADER" THEN 0
    ELSE IF t.output_phase = "JSON_HEADER" THEN 1
    ELSE IF t.output_phase = "JSON_DATA" THEN t.records_index + 2
    ELSE IF t.output_phase = "JSON_FOOTER" THEN t.records_count + 2
    ELSE t.records_count + 3

\* The phase, the index and the buffer say which blocks TCP has, and these are
\* the first of the request.
InRequest(t) ==
    /\ t.output_phase \in {"HTTP_HEADER", "JSON_HEADER"} => t.records_index = 0
    /\ t.output_phase = "JSON_DATA" => t.records_index <= t.records_count
    /\ t.output_phase \in Phases \ {"HTTP_HEADER", "JSON_HEADER", "JSON_DATA"}
         => t.records_index = t.records_count + 1
    /\ t.left = 0 => Len(t.request) = Loaded(t)
    /\ t.left > 0 => Len(t.request) + 1 = Loaded(t) /\ t.block = Expected(t.records_count, Loaded(t))
    /\ \A k \in 1 .. Len(t.request) : t.request[k] = Expected(t.records_count, k)
Waited(t) ==
    /\ t.wait > 0 => t.output_phase \in {"WAIT_BEFORE_CLOSE", "CLOSE", "CLOSED"} /\ t.left = 0
    /\ t.output_phase = "WAIT_BEFORE_CLOSE" => t.wait <= WaitBeforeClose + 1
    /\ t.output_phase \in {"CLOSE", "CLOSED"} => t.wait > 0

Live(s, p) == p \notin s.pool /\ s.pcb[p].state # "CLOSED"

\* A connection that can call back is that of the active upload.
Current(s) == \A p \in Pcbs : Live(s, p) /\ s.pcb[p].arg => s.active /\ p = s.tcp.pcb

\* What counts as connected has, or had, a connection.
Linked(s) ==
    s.tcp.connected => s.tcp.pcb \in Pcbs /\ (s.tcp.pcb \notin s.pool => s.pcb[s.tcp.pcb].state # "CLOSED")

UpGood(s) == s \in UpStates /\ InRequest(s.tcp) /\ Waited(s.tcp) /\ Current(s) /\ Linked(s)

\* The inductive invariant
UploadInv == UpGood(State)

-----------------------------------------------------------------------------
(* What changes a control block *)

\* The struct server_tcp is replaced.
WithTcp(s, u) == [s EXCEPT !.tcp = u]

\* server_tcp_out keeps the state good when it changes only how far the request
\* has come.
LEMMA TcpOnly ==
    ASSUME NEW s, UpGood(s), NEW u \in TcpRecord, u.pcb = s.tcp.pcb, u.connected = s.tcp.connected,
           InRequest(u), Waited(u)
    PROVE  UpGood(WithTcp(s, u))
<1> DEFINE t == WithTcp(s, u)
<1>1. /\ t \in UpStates /\ t.tcp = u /\ t.pcb = s.pcb /\ t.pool = s.pool /\ t.active = s.active
    BY DEF WithTcp, UpGood, UpStates
<1>2. Current(t)
    BY <1>1 DEF UpGood, Current, Live
<1>3. Linked(t)
    BY <1>1 DEF UpGood, Linked
<1> QED  BY <1>1, <1>2, <1>3 DEF UpGood

\* t differs from s in the state x of one control block only.
Moved(s, t, p, x) ==
    /\ t \in UpStates /\ t.tcp = s.tcp /\ t.active = s.active /\ t.countdown = s.countdown
    /\ t.pool = s.pool /\ t.bogus = s.bogus /\ t.unread = s.unread
    /\ t.pcb[p].state = x /\ t.pcb[p].arg = s.pcb[p].arg
    /\ t.pcb[p].rxclosed = s.pcb[p].rxclosed
    /\ \A q \in Pcbs \ {p} : t.pcb[q] = s.pcb[q]

\* A change of state keeps everything else.
LEMMA GotoFields ==
    ASSUME NEW s \in UpStates, NEW p \in Pcbs, NEW x \in TcpStates
    PROVE  Moved(s, Goto(s, p, x), p, x)
BY DEF Goto, UpStates, PcbRecord, Moved

\* So does memp_free.
LEMMA FreeFields ==
    ASSUME NEW s \in UpStates, NEW p \in Pcbs
    PROVE  LET t == Free(s, p)
           IN  /\ t \in UpStates /\ t.tcp = s.tcp /\ t.active = s.active /\ t.countdown = s.countdown
               /\ t.pool = s.pool \cup {p} /\ t.pcb = s.pcb /\ t.unread = s.unread
<1> DEFINE b == s.bogus \/ p \in s.pool
<1>1. b \in BOOLEAN
    OBVIOUS
<1>2. PICK c \in BOOLEAN : c = b
    BY <1>1
<1>3. Free(s, p) = [s EXCEPT !.pool = s.pool \cup {p}, !.bogus = c]
    BY <1>2, Zenon DEF Free
<1> HIDE DEF b
<1> QED  BY <1>3, ZenonT(40) DEF UpStates

\* Freeing a control block keeps the state good.
LEMMA FreeGood ==
    ASSUME NEW s, UpGood(s), NEW p \in Pcbs
    PROVE  UpGood(Free(s, p)) /\ Free(s, p).tcp = s.tcp /\ Free(s, p).active = s.active
<1> DEFINE t == Free(s, p)
<1>1. s \in UpStates
    BY DEF UpGood
<1>2. /\ t \in UpStates /\ t.tcp = s.tcp /\ t.active = s.active /\ t.pool = s.pool \cup {p} /\ t.pcb = s.pcb
    BY <1>1, FreeFields
<1>3. Current(t) /\ Linked(t)
    BY <1>2 DEF UpGood, Current, Live, Linked
<1> QED  BY <1>2, <1>3 DEF UpGood

\* As does freeing one that has been set to CLOSED before.
LEMMA FreeClosedGood ==
    ASSUME NEW s, UpGood(s), NEW p \in Pcbs
    PROVE  LET t == Free(Goto(s, p, "CLOSED"), p)
           IN  UpGood(t) /\ t.tcp = s.tcp /\ t.active = s.active
<1> DEFINE g == Goto(s, p, "CLOSED")
           t == Free(g, p)
<1>1. s \in UpStates
    BY DEF UpGood
<1>2. /\ g \in UpStates /\ g.tcp = s.tcp /\ g.active = s.active /\ g.pool = s.pool
      /\ \A q \in Pcbs \ {p} : g.pcb[q] = s.pcb[q]
    <2>1. "CLOSED" \in TcpStates
        BY DEF TcpStates
    <2>2. Moved(s, g, p, "CLOSED")
        BY <1>1, <2>1, GotoFields, Zenon
    <2> HIDE DEF g
    <2> QED  BY <2>2 DEF Moved
<1>3. /\ t \in UpStates /\ t.tcp = g.tcp /\ t.active = g.active /\ t.pool = g.pool \cup {p} /\ t.pcb = g.pcb
    BY <1>2, FreeFields
<1> HIDE DEF g, t
<1>4. Current(t) /\ Linked(t)
    BY <1>2, <1>3 DEF UpGood, Current, Live, Linked
<1> QED  BY <1>2, <1>3, <1>4 DEF UpGood, t, g

-----------------------------------------------------------------------------
(* Closing *)

\* What tcp_close leaves: it touches one control block, and that is free or not
\* CLOSED afterwards.
Shut(s, t, p) ==
    /\ t \in UpStates /\ t.tcp = s.tcp /\ t.active = s.active
    /\ \A q \in Pcbs \ {p} : t.pcb[q] = s.pcb[q] /\ (q \in s.pool => q \in t.pool)
    /\ t.pcb[p].arg = s.pcb[p].arg
    /\ p \in s.pool => p \in t.pool
    /\ p \in t.pool \/ t.pcb[p].state # "CLOSED"

\* Whatever way tcp_close takes, this is what it leaves.
LEMMA CloseShuts ==
    ASSUME NEW s \in UpStates, NEW p \in Pcbs, NEW r \in TcpClose(s, p)
    PROVE  Shut(s, r.s, p)
<1> DEFINE t == [s EXCEPT !.pcb[p].rxclosed = TRUE]
<1>1. /\ t \in UpStates /\ t.tcp = s.tcp /\ t.active = s.active /\ t.pool = s.pool
      /\ t.pcb[p].arg = s.pcb[p].arg /\ t.pcb[p].state = s.pcb[p].state
      /\ \A q \in Pcbs \ {p} : t.pcb[q] = s.pcb[q]
    BY DEF UpStates, PcbRecord
<1> HIDE DEF t
<1>2. s.pcb[p].state \in TcpStates
    BY DEF UpStates, PcbRecord
<1>3. ASSUME NEW x \in TcpStates \ {"CLOSED"}
      PROVE  Shut(s, Goto(t, p, x), p)
    <2>1. /\ Goto(t, p, x) \in UpStates /\ Goto(t, p, x).tcp = t.tcp /\ Goto(t, p, x).active = t.active
          /\ Goto(t, p, x).pool = t.pool /\ Goto(t, p, x).pcb[p].state = x
          /\ Goto(t, p, x).pcb[p].arg = t.pcb[p].arg
          /\ \A q \in Pcbs \ {p} : Goto(t, p, x).pcb[q] = t.pcb[q]
        <3>1. Moved(t, Goto(t, p, x), p, x)
            BY <1>1, GotoFields
        <3> QED  BY <3>1 DEF Moved
    <2> QED  BY <1>1, <2>1 DEF Shut
<1>4. ASSUME s.pcb[p].state # "CLOSED"
      PROVE  Shut(s, t, p)
    BY <1>1, <1>4 DEF Shut
<1>5. Shut(s, Free(t, p), p)
    BY <1>1, FreeFields DEF Shut
<1>6. Shut(s, Free(Goto(t, p, "CLOSED"), p), p)
    <2> DEFINE g == Goto(t, p, "CLOSED")
    <2>1. /\ g \in UpStates /\ g.tcp = t.tcp /\ g.active = t.active
          /\ g.pool = t.pool /\ g.pcb[p].arg = t.pcb[p].arg
          /\ \A q \in Pcbs \ {p} : g.pcb[q] = t.pcb[q]
        <3>1. t \in UpStates /\ "CLOSED" \in TcpStates
            BY <1>1 DEF TcpStates
        <3>2. Moved(t, g, p, "CLOSED")
            BY <3>1, GotoFields, Zenon
        <3> HIDE DEF g
        <3> QED  BY <3>2 DEF Moved
    <2> HIDE DEF g
    <2>2. Shut(s, Free(g, p), p)
        BY <1>1, <2>1, FreeFields DEF Shut
    <2> QED  BY <2>2 DEF g
<1>7. \/ r = [ok |-> TRUE, s |-> Goto(t, p, "TIME_WAIT")]
      \/ r = [ok |-> TRUE, s |-> Free(t, p)]
      \/ r = [ok |-> TRUE, s |-> Free(Goto(t, p, "CLOSED"), p)]
      \/ r = [ok |-> TRUE, s |-> Goto(t, p, "FIN_WAIT_1")]
      \/ r = [ok |-> TRUE, s |-> Goto(t, p, "LAST_ACK")]
      \/ s.pcb[p].state # "CLOSED" /\ (r = [ok |-> TRUE, s |-> t] \/ r = [ok |-> FALSE, s |-> t])
    BY Zenon DEF TcpClose, Ok, OrNoMemory, t
<1>8. /\ Shut(s, Goto(t, p, "TIME_WAIT"), p) /\ Shut(s, Goto(t, p, "FIN_WAIT_1"), p)
      /\ Shut(s, Goto(t, p, "LAST_ACK"), p)
    BY <1>3 DEF TcpStates
<1>9. PICK x : Shut(s, x, p) /\ (r = [ok |-> TRUE, s |-> x] \/ r = [ok |-> FALSE, s |-> x])
    BY <1>4, <1>5, <1>6, <1>7, <1>8, Zenon
<1>10. r.s = x
    BY <1>9
<1> QED  BY <1>9, <1>10

\* server_tcp_close_conn on the connection of the upload.
LEMMA CloseConnGood ==
    ASSUME NEW s, UpGood(s), NEW p \in Pcbs, p = s.tcp.pcb, NEW t \in CloseConn(s, p)
    PROVE  UpGood(t) /\ t.tcp = s.tcp
<1> DEFINE a == [s EXCEPT !.pcb[p].arg = FALSE]
<1>1. /\ a \in UpStates /\ a.tcp = s.tcp /\ a.active = s.active /\ a.pool = s.pool
      /\ a.pcb[p].arg = FALSE /\ a.pcb[p].state = s.pcb[p].state
      /\ \A q \in Pcbs \ {p} : a.pcb[q] = s.pcb[q]
    BY DEF UpGood, UpStates, PcbRecord
<1>2. PICK r \in TcpClose(a, p) : t = UploadEnd(r.s) \/ t = r.s
    BY Zenon DEF CloseConn
<1> HIDE DEF a
<1>3. Shut(a, r.s, p)
    BY <1>1, CloseShuts
<1> DEFINE c == r.s
<1>c. c \in UpStates
    BY <1>3 DEF Shut
<1>w. UploadWait \in 0 .. UploadWait
    BY UploadAssumption
<1>4. UploadEnd(c) \in UpStates /\ UploadEnd(c).tcp = c.tcp /\ UploadEnd(c).pcb = c.pcb /\ UploadEnd(c).pool = c.pool
    BY <1>c, <1>w DEF UploadEnd, UpStates
<1>5. /\ t \in UpStates /\ t.tcp = s.tcp /\ t.pcb = c.pcb /\ t.pool = c.pool
    BY <1>1, <1>2, <1>3, <1>4 DEF Shut
<1>6. \A q \in Pcbs : ~(Live(t, q) /\ t.pcb[q].arg)
    BY <1>1, <1>3, <1>5 DEF Shut, UpGood, Current, Live
<1>7. Linked(t)
    BY <1>1, <1>3, <1>5 DEF Shut, Linked
<1> QED  BY <1>5, <1>6, <1>7 DEF UpGood, Current

\* server_tcp_err, whichever connection it is called for.
LEMMA EventErrGood ==
    ASSUME NEW s, UpGood(s), NEW p \in Pcbs, NEW t \in EventErr(s, p)
    PROVE  /\ UpGood(t) /\ t.tcp.pcb = s.tcp.pcb
           /\ s.tcp.pcb = NoPcb => t.active = s.active
<1> DEFINE u == [s.tcp EXCEPT !.connected = FALSE]
           w == WithTcp(s, u)
<1>1. u \in TcpRecord /\ u.pcb = s.tcp.pcb /\ u.connected = FALSE
    BY DEF UpGood, UpStates, TcpRecord
<1>2. InRequest(u) /\ Waited(u)
    BY DEF UpGood, UpStates, TcpRecord, InRequest, Waited, Loaded
<1>3. w = [s EXCEPT !.tcp.connected = FALSE]
    BY DEF WithTcp, UpGood, UpStates, TcpRecord
<1>4. /\ w \in UpStates /\ w.tcp = u /\ w.pcb = s.pcb /\ w.pool = s.pool /\ w.active = s.active
    BY <1>1 DEF WithTcp, UpGood, UpStates
<1> HIDE DEF w, u
<1>5. UpGood(w)
    BY <1>1, <1>2, <1>4 DEF UpGood, Current, Live, Linked
<1>6. CASE t \in ServerTcpErr(s)
    <2>1. IF w.tcp.pcb # NoPcb THEN t \in CloseConn(w, w.tcp.pcb) ELSE t = w
        BY <1>3, <1>6, Zenon DEF ServerTcpErr
    <2>2. CASE w.tcp.pcb # NoPcb
        <3>1. w.tcp.pcb \in Pcbs
            BY <1>4, <2>2 DEF UpStates, TcpRecord
        <3>2. UpGood(t) /\ t.tcp = w.tcp
            BY <1>5, <2>1, <2>2, <3>1, CloseConnGood
        <3> QED  BY <1>1, <1>4, <2>2, <3>2
    <2>3. CASE w.tcp.pcb = NoPcb
        BY <1>1, <1>4, <1>5, <2>1, <2>3
    <2> QED  BY <2>2, <2>3
<1>7. t \in ServerTcpErr(s) \/ t = s
    BY Zenon DEF EventErr
<1> QED  BY <1>6, <1>7

\* tcp_abort
LEMMA AbortGood ==
    ASSUME NEW s, UpGood(s), NEW p \in Pcbs, NEW t \in Abort(s, p)
    PROVE  /\ UpGood(t) /\ t.tcp.pcb = s.tcp.pcb
           /\ s.tcp.pcb = NoPcb => t.active = s.active
<1> DEFINE f == Free(Goto(s, p, "CLOSED"), p)
<1>1. UpGood(f) /\ f.tcp = s.tcp /\ f.active = s.active
    BY FreeClosedGood
<1>2. t = f \/ t \in EventErr(f, p)
    BY Zenon DEF Abort
<1> HIDE DEF f
<1> QED  BY <1>1, <1>2, EventErrGood

-----------------------------------------------------------------------------
(* Writing the request *)

\* How server_current_tcp_out changes the struct: no write succeeds, the whole of
\* the buffer is taken, or a part of it.
Failing(u) == [u EXCEPT !.write_err = Min2(@ + 1, MaxWriteErr + 1)]
Emptied(u) == [u EXCEPT !.left = 0, !.request = Append(@, u.block)]
Reduced(u, n) == [u EXCEPT !.left = @ - n, !.write_err = 0]

\* The struct is good.
TcpGood(u) == u \in TcpRecord /\ InRequest(u) /\ Waited(u)

\* v is u with another place in the request.
Follows(u, v) == TcpGood(v) /\ v.pcb = u.pcb /\ v.connected = u.connected

\* A failed tcp_write leaves the place in the request.
LEMMA FailingGood ==
    ASSUME NEW u, TcpGood(u)
    PROVE  Follows(u, Failing(u))
<1>1. Min2(u.write_err + 1, MaxWriteErr + 1) \in Nat
    BY UploadAssumption DEF TcpGood, TcpRecord, Min2
<1>2. PICK n \in Nat : n = Min2(u.write_err + 1, MaxWriteErr + 1)
    BY <1>1
<1>3. Failing(u) = [u EXCEPT !.write_err = n]
    BY <1>2 DEF Failing
<1> QED  BY <1>3 DEF Follows, TcpGood, TcpRecord, InRequest, Waited, Loaded

\* So does a write that takes a part of the block.
LEMMA ReducedGood ==
    ASSUME NEW u, TcpGood(u), NEW n \in Nat, 0 < n, n < u.left
    PROVE  Follows(u, Reduced(u, n))
<1>1. u.left - n \in 0 .. Pieces /\ u.left - n > 0 /\ u.left > 0
    BY UploadAssumption DEF TcpGood, TcpRecord
<1>2. PICK m \in 0 .. Pieces : m = u.left - n
    BY <1>1
<1>3. Reduced(u, n) = [u EXCEPT !.left = m, !.write_err = 0]
    BY <1>2 DEF Reduced
<1> DEFINE v == [u EXCEPT !.left = m, !.write_err = 0]
<1>4. /\ v \in TcpRecord /\ v.pcb = u.pcb /\ v.connected = u.connected /\ v.left = m /\ v.block = u.block
      /\ v.output_phase = u.output_phase /\ v.records_index = u.records_index /\ v.request = u.request
      /\ v.records_count = u.records_count /\ v.wait = u.wait
    BY DEF TcpGood, TcpRecord
<1> HIDE DEF v
<1>5. Loaded(v) = Loaded(u)
    BY <1>4 DEF Loaded
<1>6. InRequest(v) /\ Waited(v)
    BY <1>1, <1>2, <1>4, <1>5 DEF TcpGood, InRequest, Waited
<1> QED  BY <1>3, <1>4, <1>6 DEF Follows, TcpGood, v

\* A write that takes the rest adds the block to the request.
LEMMA EmptiedGood ==
    ASSUME NEW u, TcpGood(u), u.left > 0
    PROVE  Follows(u, Emptied(u)) /\ Emptied(u).left = 0
<1> DEFINE v == Emptied(u)
           r == Append(u.request, u.block)
<1>1. r \in Seq(Blocks) /\ Len(r) = Len(u.request) + 1 /\ r[Len(r)] = u.block
      /\ \A k \in 1 .. Len(u.request) : r[k] = u.request[k]
    BY DEF TcpGood, TcpRecord
<1>0. v = [u EXCEPT !.left = 0, !.request = r] /\ 0 \in 0 .. Pieces
    BY UploadAssumption DEF Emptied
<1> HIDE DEF r
<1>2. /\ v \in TcpRecord /\ v.pcb = u.pcb /\ v.connected = u.connected /\ v.left = 0 /\ v.request = r
      /\ v.output_phase = u.output_phase /\ v.records_index = u.records_index
      /\ v.records_count = u.records_count /\ v.wait = u.wait
    BY <1>0, <1>1 DEF TcpGood, TcpRecord
<1> HIDE DEF v
<1>3. Loaded(v) = Loaded(u)
    BY <1>2 DEF Loaded
<1>4. Len(u.request) \in Nat /\ Len(u.request) + 1 = Loaded(u) /\ u.block = Expected(u.records_count, Loaded(u))
    BY DEF TcpGood, TcpRecord, InRequest
<1>5. ASSUME NEW k \in 1 .. Len(r)
      PROVE  r[k] = Expected(u.records_count, k)
    <2>1. CASE k = Len(r)
        BY <1>1, <1>4, <2>1
    <2>2. CASE k # Len(r)
        <3>1. k \in 1 .. Len(u.request)
            BY <1>1, <1>4, <2>2
        <3> QED  BY <1>1, <3>1 DEF TcpGood, InRequest
    <2> QED  BY <2>1, <2>2
<1>6. InRequest(v)
    BY <1>1, <1>2, <1>3, <1>4, <1>5 DEF TcpGood, InRequest
<1>7. Waited(v)
    BY <1>2 DEF TcpGood, TcpRecord, Waited
<1> QED  BY <1>2, <1>6, <1>7 DEF Follows, TcpGood, v

\* A struct that follows another one keeps the state good.
LEMMA FollowsGood ==
    ASSUME NEW s, UpGood(s), NEW u, Follows(s.tcp, u)
    PROVE  /\ UpGood(WithTcp(s, u)) /\ WithTcp(s, u).tcp = u
           /\ u.pcb = s.tcp.pcb /\ u.connected = s.tcp.connected
<1>1. UpGood(WithTcp(s, u))
    BY TcpOnly DEF Follows, TcpGood
<1> QED  BY <1>1 DEF Follows, WithTcp, UpGood, UpStates

\* server_current_tcp_out
LEMMA CurrentOutCases ==
    ASSUME NEW s, UpGood(s), NEW p, NEW r \in CurrentOut(s, p)
    PROVE  \/ s.tcp.left = 0 /\ r.s = s
           \/ ~r.ok /\ s.tcp.left > 0 /\ r.s = WithTcp(s, Failing(s.tcp))
           \/ /\ ~r.ok /\ 0 \in Writes(s, p) /\ Failing(s.tcp).write_err > MaxWriteErr
              /\ r.s \in CloseConn(WithTcp(s, Failing(s.tcp)), p)
           \/ s.tcp.left > 0 /\ r.s = WithTcp(s, Emptied(s.tcp))
           \/ ~r.ok /\ \E n \in Nat : 0 < n /\ n < s.tcp.left /\ r.s = WithTcp(s, Reduced(s.tcp, n))
<1> DEFINE failing == [s EXCEPT !.tcp.write_err = Min2(@ + 1, MaxWriteErr + 1)]
           wrote(n) == [s EXCEPT !.tcp.left = @ - n]
<1>1. s \in UpStates /\ s.tcp \in TcpRecord /\ s.tcp.left \in 0 .. Pieces
    BY DEF UpGood, UpStates, TcpRecord
<1>2. failing = WithTcp(s, Failing(s.tcp))
    BY <1>1 DEF WithTcp, Failing, UpStates, TcpRecord
<1>3. [wrote(s.tcp.left) EXCEPT !.tcp.request = Append(@, s.tcp.block)] = WithTcp(s, Emptied(s.tcp))
    <2>0. s.tcp.left - s.tcp.left = 0
        BY <1>1, UploadAssumption
    <2>1. wrote(s.tcp.left) = WithTcp(s, [s.tcp EXCEPT !.left = 0])
        BY <1>1, <2>0 DEF WithTcp, UpStates, TcpRecord
    <2>2. PICK q : q = Append(s.tcp.request, s.tcp.block)
        OBVIOUS
    <2>3. [WithTcp(s, [s.tcp EXCEPT !.left = 0]) EXCEPT !.tcp.request = Append(@, s.tcp.block)]
            = WithTcp(s, [s.tcp EXCEPT !.left = 0, !.request = q])
        BY <1>1, <2>2 DEF WithTcp, UpStates, TcpRecord
    <2> QED  BY <2>1, <2>2, <2>3 DEF Emptied
<1>4. ASSUME NEW n
      PROVE  [wrote(n) EXCEPT !.tcp.write_err = 0] = WithTcp(s, Reduced(s.tcp, n))
    BY <1>1 DEF WithTcp, Reduced, UpStates, TcpRecord
<1>5. CASE s.tcp.left = 0
    <2>1. r = [ok |-> TRUE, s |-> s]
        BY <1>5, Zenon DEF CurrentOut, Ok
    <2> QED  BY <1>5, <2>1
<1>6. CASE s.tcp.left # 0
    <2>1. PICK n \in Writes(s, p) :
            r \in IF n = 0
                  THEN {[ok |-> FALSE, s |-> t] : t \in IF failing.tcp.write_err > MaxWriteErr
                                                        THEN CloseConn(failing, p) ELSE {failing}}
                  ELSE IF n = s.tcp.left
                  THEN Ok([wrote(n) EXCEPT !.tcp.request = Append(@, s.tcp.block)])
                  ELSE {[ok |-> FALSE, s |-> [wrote(n) EXCEPT !.tcp.write_err = 0]]}
        BY <1>6, Zenon DEF CurrentOut
    <2>2. n \in 0 .. s.tcp.left
        BY <1>1, <2>1 DEF Writes
    <2>3. CASE n = 0
        <3>1. PICK t : /\ r = [ok |-> FALSE, s |-> t]
                       /\ t = failing \/ (failing.tcp.write_err > MaxWriteErr /\ t \in CloseConn(failing, p))
            BY <2>1, <2>3, Zenon
        <3>2. failing.tcp = Failing(s.tcp) /\ s.tcp.left > 0 /\ 0 \in Writes(s, p)
            BY <1>1, <1>2, <1>6, <2>1, <2>3 DEF WithTcp, UpStates
        <3>3. ~r.ok /\ r.s = t
            BY <3>1
        <3> QED  BY <1>2, <3>1, <3>2, <3>3
    <2>4. CASE n # 0 /\ n = s.tcp.left
        <3>1. r = [ok |-> TRUE, s |-> [wrote(s.tcp.left) EXCEPT !.tcp.request = Append(@, s.tcp.block)]]
            BY <2>1, <2>4, Zenon DEF Ok
        <3> QED  BY <1>1, <1>3, <1>6, <3>1
    <2>5. CASE n # 0 /\ n # s.tcp.left
        <3>1. r = [ok |-> FALSE, s |-> [wrote(n) EXCEPT !.tcp.write_err = 0]]
            BY <2>1, <2>5, Zenon
        <3>2. n \in Nat /\ 0 < n /\ n < s.tcp.left
            BY <1>1, <2>2, <2>5
        <3> QED  BY <1>4, <3>1, <3>2
    <2> QED  BY <2>3, <2>4, <2>5
<1> QED  BY <1>5, <1>6

\* server_current_tcp_out keeps the state good.
LEMMA CurrentOutGood ==
    ASSUME NEW s, UpGood(s), NEW p \in Pcbs, p = s.tcp.pcb, NEW r \in CurrentOut(s, p)
    PROVE  /\ UpGood(r.s) /\ r.s.tcp.pcb = s.tcp.pcb /\ r.s.tcp.connected = s.tcp.connected
           /\ r.ok => r.s.tcp.left = 0
<1>1. TcpGood(s.tcp)
    BY DEF UpGood, UpStates, TcpGood
<1>2. CASE s.tcp.left = 0 /\ r.s = s
    BY <1>2
<1> DEFINE f == WithTcp(s, Failing(s.tcp))
<1>3. UpGood(f) /\ f.tcp.pcb = s.tcp.pcb /\ f.tcp.connected = s.tcp.connected
    BY <1>1, FailingGood, FollowsGood
<1>4. CASE ~r.ok /\ (r.s = f \/ r.s \in CloseConn(f, p))
    BY <1>3, <1>4, CloseConnGood
<1>5. CASE s.tcp.left > 0 /\ r.s = WithTcp(s, Emptied(s.tcp))
    BY <1>1, <1>5, EmptiedGood, FollowsGood
<1>6. CASE ~r.ok /\ \E n \in Nat : 0 < n /\ n < s.tcp.left /\ r.s = WithTcp(s, Reduced(s.tcp, n))
    BY <1>1, <1>6, ReducedGood, FollowsGood
<1> QED  BY <1>2, <1>4, <1>5, <1>6, CurrentOutCases

\* The switch of server_tcp_out puts a block into the buffer.
Filled(u, block, phase) == [u EXCEPT !.block = block, !.left = Pieces, !.output_phase = phase]

\* One more block is loaded, and it is the one expected.
Put(u, i, block, phase) == Filled([u EXCEPT !.records_index = i], block, phase)
Fits(u, i, block, phase) ==
    /\ TcpGood(u) /\ u.left = 0 /\ u.wait = 0
    /\ i \in Nat /\ block \in Blocks /\ phase \in Phases \ {"CLOSE", "CLOSED"}
    /\ Loaded(Put(u, i, block, phase)) = Loaded(u) + 1
    /\ block = Expected(u.records_count, Loaded(u) + 1)
    /\ phase \in {"HTTP_HEADER", "JSON_HEADER"} => i = 0
    /\ phase = "JSON_DATA" => i <= u.records_count
    /\ phase \in Phases \ {"HTTP_HEADER", "JSON_HEADER", "JSON_DATA"} => i = u.records_count + 1

\* The next block of the request is put into the empty buffer.
LEMMA FilledGood ==
    ASSUME NEW u, NEW i, NEW block, NEW phase, Fits(u, i, block, phase)
    PROVE  Follows(u, Put(u, i, block, phase)) /\ Put(u, i, block, phase).output_phase # "CLOSED"
<1> DEFINE v == Put(u, i, block, phase)
<1>1. Pieces \in 0 .. Pieces /\ Pieces > 0
    BY UploadAssumption
<1>2. /\ v \in TcpRecord /\ v.pcb = u.pcb /\ v.connected = u.connected /\ v.left = Pieces
      /\ v.block = block /\ v.output_phase = phase /\ v.records_index = i /\ v.request = u.request
      /\ v.records_count = u.records_count /\ v.wait = 0
    BY <1>1 DEF TcpGood, TcpRecord, Filled, Put, Fits
<1>0. Loaded(v) = Loaded(u) + 1
    BY DEF Fits
<1> HIDE DEF v
<1>3. InRequest(v)
    BY <1>0, <1>1, <1>2 DEF TcpGood, InRequest, Fits
<1>4. Waited(v)
    BY <1>2, UploadAssumption DEF Waited, Fits
<1> QED  BY <1>2, <1>3, <1>4 DEF Follows, TcpGood, v, Fits

\* The comma follows every record but the last.
LEMMA ElementExpected ==
    ASSUME NEW n \in Nat, NEW i \in Nat, 0 < i, i <= n
    PROVE  (IF i < n THEN "element," ELSE "element") = Expected(n, i + 2)
<1> DEFINE k == i + 2
<1>1. k # 1 /\ k # 2 /\ k # n + 3 /\ k - 2 = i
    OBVIOUS
<1> HIDE DEF k
<1>2. Expected(n, k) = IF i < n THEN "element," ELSE "element"
    BY <1>1 DEF Expected
<1> QED  BY <1>2 DEF k

\* The switch of server_tcp_out, as long as it only concerns the struct
LEMMA NextBlockStruct ==
    ASSUME NEW s, UpGood(s), s.tcp.left = 0, s.tcp.output_phase # "CLOSE", NEW t \in NextBlock(s)
    PROVE  \E v : /\ Follows(s.tcp, v) /\ t = WithTcp(s, v)
                  /\ v.output_phase = "CLOSED" <=> s.tcp.output_phase = "CLOSED"
<1> DEFINE u == s.tcp
           phase == u.output_phase
           next == [s EXCEPT !.tcp.records_index = @ + 1]
<1>1. s \in UpStates /\ u \in TcpRecord /\ TcpGood(u) /\ phase \in Phases
      /\ u.records_index \in Nat /\ u.records_count \in Nat
    BY UploadAssumption, SMTT(20) DEF UpGood, UpStates, TcpGood, TcpRecord
<1>2. ASSUME NEW b, NEW x
      PROVE  Load(s, b, x) = WithTcp(s, Filled(u, b, x))
    BY <1>1 DEF Load, WithTcp, Filled, UpStates, TcpRecord
<1>3. phase # "WAIT_BEFORE_CLOSE" /\ phase # "CLOSED" => u.wait = 0
    BY <1>1 DEF TcpGood, Waited, TcpRecord
<1>4. CASE phase = "HTTP_HEADER"
    <2>1. u.records_index = 0
        BY <1>1, <1>4 DEF TcpGood, InRequest
    <2>2. Put(u, 0, "header", "JSON_HEADER") = Filled(u, "header", "JSON_HEADER")
        BY <1>1, <2>1 DEF TcpRecord, Filled, Put
    <2>3. /\ Loaded(Put(u, 0, "header", "JSON_HEADER")) = 1 /\ Loaded(u) = 0
          /\ "header" = Expected(u.records_count, 1)
        BY <1>1, <1>4 DEF Loaded, Filled, Put, TcpRecord, Expected
    <2>4. Fits(u, 0, "header", "JSON_HEADER")
        BY <1>1, <1>3, <1>4, <2>3 DEF Fits, Blocks, Phases
    <2>5. t = Load(s, "header", "JSON_HEADER")
        BY <1>4 DEF NextBlock
    <2> QED  BY <1>4, <1>2, <2>2, <2>4, <2>5, FilledGood
<1>5. CASE phase = "JSON_HEADER"
    <2>1. u.records_index = 0
        BY <1>1, <1>5 DEF TcpGood, InRequest
    <2>2. Put(u, 0, "open", "JSON_DATA") = Filled(u, "open", "JSON_DATA")
        BY <1>1, <2>1 DEF TcpRecord, Filled, Put
    <2>3. /\ Loaded(Put(u, 0, "open", "JSON_DATA")) = 2 /\ Loaded(u) = 1
          /\ "open" = Expected(u.records_count, 2)
        BY <1>1, <1>5 DEF Loaded, Filled, Put, TcpRecord, Expected
    <2>4. Fits(u, 0, "open", "JSON_DATA")
        BY <1>1, <1>3, <1>5, <2>3 DEF Fits, Blocks, Phases
    <2>5. t = Load(s, "open", "JSON_DATA")
        BY <1>5 DEF NextBlock
    <2> QED  BY <1>5, <1>2, <2>2, <2>4, <2>5, FilledGood
<1>6. CASE phase = "JSON_DATA" /\ MoreRecords(s)
    <2> DEFINE i == u.records_index + 1
               b == IF i < u.records_count THEN "element," ELSE "element"
               w == WithTcp(s, [u EXCEPT !.records_index = i])
    <2>1. next = w /\ next.tcp.records_index = i
        BY <1>1 DEF WithTcp, UpStates, TcpRecord
    <2>2. u.records_index < u.records_count
        BY <1>6 DEF MoreRecords
    <2>3. t = Load(next, b, "JSON_DATA")
        BY <1>6, <2>1 DEF NextBlock
    <2>4. Load(w, b, "JSON_DATA") = WithTcp(s, Put(u, i, b, "JSON_DATA"))
        BY <1>1 DEF Load, WithTcp, Filled, Put, UpStates, TcpRecord
    <2>5. /\ Loaded(Put(u, i, b, "JSON_DATA")) = i + 2 /\ Loaded(u) = u.records_index + 2
        BY <1>1, <1>6 DEF Loaded, Filled, Put, TcpRecord
    <2>6. i \in Nat /\ 0 < i /\ i <= u.records_count /\ u.wait = 0
        BY <1>1, <1>3, <1>6, <2>2
    <2>7. Loaded(u) + 1 = i + 2
        <3>1. PICK m \in Nat : m = u.records_index
            BY <1>1
        <3>2. Loaded(u) = m + 2 /\ i = m + 1
            BY <2>5, <3>1
        <3> HIDE DEF i
        <3> QED  BY <3>2
    <2> HIDE DEF i
    <2>8. b = Expected(u.records_count, i + 2) /\ b \in Blocks
        BY <1>1, <2>6, ElementExpected DEF Blocks
    <2> HIDE DEF b, w
    <2>9. Fits(u, i, b, "JSON_DATA")
        BY <1>1, <2>5, <2>6, <2>7, <2>8 DEF Fits, Phases
    <2> QED  BY <1>6, <2>1, <2>3, <2>4, <2>9, FilledGood
<1>7. CASE phase = "JSON_DATA" /\ ~MoreRecords(s)
    <2> DEFINE v == [u EXCEPT !.records_index = u.records_index + 1, !.output_phase = "JSON_FOOTER"]
    <2>1. u.records_index = u.records_count
        BY <1>1, <1>7 DEF MoreRecords, TcpGood, InRequest
    <2>2. t = [next EXCEPT !.tcp.output_phase = "JSON_FOOTER"]
        BY <1>7 DEF NextBlock
    <2>3. t = WithTcp(s, v)
        BY <1>1, <2>2 DEF WithTcp, UpStates, TcpRecord
    <2>4. /\ v \in TcpRecord /\ v.pcb = u.pcb /\ v.connected = u.connected /\ v.left = 0
          /\ v.output_phase = "JSON_FOOTER" /\ v.records_index = u.records_count + 1
          /\ v.request = u.request /\ v.records_count = u.records_count /\ v.wait = 0
        <3>1. u.wait = 0 /\ u.records_index + 1 \in Nat /\ "JSON_FOOTER" \in Phases
            BY <1>1, <1>3, <1>7 DEF Phases
        <3> QED  BY <1>1, <2>1, <3>1 DEF TcpRecord
    <2>5. Loaded(v) = Loaded(u)
        BY <1>7, <2>1, <2>4 DEF Loaded
    <2> HIDE DEF v
    <2>6. InRequest(v) /\ Waited(v)
        BY <1>1, <2>4, <2>5 DEF TcpGood, InRequest, Waited
    <2> QED  BY <1>7, <2>3, <2>4, <2>6 DEF Follows, TcpGood
<1>8. CASE phase = "JSON_FOOTER"
    <2> DEFINE n == u.records_count + 1
               x == "WAIT_BEFORE_CLOSE"
    <2>1. u.records_index = n
        BY <1>1, <1>8 DEF TcpGood, InRequest, Phases
    <2>2. Put(u, n, "close", x) = Filled(u, "close", x)
        BY <1>1, <2>1 DEF TcpRecord, Filled, Put
    <2>3. /\ Loaded(Put(u, n, "close", x)) = u.records_count + 3 /\ Loaded(u) = u.records_count + 2
          /\ "close" = Expected(u.records_count, u.records_count + 3)
        BY <1>1, <1>8 DEF Loaded, Filled, Put, TcpRecord, Expected
    <2>4. Fits(u, n, "close", x)
        BY <1>1, <1>3, <1>8, <2>3 DEF Fits, Blocks, Phases
    <2>5. t = Load(s, "close", x)
        BY <1>8 DEF NextBlock
    <2> QED  BY <1>8, <1>2, <2>2, <2>4, <2>5, FilledGood
<1>9. CASE phase = "WAIT_BEFORE_CLOSE"
    <2> DEFINE y == IF u.wait > WaitBeforeClose THEN "CLOSE" ELSE "WAIT_BEFORE_CLOSE"
               v == [u EXCEPT !.wait = u.wait + 1, !.output_phase = y]
    <2>1. u.wait \in 0 .. WaitBeforeClose + 1 /\ y \in {"CLOSE", "WAIT_BEFORE_CLOSE"}
        BY <1>1, <1>9, UploadAssumption DEF TcpGood, TcpRecord, Waited
    <2>2. t = WithTcp(s, v)
        BY <1>1, <1>9, ZenonT(40) DEF NextBlock, WithTcp, UpStates, TcpRecord
    <2>3. u.wait + 1 \in 0 .. WaitBeforeClose + 2 /\ (y = "WAIT_BEFORE_CLOSE" => u.wait <= WaitBeforeClose)
        BY <2>1, UploadAssumption
    <2>4. /\ v \in TcpRecord /\ v.pcb = u.pcb /\ v.connected = u.connected /\ v.left = 0
          /\ v.output_phase = y /\ v.records_index = u.records_index
          /\ v.request = u.request /\ v.records_count = u.records_count /\ v.wait = u.wait + 1
        BY <1>1, <2>1, <2>3, ZenonT(40) DEF TcpRecord, Phases
    <2> HIDE DEF v
    <2>5. Loaded(v) = Loaded(u)
        BY <1>9, <2>1, <2>4 DEF Loaded
    <2>6. InRequest(v)
        BY <1>1, <1>9, <2>1, <2>4, <2>5 DEF TcpGood, InRequest, Phases
    <2>7. Waited(v)
        BY <2>1, <2>3, <2>4, UploadAssumption DEF Waited
    <2> QED  BY <1>9, <2>2, <2>4, <2>6, <2>7 DEF Follows, TcpGood
<1>10. CASE phase = "CLOSED"
    <2>1. t = s /\ s = WithTcp(s, u)
        BY <1>1, <1>10 DEF NextBlock, WithTcp, UpStates
    <2> QED  BY <1>10, <1>1, <2>1 DEF Follows
<1> QED  BY <1>1, <1>4, <1>5, <1>6, <1>7, <1>8, <1>9, <1>10 DEF Phases

\* tcp_close at the end of the upload, on a connection that has not gone CLOSED.
LEMMA ShutGood ==
    ASSUME NEW s, UpGood(s), s.tcp.connected, NEW c, Shut(s, c, s.tcp.pcb)
    PROVE  UpGood(c) /\ c.tcp = s.tcp
<1>1. c \in UpStates /\ c.tcp = s.tcp /\ c.active = s.active
    BY DEF Shut
<1>2. ASSUME NEW q \in Pcbs, Live(c, q), c.pcb[q].arg
      PROVE  c.active /\ q = c.tcp.pcb
    <2>1. Live(s, q) /\ s.pcb[q].arg
        BY <1>2 DEF Shut, Live, UpGood, Linked
    <2> QED  BY <1>1, <2>1 DEF UpGood, Current
<1>3. Current(c) /\ Linked(c)
    BY <1>1, <1>2 DEF Current, Linked, Shut, UpGood
<1> QED  BY <1>1, <1>3 DEF UpGood

\* The next phase of server_tcp_out keeps the state good, also where it closes.
LEMMA NextBlockGood ==
    ASSUME NEW s, UpGood(s), s.tcp.connected, s.tcp.left = 0, NEW t \in NextBlock(s)
    PROVE  UpGood(t) /\ t.tcp.pcb = s.tcp.pcb
<1>1. CASE s.tcp.output_phase # "CLOSE"
    BY <1>1, NextBlockStruct, FollowsGood
<1>2. CASE s.tcp.output_phase = "CLOSE"
    <2>1. PICK r \in TcpClose(s, s.tcp.pcb) : t = [r.s EXCEPT !.tcp.output_phase = "CLOSED"]
        BY <1>2 DEF NextBlock
    <2>2. s \in UpStates /\ s.tcp.pcb \in Pcbs
        BY DEF UpGood, Linked
    <2> DEFINE c == r.s
               v == [c.tcp EXCEPT !.output_phase = "CLOSED"]
    <2>3. UpGood(c) /\ c.tcp = s.tcp
        BY <2>2, CloseShuts, ShutGood
    <2> HIDE DEF c
    <2>4. t = WithTcp(c, v)
        BY <2>1, <2>3 DEF WithTcp, c, UpGood, UpStates, TcpRecord
    <2>5. /\ v \in TcpRecord /\ v.pcb = c.tcp.pcb /\ v.connected = c.tcp.connected /\ v.left = 0
          /\ v.output_phase = "CLOSED" /\ v.records_index = c.tcp.records_index
          /\ v.request = c.tcp.request /\ v.records_count = c.tcp.records_count /\ v.wait = c.tcp.wait
        <3>1. c.tcp \in TcpRecord /\ c.tcp.left = 0
            BY <2>3 DEF UpGood, UpStates
        <3>2. v \in TcpRecord
            BY <3>1 DEF TcpRecord, Phases
        <3> QED  BY <3>1, <3>2 DEF TcpRecord
    <2> HIDE DEF v
    <2>6. Loaded(v) = Loaded(c.tcp)
        BY <1>2, <2>3, <2>5 DEF Loaded
    <2>7. InRequest(v) /\ Waited(v)
        <3>1. InRequest(c.tcp) /\ Waited(c.tcp) /\ c.tcp.output_phase = "CLOSE"
            BY <1>2, <2>3 DEF UpGood
        <3>2. c.tcp.left \in Nat
            BY <2>3, UploadAssumption DEF UpGood, UpStates, TcpRecord
        <3>3. c.tcp.wait > 0 /\ c.tcp.left = 0
            BY <3>1, <3>2 DEF Waited
        <3>4. InRequest(v)
            BY <2>5, <2>6, <3>1, <3>3 DEF InRequest, Phases
        <3>5. Waited(v)
            BY <2>5, <3>3 DEF Waited
        <3> QED  BY <3>4, <3>5
    <2>8. Follows(c.tcp, v)
        BY <2>5, <2>7 DEF Follows, TcpGood
    <2> QED  BY <2>3, <2>4, <2>8, FollowsGood
<1> QED  BY <1>1, <1>2

\* server_tcp_out, from server_tcp_service or server_tcp_sent
LEMMA TcpOutGood ==
    ASSUME NEW s, UpGood(s), NEW p, s.tcp.connected => p = s.tcp.pcb, NEW t \in TcpOut(s, p)
    PROVE  UpGood(t) /\ t.tcp.pcb = s.tcp.pcb
<1>1. CASE ~s.tcp.connected
    <2>1. t = s
        BY <1>1, Zenon DEF TcpOut
    <2> QED  BY <2>1
<1>2. CASE s.tcp.connected
    <2>1. p \in Pcbs /\ p = s.tcp.pcb
        BY <1>2 DEF UpGood, Linked
    <2>2. PICK r \in CurrentOut(s, p) :
            t \in IF r.ok THEN UNION {{q.s : q \in CurrentOut(x, p)} : x \in NextBlock(r.s)} ELSE {r.s}
        BY <1>2, Zenon DEF TcpOut
    <2>3. /\ UpGood(r.s) /\ r.s.tcp.pcb = s.tcp.pcb /\ r.s.tcp.connected = s.tcp.connected
          /\ r.ok => r.s.tcp.left = 0
        BY <2>1, CurrentOutGood
    <2>4. CASE ~r.ok
        <3>1. t = r.s
            BY <2>2, <2>4, Zenon
        <3> QED  BY <2>3, <3>1
    <2>5. CASE r.ok
        <3>1. PICK x \in NextBlock(r.s) : \E q \in CurrentOut(x, p) : t = q.s
            BY <2>2, <2>5, Zenon
        <3>2. PICK q \in CurrentOut(x, p) : t = q.s
            BY <3>1
        <3>3. UpGood(x) /\ x.tcp.pcb = r.s.tcp.pcb
            BY <1>2, <2>3, <2>5, NextBlockGood
        <3>4. UpGood(q.s) /\ q.s.tcp.pcb = x.tcp.pcb
            BY <2>1, <2>3, <3>3, CurrentOutGood
        <3> QED  BY <2>3, <3>2, <3>3, <3>4
    <2> QED  BY <2>4, <2>5
<1> QED  BY <1>1, <1>2

-----------------------------------------------------------------------------
(* Segments and the start of an upload *)

\* A connection moves on.
LEMMA GotoGood ==
    ASSUME NEW s, UpGood(s), NEW p \in Pcbs, Live(s, p), NEW x \in TcpStates \ {"CLOSED"}
    PROVE  LET t == Goto(s, p, x)
           IN  /\ UpGood(t) /\ Live(t, p) /\ t.tcp = s.tcp /\ t.pcb[p].arg = s.pcb[p].arg
<1> DEFINE t == Goto(s, p, x)
<1>1. s \in UpStates
    BY DEF UpGood
<1>2. /\ t \in UpStates /\ t.tcp = s.tcp /\ t.active = s.active /\ t.pool = s.pool
      /\ t.pcb[p].state = x /\ t.pcb[p].arg = s.pcb[p].arg
      /\ \A q \in Pcbs \ {p} : t.pcb[q] = s.pcb[q]
    <2>1. Moved(s, t, p, x)
        BY <1>1, GotoFields
    <2> HIDE DEF t
    <2> QED  BY <2>1 DEF Moved
<1> HIDE DEF t
<1>3. Live(t, p)
    BY <1>2 DEF Live
<1>4. Current(t)
    BY <1>2 DEF UpGood, Current, Live
<1>5. Linked(t)
    BY <1>2 DEF UpGood, Linked
<1> QED  BY <1>2, <1>3, <1>4, <1>5 DEF UpGood, t

\* t is in order and may differ from s in unread.
Likewise(s, t) == UpGood(t) /\ t.tcp = s.tcp /\ t.pcb = s.pcb /\ t.pool = s.pool

\* Whether data are unread makes no difference.
LEMMA UnreadGood ==
    ASSUME NEW s, UpGood(s), NEW b \in BOOLEAN
    PROVE  Likewise(s, [s EXCEPT !.unread = b])
<1> DEFINE t == [s EXCEPT !.unread = b]
<1>1. /\ t \in UpStates /\ t.tcp = s.tcp /\ t.pcb = s.pcb /\ t.pool = s.pool /\ t.active = s.active
    BY DEF UpGood, UpStates
<1> HIDE DEF t
<1>2. Current(t) /\ Linked(t)
    BY <1>1 DEF UpGood, Current, Live, Linked
<1>3. Likewise(s, t)
    BY <1>1, <1>2 DEF UpGood, Likewise
<1> QED  BY <1>3 DEF t

\* tcp_input, when the callbacks are those of the upload or not set
LEMMA DeliverGood ==
    ASSUME NEW s, UpGood(s), NEW p \in Pcbs, s.pcb[p].arg => p = s.tcp.pcb,
           NEW g, NEW t \in Deliver(s, p, g)
    PROVE  UpGood(t)
<1>1. PICK u : /\ u \in IF g.ack THEN EventSent(s, p) ELSE {s}
               /\ t \in IF g.data /\ [u EXCEPT !.unread = FALSE].pcb[p].rxclosed
                        THEN Abort([u EXCEPT !.unread = FALSE], p)
                        ELSE IF g.fin THEN EventClosed([u EXCEPT !.unread = FALSE], p)
                        ELSE {[u EXCEPT !.unread = FALSE]}
    BY ZenonT(40) DEF Deliver
<1>2. UpGood(u) /\ (u.pcb[p].arg => p = u.tcp.pcb)
    <2>1. u = s \/ (s.pcb[p].arg /\ u \in TcpOut(s, p))
        <3>1. u \in IF g.ack THEN EventSent(s, p) ELSE {s}
            BY <1>1
        <3>2. u = s \/ u \in EventSent(s, p)
            BY <3>1, Zenon
        <3> QED  BY <3>2 DEF EventSent
    <2> QED  BY <2>1, TcpOutGood
<1> DEFINE v == [u EXCEPT !.unread = FALSE]
<1>3. UpGood(v) /\ v.tcp = u.tcp /\ v.pcb = u.pcb
    <2>1. Likewise(u, v)
        BY <1>2, UnreadGood, Zenon
    <2> HIDE DEF v
    <2> QED  BY <2>1 DEF Likewise
<1>4. t \in Abort(v, p) \/ (v.pcb[p].arg /\ t \in CloseConn(v, p)) \/ t = v
    BY <1>1, Zenon DEF EventClosed
<1> HIDE DEF v
<1> QED  BY <1>2, <1>3, <1>4, AbortGood, CloseConnGood

\* A control block is taken from the pool, and made that of the upload.
Fresh(t, p) == [t EXCEPT !.pool = @ \ {p}, !.pcb[p] = NewPcb]
Connecting(f, p) == [f EXCEPT !.tcp.pcb = p, !.pcb[p].arg = TRUE]

\* tcp_alloc, for a struct that has been cleared
LEMMA AllocGood ==
    ASSUME NEW s, UpGood(s), s.tcp.pcb = NoPcb, NEW r \in Alloc(s)
    PROVE  \E t : \E p \in Pcbs :
             /\ UpGood(t) /\ t.tcp.pcb = NoPcb /\ t.active = s.active
             /\ r.s = Fresh(t, p) /\ r.p = p
<1> DEFINE killable == {p \in Pcbs : s.pcb[p].state = "TIME_WAIT"}
           waiting == IF killable # {} THEN killable ELSE {p \in Pcbs : s.pcb[p].state # "CLOSED"}
<1>1. PICK t : /\ t \in IF s.pool = {} THEN UNION {Abort(s, p) : p \in waiting} ELSE {s}
               /\ \E p \in t.pool : r = [s |-> [t EXCEPT !.pool = @ \ {p}, !.pcb[p] = NewPcb], p |-> p]
    BY ZenonT(40) DEF Alloc
<1>2. t = s \/ \E p \in Pcbs : t \in Abort(s, p)
    BY <1>1, Zenon
<1>3. UpGood(t) /\ t.tcp.pcb = NoPcb /\ t.active = s.active
    BY <1>2, AbortGood
<1>4. t.pool \subseteq Pcbs
    BY <1>3 DEF UpGood, UpStates
<1>5. PICK p \in t.pool : r = [s |-> Fresh(t, p), p |-> p]
    BY <1>1, Zenon DEF Fresh
<1>6. r.s = Fresh(t, p) /\ r.p = p
    BY <1>5
<1> QED  BY <1>3, <1>4, <1>6, Zenon

\* tcp_connect on a new control block, and its failure
LEMMA ConnectGood ==
    ASSUME NEW t, UpGood(t), t.tcp.pcb = NoPcb, t.active, NEW p \in Pcbs
    PROVE  LET c == Connecting(Fresh(t, p), p)
           IN  UpGood(Goto(c, p, "SYN_SENT")) /\ UpGood(UploadEnd(c))
<1> DEFINE f == Fresh(t, p)
           c == Connecting(f, p)
           u == [t.tcp EXCEPT !.pcb = p]
<1>1. t \in UpStates /\ t.tcp \in TcpRecord /\ ~t.tcp.connected /\ \A q \in Pcbs : ~(Live(t, q) /\ t.pcb[q].arg)
    BY UploadAssumption DEF UpGood, UpStates, Current, Linked
<1>2. NewPcb \in PcbRecord
    BY DEF PcbRecord, NewPcb, TcpStates
<1>3. /\ f \in UpStates /\ f.tcp = t.tcp /\ f.pool = t.pool \ {p} /\ f.active = t.active
      /\ f.pcb[p] = NewPcb /\ \A q \in Pcbs \ {p} : f.pcb[q] = t.pcb[q]
    BY <1>1, <1>2 DEF Fresh, UpStates
<1>4. u \in TcpRecord /\ ~u.connected /\ u.pcb = p
    BY <1>1 DEF TcpRecord
<1>5. InRequest(u) /\ Waited(u)
    BY <1>1 DEF UpGood, InRequest, Waited, Loaded, TcpRecord
<1> HIDE DEF f
<1>6. /\ c \in UpStates /\ c.tcp = u /\ c.pool = t.pool \ {p} /\ c.active = t.active
      /\ c.pcb[p].state = "CLOSED" /\ \A q \in Pcbs \ {p} : c.pcb[q] = t.pcb[q]
    <2>1. c = [f EXCEPT !.tcp = u, !.pcb = [f.pcb EXCEPT ![p] = [f.pcb[p] EXCEPT !.arg = TRUE]]]
        BY <1>3 DEF Connecting, UpStates
    <2>2. [f.pcb[p] EXCEPT !.arg = TRUE] \in PcbRecord /\ [f.pcb[p] EXCEPT !.arg = TRUE].state = "CLOSED"
        <3>1. f.pcb[p] \in PcbRecord /\ f.pcb[p].state = "CLOSED"
            BY <1>2, <1>3 DEF NewPcb
        <3> QED  BY <3>1 DEF PcbRecord
    <2>3. PICK n \in PcbRecord : n = [f.pcb[p] EXCEPT !.arg = TRUE] /\ n.state = "CLOSED"
        BY <2>2
    <2>4. c = [f EXCEPT !.tcp = u, !.pcb = [f.pcb EXCEPT ![p] = n]]
        BY <2>1, <2>3
    <2> HIDE DEF c, u
    <2> QED  BY <1>3, <1>4, <2>3, <2>4 DEF UpStates
<1> HIDE DEF c, u
<1>7. PICK g : g = Goto(c, p, "SYN_SENT")
    OBVIOUS
<1>8. UpGood(g)
    <2>1. c \in UpStates /\ "SYN_SENT" \in TcpStates
        BY <1>6 DEF TcpStates
    <2>2. /\ g \in UpStates /\ g.tcp = c.tcp /\ g.active = c.active /\ g.pool = c.pool
          /\ \A q \in Pcbs \ {p} : g.pcb[q] = c.pcb[q]
        <3>1. Moved(c, g, p, "SYN_SENT")
            BY <1>7, <2>1, GotoFields
        <3> QED  BY <3>1 DEF Moved
    <2>3. g.tcp = u /\ g.active = t.active /\ g.pool = t.pool \ {p}
          /\ \A q \in Pcbs \ {p} : g.pcb[q] = t.pcb[q]
        BY <1>6, <2>2
    <2>4. Current(g)
        BY <1>1, <1>4, <2>3 DEF Current, Live
    <2> QED  BY <1>4, <1>5, <2>2, <2>3, <2>4 DEF UpGood, Linked
<1>9. /\ UploadEnd(c) \in UpStates /\ UploadEnd(c).tcp = u /\ UploadEnd(c).pool = c.pool
      /\ UploadEnd(c).pcb = c.pcb
    <2>1. UploadWait \in 0 .. UploadWait
        BY UploadAssumption
    <2> QED  BY <1>6, <2>1 DEF UploadEnd, UpStates
<1>10. UpGood(UploadEnd(c))
    BY <1>1, <1>4, <1>5, <1>6, <1>9 DEF UpGood, Current, Live, Linked
<1> QED  BY <1>7, <1>8, <1>10 DEF c, f

\* upload_end, when no connection can call back
LEMMA EndGood ==
    ASSUME NEW s, UpGood(s), ~s.active \/ s.tcp.pcb = NoPcb
    PROVE  UpGood(UploadEnd(s))
<1> DEFINE t == UploadEnd(s)
<1>1. UploadWait \in 0 .. UploadWait
    BY UploadAssumption
<1>2. t \in UpStates /\ t.tcp = s.tcp /\ t.pcb = s.pcb /\ t.pool = s.pool
    BY <1>1 DEF UpGood, UpStates, UploadEnd
<1> HIDE DEF t
<1>3. Current(t) /\ Linked(t)
    BY <1>2, UploadAssumption DEF UpGood, Current, Live, Linked
<1> QED  BY <1>2, <1>3 DEF UpGood, t

\* The struct after memset
LEMMA ClearedGood ==
    ASSUME NEW n \in 0 .. MaxBatch
    PROVE  LET u == [Cleared EXCEPT !.records_count = n]
           IN  /\ u \in TcpRecord /\ u.pcb = NoPcb /\ u.connected = FALSE /\ u.output_phase = "HTTP_HEADER"
               /\ InRequest(u) /\ Waited(u)
               /\ Cleared \in TcpRecord /\ Cleared.connected = FALSE
               /\ InRequest(Cleared) /\ Waited(Cleared)
<1> DEFINE u == [Cleared EXCEPT !.records_count = n]
<1>1. 0 \in 0 .. Pieces /\ 0 \in 0 .. WaitBeforeClose + 2 /\ 0 \in 0 .. MaxBatch /\ <<>> \in Seq(Blocks)
    BY UploadAssumption
<1>2. /\ Cleared \in TcpRecord /\ Cleared.pcb = NoPcb /\ Cleared.connected = FALSE /\ Cleared.left = 0
      /\ Cleared.output_phase = "HTTP_HEADER" /\ Cleared.records_index = 0 /\ Cleared.request = <<>>
      /\ Cleared.wait = 0
    BY <1>1 DEF Cleared, TcpRecord, Phases, Blocks
<1>3. /\ u \in TcpRecord /\ u.pcb = NoPcb /\ u.connected = FALSE /\ u.left = 0
      /\ u.output_phase = "HTTP_HEADER" /\ u.records_index = 0 /\ u.request = <<>>
      /\ u.wait = 0
    BY <1>2 DEF TcpRecord
<1> HIDE DEF u
<1>4. InRequest(u) /\ Waited(u)
    BY <1>3, UploadAssumption DEF InRequest, Waited, Loaded, Phases
<1>5. InRequest(Cleared) /\ Waited(Cleared)
    BY <1>2, UploadAssumption DEF InRequest, Waited, Loaded, Phases
<1> QED  BY <1>2, <1>3, <1>4, <1>5 DEF u

\* server_tcp_init
LEMMA InitGood ==
    ASSUME NEW s, UpGood(s), ~s.active, NEW n \in 0 .. MaxBatch,
           NEW t \in ServerTcpInit([s EXCEPT !.active = TRUE], n)
    PROVE  UpGood(t)
<1> DEFINE a == [s EXCEPT !.active = TRUE]
           u == [Cleared EXCEPT !.records_count = n]
           w == WithTcp(a, u)
           connecting(r) == [r.s EXCEPT !.tcp.pcb = r.p, !.pcb[r.p].arg = TRUE]
<1>1. /\ a \in UpStates /\ a.tcp = s.tcp /\ a.pcb = s.pcb /\ a.pool = s.pool /\ a.active = TRUE
      /\ \A q \in Pcbs : ~(Live(a, q) /\ a.pcb[q].arg)
    BY DEF UpGood, UpStates, Current, Live
<1>2. UpGood(UploadEnd(a))
    <2>1. UpGood(a)
        BY <1>1 DEF UpGood, Current, Linked
    <2>2. UploadEnd(a) = UploadEnd(s)
        BY <1>1 DEF UpGood, UpStates, UploadEnd
    <2> QED  BY <2>2, EndGood
<1>3. u \in TcpRecord /\ u.pcb = NoPcb /\ u.connected = FALSE
    BY ClearedGood
<1>4. InRequest(u) /\ Waited(u)
    BY ClearedGood
<1>5. /\ w \in UpStates /\ w.tcp = u /\ w.pcb = a.pcb /\ w.pool = a.pool /\ w.active = TRUE
    BY <1>1, <1>3 DEF WithTcp, UpStates
<1>6. w = [a EXCEPT !.tcp = u]
    BY DEF WithTcp
<1> HIDE DEF w
<1>7. UpGood(w)
    BY <1>1, <1>3, <1>4, <1>5 DEF UpGood, Current, Live, Linked
<1>8. \/ t = UploadEnd(a) \/ t = UploadEnd(w)
      \/ \E r \in Alloc(w) : t = Goto(connecting(r), r.p, "SYN_SENT") \/ t = UploadEnd(connecting(r))
    BY <1>6, Zenon DEF ServerTcpInit
<1>9. ASSUME NEW r \in Alloc(w)
      PROVE  UpGood(Goto(connecting(r), r.p, "SYN_SENT")) /\ UpGood(UploadEnd(connecting(r)))
    <2>1. w.tcp.pcb = NoPcb
        BY <1>3, <1>5
    <2>2. PICK x : \E p \in Pcbs : /\ UpGood(x) /\ x.tcp.pcb = NoPcb /\ x.active = w.active
                                   /\ r.s = Fresh(x, p) /\ r.p = p
        BY <1>7, <2>1, AllocGood
    <2>3. PICK p \in Pcbs : /\ UpGood(x) /\ x.tcp.pcb = NoPcb /\ x.active = w.active
                            /\ r.s = Fresh(x, p) /\ r.p = p
        BY <2>2
    <2>4. x.active
        BY <1>5, <2>3
    <2>5. connecting(r) = Connecting(Fresh(x, p), p)
        BY <2>3 DEF Connecting
    <2> HIDE DEF connecting
    <2> QED  BY <2>3, <2>4, <2>5, ConnectGood
<1> QED  BY <1>2, <1>3, <1>5, <1>7, <1>8, <1>9, EndGood

\* upload and server_tcp_service
LEMMA CallGood ==
    ASSUME NEW s, UpGood(s), NEW t \in UploadCall(s)
    PROVE  UpGood(t)
<1>1. CASE s.countdown > 0
    <2>1. t = [s EXCEPT !.countdown = @ - 1]
        BY <1>1, Zenon DEF UploadCall
    <2>2. s.countdown - 1 \in 0 .. UploadWait
        BY <1>1, UploadAssumption DEF UpGood, UpStates
    <2>3. /\ t \in UpStates /\ t.tcp = s.tcp /\ t.pcb = s.pcb /\ t.pool = s.pool /\ t.active = s.active
        BY <2>1, <2>2 DEF UpGood, UpStates
    <2>4. Current(t) /\ Linked(t)
        BY <2>3 DEF UpGood, Current, Live, Linked
    <2> QED  BY <2>3, <2>4 DEF UpGood
<1>2. CASE ~(s.countdown > 0)
    <2>1. t = s \/ (~s.active /\ \E n \in 0 .. MaxBatch : t \in ServerTcpInit([s EXCEPT !.active = TRUE], n))
        BY <1>2, Zenon DEF UploadCall
    <2> QED  BY <2>1, InitGood
<1> QED  BY <1>1, <1>2

\* The variables after a step are those of a good state.
LEMMA BecomesGood ==
    ASSUME NEW s, UpGood(s), Becomes(s)
    PROVE  UploadInv'
<1> DEFINE t == State'
<1>1. /\ t.active = s.active /\ t.countdown = s.countdown /\ t.tcp = s.tcp /\ t.pcb = s.pcb
      /\ t.pool = s.pool
    BY DEF State, Becomes
<1>2. t \in UpStates
    BY DEF State, Becomes, UpGood, UpStates
<1> HIDE DEF t
<1>3. Current(t) /\ Linked(t)
    BY <1>1 DEF UpGood, Current, Live, Linked
<1>4. UpGood(t)
    BY <1>1, <1>2, <1>3 DEF UpGood
<1> QED  BY <1>4 DEF UploadInv, t

-----------------------------------------------------------------------------
(* The invariant *)

\* The request and its connection are as the phase and the buffer of server_tcp
\* say, whatever the callbacks of lwIP and the service routine do in turn.
THEOREM UploadInvariance == Spec => []UploadInv
<1>1. Init => UploadInv
    <2> SUFFICES ASSUME Init PROVE UploadInv
        OBVIOUS
    <2>1. FirstWait \in 0 .. UploadWait /\ 0 \in 0 .. MaxBatch
        BY UploadAssumption
    <2>3. /\ Cleared \in TcpRecord /\ Cleared.connected = FALSE
          /\ InRequest(Cleared) /\ Waited(Cleared)
        BY <2>1, ClearedGood
    <2>4. NewPcb \in PcbRecord
        BY DEF NewPcb, PcbRecord, TcpStates
    <2>5. State \in UpStates /\ State.tcp = Cleared /\ State.pool = Pcbs
        BY <2>1, <2>3, <2>4 DEF Init, State, UpStates
    <2> QED  BY <2>3, <2>5 DEF UploadInv, UpGood, Current, Live, Linked
<1>2. UploadInv /\ [Next]_vars => UploadInv'
    <2> SUFFICES ASSUME UploadInv, [Next]_vars PROVE UploadInv'
        OBVIOUS
    <2> DEFINE s0 == State
    <2>1. UpGood(s0)
        BY DEF UploadInv
    <2>2. /\ s0.pool = pool /\ s0.pcb = pcb /\ s0.tcp = server_tcp /\ s0.active = active
          /\ pcb \in [Pcbs -> PcbRecord]
        BY <2>1 DEF State, UpGood, UpStates
    <2> HIDE DEF s0
    <2>3. ASSUME NEW p \in Pcbs, Alive(p)
          PROVE  Live(s0, p) /\ (pcb[p].arg => p = s0.tcp.pcb) /\ pcb[p].state \in TcpStates \ {"CLOSED"}
        <3>1. Live(s0, p)
            BY <2>2, <2>3 DEF Live, Alive
        <3> QED  BY <2>1, <2>2, <2>3, <3>1 DEF UpGood, Current, PcbRecord, Alive
    <2>4. CASE Tick
        <3>1. PICK t, s : t \in UploadCall(s0) /\ s \in TcpOut(t, t.tcp.pcb) /\ Becomes(s)
            BY <2>4, Zenon DEF Tick, Service, s0
        <3> QED  BY <2>1, <3>1, CallGood, TcpOutGood, BecomesGood
    <2>5. ASSUME NEW p \in Pcbs, Connected(p)
          PROVE  UploadInv'
        <3> DEFINE g == Goto(s0, p, "ESTABLISHED")
                   b == pcb[p].arg \/ g.tcp.connected
                   t == [g EXCEPT !.tcp.connected = b]
                   u == [g.tcp EXCEPT !.connected = b]
        <3>1. Alive(p) /\ Becomes(t)
            BY <2>5 DEF Connected, s0
        <3>2. UpGood(g) /\ Live(g, p) /\ g.tcp = s0.tcp
            BY <2>1, <2>3, <3>1, GotoGood DEF TcpStates
        <3>3. b \in BOOLEAN
            OBVIOUS
        <3>4. b => g.tcp.pcb \in Pcbs /\ (g.tcp.pcb \notin g.pool => g.pcb[g.tcp.pcb].state # "CLOSED")
            BY <2>3, <3>1, <3>2 DEF UpGood, Linked, Live
        <3> HIDE DEF g, b
        <3>5. t = WithTcp(g, u)
            BY <3>2 DEF WithTcp, UpGood, UpStates, TcpRecord
        <3>6. u \in TcpRecord /\ u.pcb = g.tcp.pcb /\ u.connected = b
            BY <3>2, <3>3 DEF UpGood, UpStates, TcpRecord
        <3>7. InRequest(u) /\ Waited(u)
            BY <3>2 DEF UpGood, UpStates, TcpRecord, InRequest, Waited, Loaded
        <3> HIDE DEF u
        <3>8. /\ t \in UpStates /\ t.tcp = u /\ t.pcb = g.pcb /\ t.pool = g.pool /\ t.active = g.active
            BY <3>2, <3>5, <3>6 DEF WithTcp, UpGood, UpStates
        <3>9. Current(t) /\ Linked(t)
            BY <3>2, <3>4, <3>6, <3>8 DEF UpGood, Current, Live, Linked
        <3>10. UpGood(t)
            BY <3>7, <3>8, <3>9 DEF UpGood
        <3> QED  BY <3>1, <3>10, BecomesGood
    <2>6. ASSUME NEW p \in Pcbs, Reset(p)
          PROVE  UploadInv'
        <3>1. PICK s \in EventErr(s0, p) : Becomes(Free(Goto(s, p, "CLOSED"), p))
            BY <2>6 DEF Reset, s0
        <3> QED  BY <2>1, <3>1, EventErrGood, FreeClosedGood, BecomesGood
    <2>7. ASSUME NEW p \in Pcbs, GiveUp(p)
          PROVE  UploadInv'
        <3>1. PICK s \in EventErr(s0, p) : Becomes(Free(s, p))
            BY <2>7 DEF GiveUp, s0
        <3> QED  BY <2>1, <3>1, EventErrGood, FreeGood, BecomesGood
    <2>8. ASSUME NEW p \in Pcbs, TimeWaitOver(p)
          PROVE  UploadInv'
        <3>1. Becomes(Free(s0, p))
            BY <2>8 DEF TimeWaitOver, s0
        <3> QED  BY <2>1, <3>1, FreeGood, BecomesGood
    <2>9. ASSUME NEW p \in Pcbs, Segment(p)
          PROVE  UploadInv'
        <3>1. Alive(p)
            BY <2>9 DEF Segment
        <3>2. PICK g \in Segments(pcb[p].state) :
                LET s == [Goto(s0, p, Processed(pcb[p].state, g.finack, g.fin)) EXCEPT !.unread = g.data \/ g.fin]
                IN  \/ Becomes(Free(Goto(s0, p, "CLOSED"), p))
                    \/ \E t \in Deliver(s, p, g) : Becomes(t)
            BY <2>9, Zenon DEF Segment, s0
        <3> DEFINE x == Processed(pcb[p].state, g.finack, g.fin)
                   c == Goto(s0, p, x)
                   b == g.data \/ g.fin
                   s == [c EXCEPT !.unread = b]
        <3>3. x \in TcpStates \ {"CLOSED"}
            BY <2>3, <3>1 DEF Processed, TcpStates
        <3>4. UpGood(c) /\ c.tcp = s0.tcp /\ c.pcb[p].arg = s0.pcb[p].arg
            BY <2>1, <2>3, <3>1, <3>3, GotoGood
        <3>5. b \in BOOLEAN
            OBVIOUS
        <3> HIDE DEF c, b, x
        <3>6. UpGood(s) /\ s.tcp = c.tcp /\ s.pcb = c.pcb
            <4>1. Likewise(c, s)
                BY <3>4, <3>5, UnreadGood, Zenon
            <4> HIDE DEF s
            <4> QED  BY <4>1 DEF Likewise
        <3> HIDE DEF s
        <3>7. s.pcb[p].arg => p = s.tcp.pcb
            BY <2>2, <2>3, <3>1, <3>4, <3>6
        <3>8. CASE Becomes(Free(Goto(s0, p, "CLOSED"), p))
            BY <2>1, <3>8, FreeClosedGood, BecomesGood
        <3>9. CASE \E t \in Deliver(s, p, g) : Becomes(t)
            BY <3>6, <3>7, <3>9, DeliverGood, BecomesGood
        <3> QED  BY <3>2, <3>8, <3>9, Zenon DEF s, c, b, x
    <2>10. CASE UNCHANGED vars
        <3>1. State' = State
            BY <2>10 DEF vars, State
        <3> QED  BY <3>1 DEF UploadInv
    <2> QED  BY <2>4, <2>5, <2>6, <2>7, <2>8, <2>9, <2>10 DEF Next
<1> QED  BY <1>1, <1>2, PTL DEF Spec

-----------------------------------------------------------------------------
(* What follows from it *)

\* The request announced, block by block
LEMMA RequestAt ==
    ASSUME NEW n \in Nat
    PROVE  /\ Request(n) \in Seq(Blocks) /\ Len(Request(n)) = n + 3
           /\ \A k \in 1 .. n + 3 : Request(n)[k] = Expected(n, k)
<1> DEFINE e == [k \in 1 .. n |-> IF k < n THEN "element," ELSE "element"]
           h == <<"header", "open">>
           c == <<"close">>
<1>1. e \in Seq(Blocks) /\ Len(e) = n /\ \A k \in 1 .. n : e[k] = IF k < n THEN "element," ELSE "element"
    BY DEF Blocks
<1>2. h \in Seq(Blocks) /\ Len(h) = 2 /\ h[1] = "header" /\ h[2] = "open"
    BY DEF Blocks
<1>3. c \in Seq(Blocks) /\ Len(c) = 1 /\ c[1] = "close"
    BY DEF Blocks
<1>4. Request(n) = (h \o e) \o c
    BY DEF Request
<1> HIDE DEF e, h, c
<1>5. PICK g : g = h \o e
    OBVIOUS
<1>6. /\ g \in Seq(Blocks) /\ Len(g) = n + 2
      /\ \A k \in 1 .. n + 2 : g[k] = IF k <= 2 THEN h[k] ELSE e[k - 2]
    <2>1. h \in Seq(Blocks) /\ e \in Seq(Blocks) /\ Len(h) = 2 /\ Len(e) = n
        BY <1>1, <1>2
    <2>2. Len(h) + Len(e) = n + 2
        BY <2>1
    <2>3. /\ g \in Seq(Blocks) /\ Len(g) = Len(h) + Len(e)
          /\ \A k \in 1 .. Len(h) + Len(e) : g[k] = IF k <= Len(h) THEN h[k] ELSE e[k - Len(h)]
        BY <1>5, <2>1, ConcatProperties
    <2> QED  BY <2>1, <2>2, <2>3
<1>7. PICK r : r = g \o c
    OBVIOUS
<1>8. /\ r \in Seq(Blocks) /\ Len(r) = n + 3
      /\ \A k \in 1 .. n + 3 : r[k] = IF k <= n + 2 THEN g[k] ELSE c[k - (n + 2)]
    <2>1. g \in Seq(Blocks) /\ c \in Seq(Blocks) /\ Len(g) = n + 2 /\ Len(c) = 1
        BY <1>3, <1>6
    <2>2. Len(g) + Len(c) = n + 3
        BY <2>1
    <2>3. /\ r \in Seq(Blocks) /\ Len(r) = Len(g) + Len(c)
          /\ \A k \in 1 .. Len(g) + Len(c) : r[k] = IF k <= Len(g) THEN g[k] ELSE c[k - Len(g)]
        BY <1>7, <2>1, ConcatProperties
    <2> QED  BY <2>1, <2>2, <2>3
<1>9. ASSUME NEW k \in 1 .. n + 3
      PROVE  r[k] = Expected(n, k)
    <2>1. CASE k = 1
        BY <1>2, <1>6, <1>8, <2>1 DEF Expected
    <2>2. CASE k = 2
        BY <1>2, <1>6, <1>8, <2>2 DEF Expected
    <2>3. CASE k = n + 3
        <3>1. k - (n + 2) = 1 /\ ~(k <= n + 2) /\ k # 1 /\ k # 2
            BY <2>3
        <3> QED  BY <1>3, <1>8, <2>3, <3>1 DEF Expected
    <2>4. CASE k # 1 /\ k # 2 /\ k # n + 3
        <3>1. k \in 1 .. n + 2 /\ ~(k <= 2) /\ k <= n + 2 /\ k - 2 \in 1 .. n
            BY <2>4
        <3>2. r[k] = g[k] /\ g[k] = e[k - 2]
            BY <1>6, <1>8, <3>1
        <3>3. e[k - 2] = IF k - 2 < n THEN "element," ELSE "element"
            BY <1>1, <3>1
        <3> QED  BY <2>4, <3>2, <3>3 DEF Expected
    <2> QED  BY <2>1, <2>2, <2>3, <2>4
<1> QED  BY <1>4, <1>5, <1>7, <1>8, <1>9

\* Sequences that agree are equal.
LEMMA PrefixEqual ==
    ASSUME NEW a \in Seq(Blocks), NEW b \in Seq(Blocks), Len(a) <= Len(b),
           \A k \in 1 .. Len(a) : a[k] = b[k]
    PROVE  a = SubSeq(b, 1, Len(a)) /\ (Len(a) = Len(b) => a = b)
OBVIOUS

\* What server_tcp_out hands to TCP is a beginning of the announced request, and
\* all of it once the wait begins; no callback of an earlier connection reaches
\* server_tcp.c, until a control block is freed twice.
THEOREM UploadIsSound == Spec => []UploadSound
<1>1. UploadInv => UploadSound
    <2> SUFFICES ASSUME UploadInv PROVE UploadSound
        OBVIOUS
    <2> DEFINE u == server_tcp
               n == u.records_count
    <2>1. UpGood(State) /\ State.tcp = u /\ State.pool = pool /\ State.pcb = pcb /\ State.active = active
        BY DEF UploadInv, State
    <2>2. /\ u \in TcpRecord /\ InRequest(u) /\ Waited(u) /\ active \in BOOLEAN
          /\ upload_countdown \in 0 .. UploadWait /\ bogus \in BOOLEAN /\ pool \in SUBSET Pcbs
          /\ pcb \in [Pcbs -> PcbRecord]
        BY <2>1 DEF UpGood, UpStates, State
    <2>3. CallbacksAreCurrent
        BY <2>1 DEF UpGood, Current, Live, CallbacksAreCurrent, Alive
    <2>4. /\ n \in Nat /\ u.records_index \in Nat /\ u.output_phase \in Phases /\ u.request \in Seq(Blocks)
          /\ u.left \in Nat /\ u.wait \in Nat /\ u.left \in 0 .. Pieces /\ u.wait \in 0 .. WaitBeforeClose + 2
          /\ n \in 0 .. MaxBatch /\ u.pcb \in Pcbs \cup {NoPcb}
        BY <2>2, UploadAssumption DEF TcpRecord
    <2>5. u.records_index \in 0 .. n + 1
        BY <2>2, <2>4 DEF InRequest, Phases
    <2>6. u.connected => u.pcb # NoPcb
        BY <2>1, UploadAssumption DEF UpGood, Linked
    <2>7. TypeOK
        BY <2>2, <2>4, <2>5, <2>6 DEF TypeOK, PcbRecord, TcpStates
    <2> HIDE DEF u
    <2>8. /\ Loaded(u) \in Nat /\ Loaded(u) <= n + 3 /\ Len(u.request) \in Nat
          /\ Len(u.request) <= Loaded(u)
        <3>1. Loaded(u) \in Nat /\ Loaded(u) <= n + 3
            <4>1. u.output_phase = "JSON_DATA" => u.records_index <= n
                BY <2>2 DEF InRequest
            <4> QED  BY <2>4, <4>1 DEF Loaded
        <3>2. Len(u.request) \in Nat
            BY <2>4, LenProperties
        <3>3. Len(u.request) <= Loaded(u)
            BY <2>2, <2>4, <3>1, <3>2 DEF InRequest
        <3> QED  BY <3>1, <3>2, <3>3
    <2>9. /\ Request(n) \in Seq(Blocks) /\ Len(Request(n)) = n + 3
          /\ \A k \in 1 .. Len(u.request) : u.request[k] = Request(n)[k]
        <3>1. /\ Request(n) \in Seq(Blocks) /\ Len(Request(n)) = n + 3
              /\ \A k \in 1 .. n + 3 : Request(n)[k] = Expected(n, k)
            BY <2>4, RequestAt
        <3>2. ASSUME NEW k \in 1 .. Len(u.request)
              PROVE  u.request[k] = Request(n)[k]
            <4>1. k \in 1 .. n + 3
                BY <2>4, <2>8
            <4> QED  BY <2>2, <3>1, <4>1 DEF InRequest
        <3> QED  BY <3>1, <3>2
    <2>10. u.wait > 0 => Len(u.request) = n + 3
        BY <2>2, <2>4 DEF Waited, InRequest, Loaded
    <2>11. RequestWellFormed
        <3>1. Len(u.request) <= Len(Request(n))
            BY <2>4, <2>8, <2>9
        <3>2. /\ u.request = SubSeq(Request(n), 1, Len(u.request))
              /\ Len(u.request) = Len(Request(n)) => u.request = Request(n)
            BY <2>4, <2>9, <3>1, PrefixEqual
        <3> QED  BY <2>9, <2>10, <3>1, <3>2 DEF RequestWellFormed, u
    <2> QED  BY <2>3, <2>7, <2>11 DEF UploadSound
<1> QED  BY <1>1, UploadInvariance, PTL

-----------------------------------------------------------------------------
(* Uploads on which little goes wrong *)

\* The server resets connections or stops answering, and nothing else goes wrong.
Mild == Troubles \subseteq {"reset", "silence"}

\* A control block in use has a state of a connection that the gateway closes
\* first; before that it has its callbacks, and these go with its FIN.
Orderly(s, p) ==
    /\ s.pcb[p].state \in {"SYN_SENT", "ESTABLISHED", "FIN_WAIT_1", "FIN_WAIT_2", "CLOSING", "TIME_WAIT"}
    /\ s.pcb[p].state \in {"SYN_SENT", "ESTABLISHED"} => s.pcb[p].arg /\ ~s.pcb[p].rxclosed
    /\ s.pcb[p].arg => s.pcb[p].state \notin {"CLOSING", "TIME_WAIT"}

\* An active upload has a connection in use, whose state the phase tells.
Underway(s) ==
    /\ s.tcp.pcb \in Pcbs \ s.pool /\ s.pcb[s.tcp.pcb].arg
    /\ s.pcb[s.tcp.pcb].state = "SYN_SENT" <=> ~s.tcp.connected
    /\ s.pcb[s.tcp.pcb].state = "ESTABLISHED" <=> s.tcp.connected /\ s.tcp.output_phase # "CLOSED"
    /\ ~s.tcp.connected => s.tcp.output_phase = "HTTP_HEADER"

CalmGood(s) ==
    /\ ~s.bogus
    /\ \A p \in Pcbs \ s.pool : Orderly(s, p)
    /\ s.active => Underway(s)
    /\ s.tcp.connected /\ s.tcp.output_phase # "CLOSED" => s.active

\* The inductive invariant of these uploads
CalmInv == UploadInv /\ CalmGood(State)

\* Orderly looks only at the control block it is about.
LEMMA OrderlyKept ==
    ASSUME NEW s, NEW t, NEW q, t.pcb[q] = s.pcb[q], Orderly(s, q)
    PROVE  Orderly(t, q)
BY DEF Orderly

\* Underway looks only at the struct and at the control block it names.
LEMMA UnderwayKept ==
    ASSUME NEW s, NEW t, t.tcp = s.tcp, Underway(s), s.tcp.pcb \notin t.pool,
           t.pcb[s.tcp.pcb] = s.pcb[s.tcp.pcb]
    PROVE  Underway(t)
BY DEF Underway

\* server_tcp_out keeps order as long as the connection and the last phase stay.
LEMMA CalmTcp ==
    ASSUME NEW s, UpGood(s), CalmGood(s), s.tcp.connected, NEW u, Follows(s.tcp, u),
           u.output_phase = "CLOSED" <=> s.tcp.output_phase = "CLOSED"
    PROVE  CalmGood(WithTcp(s, u))
<1> DEFINE t == WithTcp(s, u)
<1>1. /\ t.tcp = u /\ t.pcb = s.pcb /\ t.pool = s.pool /\ t.active = s.active /\ t.bogus = s.bogus
    BY DEF WithTcp, UpGood, UpStates
<1>2. u.pcb = s.tcp.pcb /\ u.connected = s.tcp.connected
    BY DEF Follows
<1> HIDE DEF t
<1>3. \A p \in Pcbs \ t.pool : Orderly(t, p)
    BY <1>1 DEF CalmGood, Orderly
<1>4. s.active => Underway(t)
    BY <1>1, <1>2 DEF CalmGood, Underway
<1> QED  BY <1>1, <1>2, <1>3, <1>4 DEF CalmGood, t

\* A control block in use that is not that of an active upload may be freed.
LEMMA CalmFree ==
    ASSUME NEW s, UpGood(s), CalmGood(s), NEW p \in Pcbs, p \notin s.pool, s.active => p # s.tcp.pcb
    PROVE  CalmGood(Free(s, p))
<1> DEFINE t == Free(s, p)
<1>1. /\ t.tcp = s.tcp /\ t.active = s.active /\ t.pool = s.pool \cup {p} /\ t.pcb = s.pcb
    BY FreeFields DEF UpGood
<1>2. ~t.bogus
    BY DEF Free, UpGood, UpStates, CalmGood
<1> HIDE DEF t
<1>3. \A q \in Pcbs \ t.pool : Orderly(t, q)
    BY <1>1 DEF CalmGood, Orderly
<1>4. s.active => Underway(t)
    BY <1>1 DEF CalmGood, Underway
<1> QED  BY <1>1, <1>2, <1>3, <1>4 DEF CalmGood, t

\* Nor does the state of such a control block matter, if it is freed next.
LEMMA CalmFreeClosed ==
    ASSUME NEW s, UpGood(s), CalmGood(s), NEW p \in Pcbs, p \notin s.pool, s.active => p # s.tcp.pcb
    PROVE  CalmGood(Free(Goto(s, p, "CLOSED"), p))
<1> DEFINE g == Goto(s, p, "CLOSED")
           t == Free(g, p)
<1>1. /\ g \in UpStates /\ g.tcp = s.tcp /\ g.active = s.active /\ g.pool = s.pool /\ g.bogus = s.bogus
      /\ \A q \in Pcbs \ {p} : g.pcb[q] = s.pcb[q]
    <2>1. s \in UpStates /\ "CLOSED" \in TcpStates
        BY DEF UpGood, TcpStates
    <2>2. Moved(s, g, p, "CLOSED")
        BY <2>1, GotoFields, Zenon
    <2> HIDE DEF g
    <2> QED  BY <2>2 DEF Moved
<1> HIDE DEF g
<1>2. /\ t.tcp = g.tcp /\ t.active = g.active /\ t.pool = g.pool \cup {p} /\ t.pcb = g.pcb
    BY <1>1, FreeFields
<1>3. ~t.bogus
    BY <1>1 DEF Free, UpStates, CalmGood
<1> HIDE DEF t
<1>4. ASSUME NEW q \in Pcbs \ t.pool
      PROVE  Orderly(t, q)
    <2>1. q \in Pcbs \ s.pool /\ t.pcb[q] = s.pcb[q]
        BY <1>1, <1>2
    <2>2. Orderly(s, q)
        BY <2>1 DEF CalmGood
    <2> QED  BY <2>1, <2>2, OrderlyKept
<1>5. ASSUME s.active
      PROVE  Underway(t)
    <2>1. Underway(s) /\ s.tcp.pcb \in Pcbs \ s.pool /\ s.tcp.pcb # p
        BY <1>5 DEF CalmGood, Underway
    <2>2. t.tcp = s.tcp /\ s.tcp.pcb \notin t.pool /\ t.pcb[s.tcp.pcb] = s.pcb[s.tcp.pcb]
        BY <1>1, <1>2, <2>1
    <2> QED  BY <2>1, <2>2, UnderwayKept
<1> QED  BY <1>1, <1>2, <1>3, <1>4, <1>5 DEF CalmGood, t, g

\* What tcp_close then leaves and returns
Closing(s, r, p) ==
    /\ r.ok
    /\ r.s.tcp = s.tcp /\ r.s.active = s.active /\ r.s.pool = s.pool /\ r.s.bogus = s.bogus
    /\ r.s.pcb[p].state = (IF s.pcb[p].state = "ESTABLISHED" THEN "FIN_WAIT_1" ELSE s.pcb[p].state)
    /\ r.s.pcb[p].arg = s.pcb[p].arg
    /\ \A q \in Pcbs \ {p} : r.s.pcb[q] = s.pcb[q]

\* tcp_close finds memory, and a connection that is not closed yet.
LEMMA MildClose ==
    ASSUME Mild, NEW s \in UpStates, ~s.unread, NEW p \in Pcbs, p \notin s.pool,
           s.pcb[p].state \in TcpStates \ {"CLOSED", "SYN_SENT", "CLOSE_WAIT"}, NEW r \in TcpClose(s, p)
    PROVE  Closing(s, r, p)
<1> DEFINE t == [s EXCEPT !.pcb[p].rxclosed = TRUE]
<1>1. /\ t \in UpStates /\ t.tcp = s.tcp /\ t.active = s.active /\ t.pool = s.pool /\ t.bogus = s.bogus
      /\ t.pcb[p].arg = s.pcb[p].arg /\ t.pcb[p].state = s.pcb[p].state
      /\ \A q \in Pcbs \ {p} : t.pcb[q] = s.pcb[q]
    BY DEF UpStates, PcbRecord
<1> HIDE DEF t
<1>2. "no_memory" \notin Troubles
    BY DEF Mild
<1>3. r = [ok |-> TRUE, s |-> IF s.pcb[p].state = "ESTABLISHED" THEN Goto(t, p, "FIN_WAIT_1") ELSE t]
    <2>1. CASE s.pcb[p].state = "ESTABLISHED"
        <3>1. r \in Ok(Goto(t, p, "FIN_WAIT_1"))
            BY <1>2, <2>1 DEF TcpClose, OrNoMemory, t
        <3> QED  BY <2>1, <3>1 DEF Ok
    <2>2. CASE s.pcb[p].state # "ESTABLISHED"
        <3>1. r \in Ok(t)
            BY <2>2 DEF TcpClose, t
        <3> QED  BY <2>2, <3>1 DEF Ok
    <2> QED  BY <2>1, <2>2
<1>4. r.ok /\ r.s = IF s.pcb[p].state = "ESTABLISHED" THEN Goto(t, p, "FIN_WAIT_1") ELSE t
    BY <1>3
<1>5. CASE s.pcb[p].state = "ESTABLISHED"
    <2>1. r.ok /\ r.s = Goto(t, p, "FIN_WAIT_1") /\ "FIN_WAIT_1" \in TcpStates
        BY <1>4, <1>5 DEF TcpStates
    <2> DEFINE f == Goto(t, p, "FIN_WAIT_1")
    <2>2. /\ f.tcp = t.tcp /\ f.active = t.active /\ f.pool = t.pool /\ f.bogus = t.bogus
          /\ f.pcb[p].state = "FIN_WAIT_1" /\ f.pcb[p].arg = t.pcb[p].arg
          /\ \A q \in Pcbs \ {p} : f.pcb[q] = t.pcb[q]
        <3>1. t \in UpStates
            BY <1>1
        <3>2. Moved(t, f, p, "FIN_WAIT_1")
            BY <2>1, <3>1, GotoFields, Zenon
        <3> HIDE DEF f
        <3> QED  BY <3>2 DEF Moved
    <2>3. r.s = f
        BY <2>1
    <2> HIDE DEF f
    <2> QED  BY <1>1, <1>5, <2>1, <2>2, <2>3 DEF Closing
<1>6. CASE s.pcb[p].state # "ESTABLISHED"
    BY <1>1, <1>4, <1>6 DEF Closing
<1> QED  BY <1>5, <1>6

\* server_tcp_close_conn on a connection that has been open ends the upload.
LEMMA CloseConnCalm ==
    ASSUME Mild, NEW s \in UpStates, ~s.unread, ~s.bogus, NEW p \in Pcbs, p \notin s.pool,
           s.pcb[p].state \in {"ESTABLISHED", "FIN_WAIT_1", "FIN_WAIT_2", "CLOSING", "TIME_WAIT"},
           \A q \in Pcbs \ s.pool : q # p => Orderly(s, q),
           s.tcp.connected => s.tcp.output_phase = "CLOSED",
           NEW t \in CloseConn(s, p)
    PROVE  CalmGood(t) /\ ~t.active /\ t.pool = s.pool
<1> DEFINE a == [s EXCEPT !.pcb[p].arg = FALSE]
<1>1. /\ a \in UpStates /\ a.tcp = s.tcp /\ a.active = s.active /\ a.pool = s.pool /\ ~a.unread /\ ~a.bogus
      /\ a.pcb[p].arg = FALSE /\ a.pcb[p].state = s.pcb[p].state
      /\ \A q \in Pcbs \ {p} : a.pcb[q] = s.pcb[q]
    BY ZenonT(40) DEF UpStates, PcbRecord
<1>2. PICK r \in TcpClose(a, p) : t = IF r.ok THEN UploadEnd(r.s) ELSE r.s
    BY Zenon DEF CloseConn
<1> HIDE DEF a
<1>3. /\ a \in UpStates /\ ~a.unread /\ p \notin a.pool
      /\ a.pcb[p].state \in TcpStates \ {"CLOSED", "SYN_SENT", "CLOSE_WAIT"}
    BY <1>1 DEF TcpStates
<1> DEFINE c == r.s
<1>4. /\ r.ok
      /\ c.tcp = a.tcp /\ c.pool = a.pool /\ c.bogus = a.bogus
      /\ c.pcb[p].state = (IF a.pcb[p].state = "ESTABLISHED" THEN "FIN_WAIT_1" ELSE a.pcb[p].state)
      /\ c.pcb[p].arg = a.pcb[p].arg
      /\ \A q \in Pcbs \ {p} : c.pcb[q] = a.pcb[q]
    <2>1. Closing(a, r, p)
        BY <1>3, MildClose
    <2> QED  BY <2>1 DEF Closing
<1>5. c \in UpStates
    BY <1>1, CloseShuts DEF Shut
<1> HIDE DEF c
<1>6. t = UploadEnd(c)
    BY <1>2, <1>4 DEF c
<1>7. /\ t.tcp = s.tcp /\ t.pool = s.pool /\ ~t.bogus /\ ~t.active /\ t.pcb = c.pcb
    BY <1>1, <1>4, <1>5, <1>6 DEF UploadEnd, UpStates
<1>8. ASSUME NEW q \in Pcbs \ t.pool
      PROVE  Orderly(t, q)
    <2>1. CASE q = p
        <3>1. t.pcb[p].state \in {"FIN_WAIT_1", "FIN_WAIT_2", "CLOSING", "TIME_WAIT"}
            BY <1>1, <1>4, <1>7
        <3>2. ~t.pcb[p].arg
            BY <1>1, <1>4, <1>7
        <3> QED  BY <2>1, <3>1, <3>2 DEF Orderly
    <2>2. CASE q # p
        <3>1. q \in Pcbs \ s.pool /\ t.pcb[q] = s.pcb[q]
            BY <1>1, <1>4, <1>7, <2>2
        <3>2. Orderly(s, q)
            BY <2>2, <3>1
        <3> QED  BY <3>1, <3>2, OrderlyKept
    <2> QED  BY <2>1, <2>2
<1> QED  BY <1>7, <1>8 DEF CalmGood

\* server_tcp_err, called for a connection that is about to be freed
LEMMA EventErrCalm ==
    ASSUME Mild, NEW s, UpGood(s), CalmGood(s), ~s.unread, NEW p \in Pcbs, p \notin s.pool,
           s.pcb[p].state # "SYN_SENT", NEW t \in EventErr(s, p)
    PROVE  CalmGood(t) /\ p \notin t.pool /\ (t.active => p # t.tcp.pcb)
<1>1. Orderly(s, p)
    BY DEF CalmGood
<1>2. CASE ~s.pcb[p].arg
    <2>1. t = s
        BY <1>2, Zenon DEF EventErr
    <2> QED  BY <1>2, <2>1 DEF CalmGood, Underway
<1>3. CASE s.pcb[p].arg
    <2>1. p = s.tcp.pcb
        BY <1>1, <1>3 DEF UpGood, Current, Live, Orderly
    <2> DEFINE u == [s.tcp EXCEPT !.connected = FALSE]
               w == WithTcp(s, u)
    <2>2. u \in TcpRecord /\ u.pcb = s.tcp.pcb /\ u.connected = FALSE
        BY DEF UpGood, UpStates, TcpRecord
    <2>3. w = [s EXCEPT !.tcp.connected = FALSE]
        BY DEF WithTcp, UpGood, UpStates, TcpRecord
    <2>4. /\ w \in UpStates /\ w.tcp = u /\ w.pcb = s.pcb /\ w.pool = s.pool /\ ~w.unread /\ ~w.bogus
        BY <2>2 DEF WithTcp, UpGood, UpStates, CalmGood
    <2>5. IF w.tcp.pcb # NoPcb THEN t \in CloseConn(w, w.tcp.pcb) ELSE t = w
        BY <1>3, <2>3, Zenon DEF EventErr, ServerTcpErr
    <2> HIDE DEF w, u
    <2>6. t \in CloseConn(w, p)
        BY <2>1, <2>2, <2>4, <2>5, UploadAssumption
    <2>7. \A q \in Pcbs \ w.pool : Orderly(w, q)
        BY <2>4 DEF CalmGood, Orderly
    <2>8. w.pcb[p].state \in {"ESTABLISHED", "FIN_WAIT_1", "FIN_WAIT_2", "CLOSING", "TIME_WAIT"}
        BY <1>1, <2>4 DEF Orderly
    <2>9. CalmGood(t) /\ ~t.active /\ t.pool = w.pool
        BY <2>2, <2>4, <2>6, <2>7, <2>8, CloseConnCalm
    <2> QED  BY <2>4, <2>9
<1> QED  BY <1>2, <1>3

\* server_current_tcp_out
LEMMA CurrentOutCalm ==
    ASSUME Mild, NEW s, UpGood(s), CalmGood(s), s.tcp.connected, NEW p \in Pcbs, p = s.tcp.pcb,
           NEW r \in CurrentOut(s, p)
    PROVE  CalmGood(r.s) /\ r.s.unread = s.unread
<1> DEFINE u == s.tcp
<1>1. TcpGood(u) /\ u.left \in Nat
    BY UploadAssumption DEF UpGood, UpStates, TcpGood, TcpRecord
<1>2. CASE r.s = s
    BY <1>2
<1>3. ASSUME u.left > 0
      PROVE  s.pcb[p].state = "ESTABLISHED"
    <2>1. u.output_phase # "CLOSED"
        BY <1>1, <1>3 DEF TcpGood, Waited
    <2> QED  BY <2>1 DEF CalmGood, Underway
<1>4. CASE u.left > 0 /\ r.s = WithTcp(s, Failing(u))
    <2>1. Failing(u).output_phase = u.output_phase
        BY <1>1 DEF Failing, TcpGood, TcpRecord
    <2>2. CalmGood(WithTcp(s, Failing(u)))
        BY <1>1, <2>1, FailingGood, CalmTcp
    <2> QED  BY <1>4, <2>2 DEF WithTcp, UpGood, UpStates
<1>5. ASSUME 0 \in Writes(s, p), Failing(u).write_err > MaxWriteErr, u.left > 0
      PROVE  FALSE
    <2>1. u.write_err < MaxWriteErr /\ u.write_err \in Nat
        BY <1>1, <1>3, <1>5 DEF Writes, Mild, TcpGood, TcpRecord
    <2>2. Failing(u).write_err = u.write_err + 1
        BY <1>1, <2>1, UploadAssumption, SMTT(20) DEF Failing, Min2, TcpGood, TcpRecord
    <2> QED  BY <1>5, <2>1, <2>2, UploadAssumption
<1>6. CASE u.left > 0 /\ r.s = WithTcp(s, Emptied(u))
    <2>1. Emptied(u).output_phase = u.output_phase
        BY <1>1 DEF Emptied, TcpGood, TcpRecord
    <2>2. CalmGood(WithTcp(s, Emptied(u)))
        BY <1>1, <1>6, <2>1, EmptiedGood, CalmTcp
    <2> QED  BY <1>6, <2>2 DEF WithTcp, UpGood, UpStates
<1>7. ASSUME NEW n \in Nat, 0 < n, n < u.left, r.s = WithTcp(s, Reduced(u, n))
      PROVE  CalmGood(r.s) /\ r.s.unread = s.unread
    <2>1. Reduced(u, n).output_phase = u.output_phase
        BY <1>1 DEF Reduced, TcpGood, TcpRecord
    <2>2. CalmGood(WithTcp(s, Reduced(u, n)))
        BY <1>1, <1>7, <2>1, ReducedGood, CalmTcp
    <2> QED  BY <1>7, <2>2 DEF WithTcp, UpGood, UpStates
<1>8. CASE u.left = 0
    <2>1. r = [ok |-> TRUE, s |-> s]
        BY <1>8, Zenon DEF CurrentOut, Ok
    <2> QED  BY <2>1
<1>9. CASE u.left > 0
    BY <1>2, <1>4, <1>5, <1>6, <1>7, <1>9, CurrentOutCases
<1> QED  BY <1>1, <1>8, <1>9

\* The switch of server_tcp_out
LEMMA NextBlockCalm ==
    ASSUME Mild, NEW s, UpGood(s), CalmGood(s), s.tcp.connected, ~s.unread, s.tcp.left = 0,
           NEW t \in NextBlock(s)
    PROVE  CalmGood(t) /\ t.tcp.connected
<1>1. CASE s.tcp.output_phase # "CLOSE"
    <2>1. PICK v : /\ Follows(s.tcp, v) /\ t = WithTcp(s, v)
                   /\ v.output_phase = "CLOSED" <=> s.tcp.output_phase = "CLOSED"
        BY <1>1, NextBlockStruct
    <2>2. CalmGood(WithTcp(s, v))
        BY <2>1, CalmTcp
    <2> QED  BY <2>1, <2>2, FollowsGood
<1>2. CASE s.tcp.output_phase = "CLOSE"
    <2> DEFINE p == s.tcp.pcb
    <2>1. PICK r \in TcpClose(s, p) : t = [r.s EXCEPT !.tcp.output_phase = "CLOSED"]
        BY <1>2 DEF NextBlock
    <2>2. s \in UpStates /\ p \in Pcbs /\ p \notin s.pool /\ s.pcb[p].state = "ESTABLISHED" /\ s.active
          /\ s.pcb[p].arg
        BY <1>2 DEF UpGood, CalmGood, Underway
    <2> DEFINE c == r.s
    <2>3. /\ c.tcp = s.tcp /\ c.active = s.active /\ c.pool = s.pool /\ c.bogus = s.bogus
          /\ c.pcb[p].state = "FIN_WAIT_1" /\ c.pcb[p].arg = s.pcb[p].arg
          /\ \A q \in Pcbs \ {p} : c.pcb[q] = s.pcb[q]
        <3>1. s.pcb[p].state \in TcpStates \ {"CLOSED", "SYN_SENT", "CLOSE_WAIT"}
            BY <2>2 DEF TcpStates
        <3>2. Closing(s, r, p)
            BY <2>2, <3>1, MildClose
        <3> QED  BY <2>2, <3>2 DEF Closing
    <2>4. c \in UpStates
        BY <2>2, CloseShuts DEF Shut
    <2> HIDE DEF c
    <2>5. /\ t.tcp.pcb = p /\ t.tcp.connected /\ t.tcp.output_phase = "CLOSED" /\ t.active = s.active
          /\ t.pool = s.pool /\ ~t.bogus /\ t.pcb = c.pcb
        BY <2>1, <2>3, <2>4 DEF c, UpStates, TcpRecord, CalmGood
    <2> HIDE DEF p
    <2>6. \A q \in Pcbs \ t.pool : Orderly(t, q)
        <3>1. ASSUME NEW q \in Pcbs \ t.pool, q # p
              PROVE  Orderly(t, q)
            <4>1. q \in Pcbs \ s.pool /\ t.pcb[q] = s.pcb[q]
                BY <2>3, <2>5, <3>1
            <4>2. Orderly(s, q)
                BY <4>1 DEF CalmGood
            <4> QED  BY <4>1, <4>2, OrderlyKept
        <3>2. Orderly(t, p)
            BY <2>2, <2>3, <2>5 DEF Orderly
        <3> QED  BY <3>1, <3>2
    <2>7. Underway(t)
        BY <2>2, <2>3, <2>5 DEF Underway
    <2> QED  BY <2>5, <2>6, <2>7 DEF CalmGood
<1> QED  BY <1>1, <1>2

\* server_tcp_out
LEMMA TcpOutCalm ==
    ASSUME Mild, NEW s, UpGood(s), CalmGood(s), NEW p, s.tcp.connected => p = s.tcp.pcb /\ ~s.unread,
           NEW t \in TcpOut(s, p)
    PROVE  CalmGood(t)
<1>1. CASE ~s.tcp.connected
    <2>1. t = s
        BY <1>1, Zenon DEF TcpOut
    <2> QED  BY <2>1
<1>2. CASE s.tcp.connected
    <2>1. p \in Pcbs /\ p = s.tcp.pcb
        BY <1>2 DEF UpGood, Linked
    <2>2. PICK r \in CurrentOut(s, p) :
            t \in IF r.ok THEN UNION {{q.s : q \in CurrentOut(x, p)} : x \in NextBlock(r.s)} ELSE {r.s}
        BY <1>2, Zenon DEF TcpOut
    <2>3. /\ UpGood(r.s) /\ r.s.tcp.pcb = s.tcp.pcb /\ r.s.tcp.connected = s.tcp.connected
          /\ r.ok => r.s.tcp.left = 0
        BY <2>1, CurrentOutGood
    <2>4. CalmGood(r.s) /\ r.s.unread = s.unread
        BY <1>2, <2>1, CurrentOutCalm
    <2>5. CASE ~r.ok
        <3>1. t = r.s
            BY <2>2, <2>5, Zenon
        <3> QED  BY <2>4, <3>1
    <2>6. CASE r.ok
        <3>1. PICK x \in NextBlock(r.s) : \E q \in CurrentOut(x, p) : t = q.s
            BY <2>2, <2>6, Zenon
        <3>2. PICK q \in CurrentOut(x, p) : t = q.s
            BY <3>1
        <3>3. r.s.tcp.connected /\ ~r.s.unread /\ r.s.tcp.left = 0
            BY <1>2, <2>3, <2>4, <2>6
        <3>4. UpGood(x) /\ x.tcp.pcb = r.s.tcp.pcb
            BY <2>3, <3>3, NextBlockGood
        <3>5. CalmGood(x) /\ x.tcp.connected
            BY <2>3, <2>4, <3>3, NextBlockCalm
        <3>6. CalmGood(q.s)
            BY <2>1, <2>3, <3>4, <3>5, CurrentOutCalm
        <3> QED  BY <3>2, <3>6
    <2> QED  BY <2>5, <2>6
<1> QED  BY <1>1, <1>2

\* The control blocks in use are in order, and none was freed twice.
Kept(s) == ~s.bogus /\ \A p \in Pcbs \ s.pool : Orderly(s, p)

\* tcp_alloc takes a free control block, or frees one that has no callbacks.
LEMMA AllocCalm ==
    ASSUME NEW s, UpGood(s), Kept(s), s.tcp.pcb = NoPcb, NEW r \in Alloc(s)
    PROVE  \E t : \E p \in Pcbs :
             /\ UpGood(t) /\ Kept(t) /\ t.tcp = s.tcp /\ t.active = s.active
             /\ r.s = Fresh(t, p) /\ r.p = p
<1> DEFINE killable == {p \in Pcbs : s.pcb[p].state = "TIME_WAIT"}
           waiting == IF killable # {} THEN killable ELSE {p \in Pcbs : s.pcb[p].state # "CLOSED"}
<1>1. PICK t : /\ t \in IF s.pool = {} THEN UNION {Abort(s, p) : p \in waiting} ELSE {s}
               /\ \E p \in t.pool : r = [s |-> [t EXCEPT !.pool = @ \ {p}, !.pcb[p] = NewPcb], p |-> p]
    BY ZenonT(40) DEF Alloc
<1>2. t = s \/ (s.pool = {} /\ \E p \in Pcbs : t \in Abort(s, p))
    BY <1>1, Zenon
<1>3. UpGood(t) /\ Kept(t) /\ t.tcp = s.tcp /\ t.active = s.active
    <2>1. CASE t = s
        BY <2>1
    <2>2. ASSUME s.pool = {}, NEW p \in Pcbs, t \in Abort(s, p)
          PROVE  UpGood(t) /\ Kept(t) /\ t.tcp = s.tcp /\ t.active = s.active
        <3> DEFINE g == Goto(s, p, "CLOSED")
                   f == Free(g, p)
        <3>1. s \in UpStates /\ "CLOSED" \in TcpStates
            BY DEF UpGood, TcpStates
        <3>2. /\ g \in UpStates /\ g.pool = s.pool /\ g.bogus = s.bogus /\ g.pcb[p].arg = s.pcb[p].arg
              /\ \A q \in Pcbs \ {p} : g.pcb[q] = s.pcb[q]
            <4>1. Moved(s, g, p, "CLOSED")
                BY <3>1, GotoFields, Zenon
            <4> HIDE DEF g
            <4> QED  BY <4>1 DEF Moved
        <3>3. ~s.pcb[p].arg
            <4>1. Live(s, p)
                BY <2>2 DEF Live, Kept, Orderly
            <4> QED  BY <4>1, UploadAssumption DEF UpGood, Current
        <3> HIDE DEF g
        <3>4. f.pool = g.pool \cup {p} /\ f.pcb = g.pcb
            BY <3>2, FreeFields
        <3>5. ~f.bogus
            BY <2>2, <3>2 DEF Free, UpStates, Kept
        <3> HIDE DEF f
        <3>6. t = f
            <4>1. t = f \/ t \in EventErr(f, p)
                BY <2>2, Zenon DEF Abort, f, g
            <4>2. ~f.pcb[p].arg
                BY <3>2, <3>3, <3>4
            <4>3. EventErr(f, p) = {f}
                BY <4>2, Zenon DEF EventErr
            <4> QED  BY <4>1, <4>3
        <3>7. Kept(f)
            <4>1. ASSUME NEW q \in Pcbs \ f.pool
                  PROVE  q \in Pcbs \ s.pool /\ f.pcb[q] = s.pcb[q]
                BY <3>2, <3>4
            <4>2. ASSUME NEW q \in Pcbs \ f.pool
                  PROVE  Orderly(f, q)
                <5>1. q \in Pcbs \ s.pool /\ f.pcb[q] = s.pcb[q]
                    BY <4>1
                <5>2. Orderly(s, q)
                    BY <5>1 DEF Kept
                <5> QED  BY <5>1, <5>2, OrderlyKept
            <4> QED  BY <3>5, <4>2 DEF Kept
        <3>8. UpGood(f) /\ f.tcp = s.tcp /\ f.active = s.active
            BY FreeClosedGood DEF f, g
        <3> QED  BY <3>6, <3>7, <3>8
    <2> QED  BY <1>2, <2>1, <2>2
<1>4. t.pool \subseteq Pcbs
    BY <1>3 DEF UpGood, UpStates
<1>5. PICK p \in t.pool : r = [s |-> Fresh(t, p), p |-> p]
    BY <1>1, Zenon DEF Fresh
<1>6. r.s = Fresh(t, p) /\ r.p = p
    BY <1>5
<1> QED  BY <1>3, <1>4, <1>6, Zenon

\* tcp_connect on a new control block
LEMMA ConnectCalm ==
    ASSUME NEW t, UpGood(t), Kept(t), ~t.tcp.connected, t.tcp.output_phase = "HTTP_HEADER", NEW p \in Pcbs
    PROVE  CalmGood(Goto(Connecting(Fresh(t, p), p), p, "SYN_SENT"))
<1> DEFINE f == Fresh(t, p)
           c == Connecting(f, p)
           g == Goto(c, p, "SYN_SENT")
<1>1. t \in UpStates /\ t.tcp \in TcpRecord
    BY DEF UpGood, UpStates
<1>2. NewPcb \in PcbRecord /\ ~NewPcb.rxclosed
    BY DEF PcbRecord, NewPcb, TcpStates
<1>3. /\ f \in UpStates /\ f.tcp = t.tcp /\ f.pool = t.pool \ {p} /\ f.active = t.active /\ f.bogus = t.bogus
      /\ f.pcb[p] = NewPcb /\ \A q \in Pcbs \ {p} : f.pcb[q] = t.pcb[q]
    BY <1>1, <1>2 DEF Fresh, UpStates
<1> HIDE DEF f
<1>4. /\ c \in UpStates /\ c.tcp = [f.tcp EXCEPT !.pcb = p] /\ c.pool = f.pool /\ c.bogus = f.bogus
      /\ c.pcb[p].arg = TRUE /\ c.pcb[p].rxclosed = f.pcb[p].rxclosed
      /\ \A q \in Pcbs \ {p} : c.pcb[q] = f.pcb[q]
    <2>1. f.pcb[p] \in PcbRecord /\ f.tcp \in TcpRecord /\ f.pcb \in [Pcbs -> PcbRecord]
        BY <1>3 DEF UpStates
    <2>2. PICK n \in PcbRecord : /\ n = [f.pcb[p] EXCEPT !.arg = TRUE] /\ n.arg = TRUE
                                 /\ n.rxclosed = f.pcb[p].rxclosed
        <3> DEFINE m == [f.pcb[p] EXCEPT !.arg = TRUE]
        <3>1. m \in PcbRecord /\ m.arg = TRUE /\ m.rxclosed = f.pcb[p].rxclosed
            BY <2>1 DEF PcbRecord
        <3> HIDE DEF m
        <3>2. \E n \in PcbRecord : n = m /\ n.arg = TRUE /\ n.rxclosed = f.pcb[p].rxclosed
            BY <3>1
        <3> QED  BY <3>2 DEF m
    <2>3. PICK u \in TcpRecord : u = [f.tcp EXCEPT !.pcb = p]
        BY <2>1 DEF TcpRecord
    <2>4. c = [f EXCEPT !.tcp = u, !.pcb = [f.pcb EXCEPT ![p] = n]]
        BY <1>3, <2>2, <2>3 DEF Connecting, UpStates
    <2> HIDE DEF c
    <2> QED  BY <1>3, <2>2, <2>3, <2>4 DEF UpStates
<1> HIDE DEF c
<1>5. /\ g.tcp = c.tcp /\ g.pool = c.pool /\ g.bogus = c.bogus
      /\ g.pcb[p].state = "SYN_SENT" /\ g.pcb[p].arg = c.pcb[p].arg /\ g.pcb[p].rxclosed = c.pcb[p].rxclosed
      /\ \A q \in Pcbs \ {p} : g.pcb[q] = c.pcb[q]
    <2>1. c \in UpStates /\ "SYN_SENT" \in TcpStates
        BY <1>4 DEF TcpStates
    <2>2. Moved(c, g, p, "SYN_SENT")
        BY <2>1, GotoFields, Zenon
    <2> HIDE DEF g
    <2> QED  BY <2>2 DEF Moved
<1> HIDE DEF g
<1>6. g.tcp.pcb = p /\ ~g.tcp.connected /\ g.tcp.output_phase = "HTTP_HEADER"
    BY <1>1, <1>3, <1>4, <1>5 DEF TcpRecord
<1>7. p \notin g.pool /\ g.pcb[p].arg /\ ~g.pcb[p].rxclosed /\ ~g.bogus
    BY <1>2, <1>3, <1>4, <1>5 DEF Kept
<1>8. \A q \in Pcbs \ g.pool : Orderly(g, q)
    BY <1>3, <1>4, <1>5, <1>7 DEF Kept, Orderly
<1>9. Underway(g)
    BY <1>5, <1>6, <1>7 DEF Underway
<1> QED  BY <1>6, <1>7, <1>8, <1>9 DEF CalmGood, g, c, f

\* server_tcp_init
LEMMA InitCalm ==
    ASSUME Mild, NEW s, UpGood(s), CalmGood(s), ~s.unread, ~s.active, NEW n \in 0 .. MaxBatch,
           NEW t \in ServerTcpInit([s EXCEPT !.active = TRUE], n)
    PROVE  CalmGood(t) /\ (t.tcp.connected => ~t.unread)
<1> DEFINE a == [s EXCEPT !.active = TRUE]
           u == [Cleared EXCEPT !.records_count = n]
           w == WithTcp(a, u)
           connecting(r) == [r.s EXCEPT !.tcp.pcb = r.p, !.pcb[r.p].arg = TRUE]
<1>1. /\ a \in UpStates /\ a.tcp = s.tcp /\ a.pcb = s.pcb /\ a.pool = s.pool /\ a.bogus = s.bogus
      /\ a.unread = s.unread
    BY DEF UpGood, UpStates
<1>2. \A q \in Pcbs : ~(Live(a, q) /\ a.pcb[q].arg)
    BY <1>1 DEF UpGood, Current, Live
<1> HIDE DEF a
<1>3. Kept(a)
    BY <1>1 DEF CalmGood, Kept, Orderly
<1>4. CalmGood(UploadEnd(a)) /\ (UploadEnd(a).tcp.connected => ~UploadEnd(a).unread)
    <2> DEFINE e == UploadEnd(a)
    <2>1. /\ e.tcp = s.tcp /\ e.pcb = s.pcb /\ e.pool = s.pool /\ e.bogus = s.bogus /\ ~e.active
          /\ e.unread = s.unread
        BY <1>1 DEF UpStates, UploadEnd
    <2> HIDE DEF e
    <2>2. \A q \in Pcbs \ e.pool : Orderly(e, q)
        BY <2>1 DEF CalmGood, Orderly
    <2>3. CalmGood(e) /\ (e.tcp.connected => ~e.unread)
        BY <2>1, <2>2 DEF CalmGood
    <2> QED  BY <2>3 DEF e
<1>5. u \in TcpRecord /\ u.pcb = NoPcb /\ u.connected = FALSE /\ u.output_phase = "HTTP_HEADER"
    BY ClearedGood
<1>6. InRequest(u) /\ Waited(u)
    BY ClearedGood
<1>7. /\ w \in UpStates /\ w.tcp = u /\ w.pcb = a.pcb /\ w.pool = a.pool /\ w.bogus = a.bogus
    BY <1>1, <1>5 DEF WithTcp, UpStates
<1>8. w = [a EXCEPT !.tcp = u]
    BY DEF WithTcp
<1> HIDE DEF w, u
<1>9. UpGood(w) /\ Kept(w)
    BY <1>2, <1>3, <1>5, <1>6, <1>7 DEF UpGood, Current, Live, Linked, Kept, Orderly
<1>10. CalmGood(UploadEnd(w)) /\ ~UploadEnd(w).tcp.connected
    <2> DEFINE e == UploadEnd(w)
    <2>1. /\ e.tcp = u /\ e.pcb = w.pcb /\ e.pool = w.pool /\ e.bogus = w.bogus /\ ~e.active
        BY <1>7 DEF UpStates, UploadEnd
    <2> HIDE DEF e
    <2>2. \A q \in Pcbs \ e.pool : Orderly(e, q)
        BY <1>9, <2>1 DEF Kept, Orderly
    <2>3. CalmGood(e) /\ ~e.tcp.connected
        BY <1>5, <1>9, <2>1, <2>2 DEF CalmGood, Kept
    <2> QED  BY <2>3 DEF e
<1>11. "no_memory" \notin Troubles
    BY DEF Mild
<1>12. \/ t = UploadEnd(a) \/ t = UploadEnd(w)
       \/ \E r \in Alloc(w) : t = Goto(connecting(r), r.p, "SYN_SENT")
    BY <1>8, <1>11, Zenon DEF ServerTcpInit, a, u
<1>13. ASSUME NEW r \in Alloc(w), t = Goto(connecting(r), r.p, "SYN_SENT")
       PROVE  CalmGood(t) /\ ~t.tcp.connected
    <2>1. PICK x : \E p \in Pcbs : /\ UpGood(x) /\ Kept(x) /\ x.tcp = w.tcp
                                   /\ r.s = Fresh(x, p) /\ r.p = p
        BY <1>5, <1>7, <1>9, AllocCalm
    <2>2. PICK p \in Pcbs : /\ UpGood(x) /\ Kept(x) /\ x.tcp = w.tcp
                            /\ r.s = Fresh(x, p) /\ r.p = p
        BY <2>1
    <2>3. connecting(r) = Connecting(Fresh(x, p), p)
        BY <2>2 DEF Connecting
    <2> HIDE DEF connecting
    <2>4. t = Goto(Connecting(Fresh(x, p), p), p, "SYN_SENT")
        BY <1>13, <2>2, <2>3
    <2>5. CalmGood(t)
        BY <1>5, <1>7, <2>2, <2>4, ConnectCalm
    <2>6. t.tcp = [x.tcp EXCEPT !.pcb = p]
        BY <2>2, <2>4 DEF Goto, Connecting, Fresh, UpGood, UpStates
    <2>7. ~t.tcp.connected
        BY <1>5, <1>7, <2>2, <2>6 DEF TcpRecord
    <2> QED  BY <2>5, <2>7
<1> QED  BY <1>4, <1>10, <1>12, <1>13

\* upload
LEMMA CallCalm ==
    ASSUME Mild, NEW s, UpGood(s), CalmGood(s), ~s.unread, NEW t \in UploadCall(s)
    PROVE  CalmGood(t) /\ (t.tcp.connected => ~t.unread)
<1>1. CASE s.countdown > 0
    <2>1. t = [s EXCEPT !.countdown = @ - 1]
        BY <1>1, Zenon DEF UploadCall
    <2>2. /\ t.tcp = s.tcp /\ t.pcb = s.pcb /\ t.pool = s.pool /\ t.active = s.active
          /\ t.bogus = s.bogus /\ t.unread = s.unread
        BY <2>1 DEF UpGood, UpStates
    <2>3. \A q \in Pcbs \ t.pool : Orderly(t, q)
        BY <2>2 DEF CalmGood, Orderly
    <2>4. t.active => Underway(t)
        BY <2>2 DEF CalmGood, Underway
    <2> QED  BY <2>2, <2>3, <2>4 DEF CalmGood
<1>2. CASE ~(s.countdown > 0)
    <2>1. t = s \/ (~s.active /\ \E n \in 0 .. MaxBatch : t \in ServerTcpInit([s EXCEPT !.active = TRUE], n))
        BY <1>2, Zenon DEF UploadCall
    <2> QED  BY <2>1, InitCalm
<1> QED  BY <1>1, <1>2

\* The same of a calm state.
LEMMA BecomesCalm ==
    ASSUME NEW s, CalmGood(s), Becomes(s)
    PROVE  CalmGood(State)'
<1> DEFINE t == State'
<1>1. /\ t.active = s.active /\ t.tcp = s.tcp /\ t.pcb = s.pcb /\ t.pool = s.pool /\ t.bogus = s.bogus
    BY DEF State, Becomes
<1> HIDE DEF t
<1>2. \A q \in Pcbs \ t.pool : Orderly(t, q)
    BY <1>1 DEF CalmGood, Orderly
<1>3. t.active => Underway(t)
    BY <1>1 DEF CalmGood, Underway
<1>4. CalmGood(t)
    BY <1>1, <1>2, <1>3 DEF CalmGood
<1> QED  BY <1>4 DEF t

\* tcp_input, callback by callback
Handled(s, p, g, u, v, t) ==
    /\ u = s \/ (g.ack /\ s.pcb[p].arg /\ u \in TcpOut(s, p))
    /\ v = [u EXCEPT !.unread = FALSE]
    /\ \/ g.data /\ v.pcb[p].rxclosed
       \/ g.fin /\ v.pcb[p].arg /\ t \in CloseConn(v, p)
       \/ t = v /\ (g.fin => ~v.pcb[p].arg)

\* Every way through tcp_input is one of these.
LEMMA DeliverCases ==
    ASSUME NEW s, NEW p, NEW g, NEW t \in Deliver(s, p, g)
    PROVE  \E u, v : Handled(s, p, g, u, v, t)
<1>1. PICK u : /\ u \in IF g.ack THEN EventSent(s, p) ELSE {s}
               /\ t \in IF g.data /\ [u EXCEPT !.unread = FALSE].pcb[p].rxclosed
                        THEN Abort([u EXCEPT !.unread = FALSE], p)
                        ELSE IF g.fin THEN EventClosed([u EXCEPT !.unread = FALSE], p)
                        ELSE {[u EXCEPT !.unread = FALSE]}
    BY ZenonT(30) DEF Deliver
<1> DEFINE v == [u EXCEPT !.unread = FALSE]
<1>2. u = s \/ (g.ack /\ s.pcb[p].arg /\ u \in TcpOut(s, p))
    <2>1. u \in IF g.ack THEN EventSent(s, p) ELSE {s}
        BY <1>1
    <2>2. u = s \/ (g.ack /\ u \in EventSent(s, p))
        BY <2>1, Zenon
    <2> QED  BY <2>2 DEF EventSent
<1>3. t \in IF g.data /\ v.pcb[p].rxclosed THEN Abort(v, p)
            ELSE IF g.fin THEN EventClosed(v, p) ELSE {v}
    BY <1>1
<1> HIDE DEF v
<1>4. \/ g.data /\ v.pcb[p].rxclosed
      \/ g.fin /\ t \in EventClosed(v, p)
      \/ t = v /\ ~g.fin
    BY <1>3, Zenon
<1>5. \/ g.data /\ v.pcb[p].rxclosed
      \/ g.fin /\ v.pcb[p].arg /\ t \in CloseConn(v, p)
      \/ t = v /\ (g.fin => ~v.pcb[p].arg)
    BY <1>4, Zenon DEF EventClosed
<1>6. Handled(s, p, g, u, v, t)
    BY <1>2, <1>5, Zenon DEF v, Handled
<1> QED  BY <1>6

\* After the last phase server_tcp_out does nothing.
LEMMA ClosedOut ==
    ASSUME NEW s, UpGood(s), s.tcp.output_phase = "CLOSED", NEW p, NEW t \in TcpOut(s, p)
    PROVE  t = s
<1>1. s.tcp.left = 0
    BY UploadAssumption DEF UpGood, UpStates, TcpRecord, Waited
<1>2. CurrentOut(s, p) = {[ok |-> TRUE, s |-> s]}
    BY <1>1, Zenon DEF CurrentOut, Ok
<1>3. NextBlock(s) = {s}
    BY DEF NextBlock
<1>4. t = s \/ \E r \in CurrentOut(s, p) : t = r.s \/ \E x \in NextBlock(r.s) : \E q \in CurrentOut(x, p) : t = q.s
    <2>1. CASE ~s.tcp.connected
        BY <2>1, Zenon DEF TcpOut
    <2>2. CASE s.tcp.connected
        <3>1. PICK r \in CurrentOut(s, p) :
                t \in IF r.ok THEN UNION {{q.s : q \in CurrentOut(x, p)} : x \in NextBlock(r.s)} ELSE {r.s}
            BY <2>2, Zenon DEF TcpOut
        <3>2. t = r.s \/ \E x \in NextBlock(r.s) : \E q \in CurrentOut(x, p) : t = q.s
            BY <3>1, Zenon
        <3> QED  BY <3>2
    <2> QED  BY <2>1, <2>2
<1>5. ASSUME NEW r \in CurrentOut(s, p), t = r.s \/ \E x \in NextBlock(r.s) : \E q \in CurrentOut(x, p) : t = q.s
      PROVE  t = s
    <2>1. r.s = s
        BY <1>2
    <2>2. t = s \/ \E x \in NextBlock(s) : \E q \in CurrentOut(x, p) : t = q.s
        BY <1>5, <2>1
    <2>3. t = s \/ \E q \in CurrentOut(s, p) : t = q.s
        BY <1>3, <2>2
    <2> QED  BY <1>2, <2>3
<1> QED  BY <1>4, <1>5

\* What a segment does while the gateway closes first.
LEMMA MildSegment ==
    ASSUME Mild, NEW st \in {"ESTABLISHED", "FIN_WAIT_1", "FIN_WAIT_2", "CLOSING"}, NEW g \in Segments(st)
    PROVE  LET x == Processed(st, g.finack, g.fin) IN
           /\ g.data => st = "ESTABLISHED" /\ ~g.ack
           /\ g.fin => st \in {"FIN_WAIT_1", "FIN_WAIT_2"} /\ x \in {"TIME_WAIT", "CLOSING"}
           /\ ~g.fin => /\ x = st \/ x \in {"FIN_WAIT_2", "TIME_WAIT"}
                        /\ x = "ESTABLISHED" <=> st = "ESTABLISHED"
                        /\ x = "TIME_WAIT" => st = "CLOSING"
                        /\ x = "CLOSING" => st = "CLOSING"
                        /\ x # "SYN_SENT"
BY DEF Mild, Segments, Processed

\* Everything but the connection p is in order; s0 is where it was before.
LEMMA DeliverCalm ==
    ASSUME Mild, NEW s0, UpGood(s0), CalmGood(s0), NEW p \in Pcbs, p \notin s0.pool,
           s0.pcb[p].state \in {"ESTABLISHED", "FIN_WAIT_1", "FIN_WAIT_2", "CLOSING"},
           NEW g \in Segments(s0.pcb[p].state),
           NEW c, c = Goto(s0, p, Processed(s0.pcb[p].state, g.finack, g.fin)),
           NEW b \in BOOLEAN, b <=> g.data \/ g.fin,
           NEW t \in Deliver([c EXCEPT !.unread = b], p, g)
    PROVE  CalmGood(t)
<1> DEFINE st == s0.pcb[p].state
           x == Processed(st, g.finack, g.fin)
           s == [c EXCEPT !.unread = b]
<1>1. /\ g.data => st = "ESTABLISHED" /\ ~g.ack
      /\ g.fin => st \in {"FIN_WAIT_1", "FIN_WAIT_2"} /\ x \in {"TIME_WAIT", "CLOSING"}
      /\ ~g.fin => /\ x = st \/ x \in {"FIN_WAIT_2", "TIME_WAIT"}
                   /\ x = "ESTABLISHED" <=> st = "ESTABLISHED"
                   /\ x = "TIME_WAIT" => st = "CLOSING"
                   /\ x = "CLOSING" => st = "CLOSING"
                   /\ x # "SYN_SENT"
    BY MildSegment
<1>2. x \in TcpStates \ {"CLOSED"} /\ Live(s0, p)
    BY <1>1 DEF TcpStates, Live
<1>3. s0 \in UpStates
    BY DEF UpGood
<1>3a. c = Goto(s0, p, x) /\ x \in TcpStates
    BY <1>2
<1> HIDE DEF x
<1>4. /\ c \in UpStates /\ c.tcp = s0.tcp /\ c.active = s0.active /\ c.pool = s0.pool /\ c.bogus = s0.bogus
      /\ c.pcb[p].state = x /\ c.pcb[p].arg = s0.pcb[p].arg /\ c.pcb[p].rxclosed = s0.pcb[p].rxclosed
      /\ \A q \in Pcbs \ {p} : c.pcb[q] = s0.pcb[q]
    <2>1. Moved(s0, c, p, x)
        BY <1>3, <1>3a, GotoFields
    <2> QED  BY <2>1 DEF Moved
<1>5. UpGood(c)
    BY <1>2, GotoGood DEF x
<1>6. /\ UpGood(s) /\ s.tcp = s0.tcp /\ s.pool = s0.pool /\ s.pcb = c.pcb
    <2>1. Likewise(c, s)
        BY <1>5, UnreadGood, Zenon
    <2> HIDE DEF s
    <2> QED  BY <1>4, <2>1 DEF Likewise
<1>7. s.active = s0.active /\ s.bogus = s0.bogus /\ s.unread = b
    BY <1>4 DEF UpStates
<1> HIDE DEF s
<1>8. Orderly(s0, p) /\ \A q \in Pcbs \ s.pool : q # p => Orderly(s, q)
    <2>1. \A q \in Pcbs \ s0.pool : Orderly(s0, q)
        BY DEF CalmGood
    <2>2. ASSUME NEW q \in Pcbs \ s.pool, q # p
          PROVE  Orderly(s, q)
        <3>1. s.pcb[q] = s0.pcb[q] /\ q \in Pcbs \ s0.pool
            BY <1>4, <1>6, <2>2
        <3> QED  BY <2>1, <3>1 DEF Orderly
    <2> QED  BY <2>1, <2>2
<1>9. s0.pcb[p].arg => s0.active /\ p = s0.tcp.pcb /\ Underway(s0)
    BY <1>2 DEF UpGood, Current, CalmGood
<1>10. PICK u, v : Handled(s, p, g, u, v, t)
    <2>1. t \in Deliver(s, p, g)
        BY DEF s
    <2> QED  BY <2>1, DeliverCases
<1>11. ASSUME UpGood(u)
       PROVE  /\ v \in UpStates /\ v.tcp = u.tcp /\ v.pcb = u.pcb /\ v.pool = u.pool /\ v.active = u.active
              /\ v.bogus = u.bogus /\ ~v.unread
    BY <1>10, <1>11 DEF UpGood, UpStates, Handled
<1>12. CASE g.fin
    <2>1. s0.pcb[p].arg => s0.tcp.connected /\ s0.tcp.output_phase = "CLOSED"
        BY <1>1, <1>9, <1>12 DEF Underway
    <2>2. u = s
        BY <1>4, <1>6, <1>10, <2>1, ClosedOut DEF Handled
    <2>3. /\ v \in UpStates /\ v.tcp = s0.tcp /\ v.pcb = c.pcb /\ v.pool = s0.pool /\ v.active = s0.active
          /\ ~v.bogus /\ ~v.unread
        BY <1>6, <1>7, <1>11, <2>2 DEF CalmGood
    <2>4. g.data \/ (v.pcb[p].arg /\ t \in CloseConn(v, p)) \/ (t = v /\ ~v.pcb[p].arg)
        BY <1>10, <1>12 DEF Handled
    <2>5. ~g.data
        BY <1>1, <1>12
    <2>6. \A q \in Pcbs \ v.pool : q # p => Orderly(v, q)
        BY <1>6, <1>8, <2>3 DEF Orderly
    <2>7. CASE v.pcb[p].arg /\ t \in CloseConn(v, p)
        <3>1. v.tcp.connected => v.tcp.output_phase = "CLOSED"
            BY <1>4, <2>1, <2>3, <2>7
        <3>2. p \notin v.pool /\ v.pcb[p].state \in {"ESTABLISHED", "FIN_WAIT_1", "FIN_WAIT_2", "CLOSING", "TIME_WAIT"}
            BY <1>1, <1>4, <1>12, <2>3
        <3> QED  BY <2>3, <2>6, <2>7, <3>1, <3>2, CloseConnCalm
    <2>8. CASE t = v /\ ~v.pcb[p].arg
        <3>1. Orderly(v, p)
            BY <1>1, <1>4, <1>12, <2>3, <2>8 DEF Orderly
        <3>2. v.active => Underway(v)
            <4> SUFFICES ASSUME v.active PROVE Underway(v)
                OBVIOUS
            <4>1. Underway(s0)
                BY <2>3 DEF CalmGood
            <4>2. s0.tcp.pcb \in Pcbs \ {p}
                BY <1>4, <2>3, <2>8, <4>1 DEF Underway
            <4>3. v.pcb[s0.tcp.pcb] = s0.pcb[s0.tcp.pcb]
                BY <1>4, <2>3, <4>2, ZenonT(40)
            <4> QED  BY <2>3, <4>1, <4>3 DEF Underway
        <3> QED  BY <2>3, <2>6, <2>8, <3>1, <3>2 DEF CalmGood
    <2> QED  BY <2>4, <2>5, <2>7, <2>8
<1>13. CASE ~g.fin
    <2>1. Orderly(s, p)
        BY <1>1, <1>4, <1>6, <1>8, <1>13 DEF Orderly
    <2>2. s.active => Underway(s)
        <3>1. CASE p = s0.tcp.pcb
            <4> SUFFICES ASSUME s.active PROVE Underway(s)
                OBVIOUS
            <4>1. Underway(s0)
                BY <1>7 DEF CalmGood
            <4>2. s.tcp = s0.tcp /\ s.pool = s0.pool /\ s.pcb[p].arg = s0.pcb[p].arg /\ s.pcb[p].state = x
                BY <1>4, <1>6
            <4>3. x # "SYN_SENT" /\ st # "SYN_SENT" /\ (x = "ESTABLISHED" <=> st = "ESTABLISHED")
                BY <1>1, <1>13
            <4> QED  BY <3>1, <4>1, <4>2, <4>3 DEF Underway
        <3>2. CASE p # s0.tcp.pcb
            <4> SUFFICES ASSUME s.active PROVE Underway(s)
                OBVIOUS
            <4>1. Underway(s0)
                BY <1>7 DEF CalmGood
            <4>2. s.pcb[s0.tcp.pcb] = s0.pcb[s0.tcp.pcb]
                <5>1. s0.tcp.pcb \in Pcbs \ {p}
                    BY <3>2, <4>1 DEF Underway
                <5>2. c.pcb[s0.tcp.pcb] = s0.pcb[s0.tcp.pcb]
                    BY <1>4, <5>1, Zenon
                <5>3. s.pcb = c.pcb
                    BY <1>6
                <5> QED  BY <5>2, <5>3
            <4> QED  BY <1>6, <4>1, <4>2 DEF Underway
        <3> QED  BY <3>1, <3>2
    <2>3. CalmGood(s)
        BY <1>6, <1>7, <1>8, <2>1, <2>2 DEF CalmGood
    <2>4. UpGood(u) /\ CalmGood(u)
        <3>1. CASE u = s
            BY <1>6, <2>3, <3>1
        <3>2. CASE g.ack /\ s.pcb[p].arg /\ u \in TcpOut(s, p)
            <4>1. ~s.unread /\ p = s.tcp.pcb
                BY <1>1, <1>4, <1>6, <1>7, <1>9, <1>13, <3>2
            <4> QED  BY <1>6, <2>3, <3>2, <4>1, TcpOutGood, TcpOutCalm
        <3> QED  BY <1>10, <3>1, <3>2 DEF Handled
    <2>5. /\ v.tcp = u.tcp /\ v.pcb = u.pcb /\ v.pool = u.pool /\ v.active = u.active /\ v.bogus = u.bogus
        BY <1>11, <2>4
    <2>6. (g.data /\ v.pcb[p].rxclosed) \/ t = v
        BY <1>10, <1>13 DEF Handled
    <2>7. ~(g.data /\ v.pcb[p].rxclosed)
        <3> SUFFICES ASSUME g.data PROVE ~v.pcb[p].rxclosed
            OBVIOUS
        <3>1. u = s
            BY <1>1, <1>10 DEF Handled
        <3>2. st = "ESTABLISHED"
            BY <1>1
        <3> QED  BY <1>4, <1>6, <1>8, <2>5, <3>1, <3>2, ZenonT(40) DEF Orderly
    <2>8. CalmGood(v)
        <3>1. \A q \in Pcbs \ v.pool : Orderly(v, q)
            BY <2>4, <2>5 DEF CalmGood, Orderly
        <3>2. v.active => Underway(v)
            BY <2>4, <2>5 DEF CalmGood, Underway
        <3> QED  BY <2>4, <2>5, <3>1, <3>2 DEF CalmGood
    <2> QED  BY <2>6, <2>7, <2>8
<1> QED  BY <1>12, <1>13

\* As long as the server only resets connections or stops answering, the upload
\* under way has a connection that can call back, and the callbacks of each
\* connection end with its FIN.
THEOREM CalmInvariance ==
    ASSUME Mild
    PROVE  Spec => []CalmInv
<1>1. Init => CalmGood(State)
    <2> SUFFICES ASSUME Init PROVE CalmGood(State)
        OBVIOUS
    <2>1. State.pool = Pcbs /\ ~State.active /\ ~State.tcp.connected /\ ~State.bogus
        BY DEF Init, State, Cleared
    <2> QED  BY <2>1 DEF CalmGood
<1>2. UploadInv /\ CalmGood(State) /\ [Next]_vars => CalmGood(State)'
    <2> SUFFICES ASSUME UploadInv, CalmGood(State), [Next]_vars PROVE CalmGood(State)'
        OBVIOUS
    <2> DEFINE s0 == State
    <2>1. UpGood(s0) /\ CalmGood(s0) /\ ~s0.unread
        BY DEF UploadInv, State
    <2>2. /\ s0.pool = pool /\ s0.pcb = pcb /\ s0.tcp = server_tcp /\ s0.active = active
        BY DEF State
    <2> HIDE DEF s0
    <2>3. ASSUME NEW p \in Pcbs, Alive(p)
          PROVE  p \notin s0.pool /\ Live(s0, p) /\ Orderly(s0, p)
        BY <2>1, <2>2, <2>3 DEF Alive, Live, CalmGood
    <2>4. CASE Tick
        <3>1. PICK t, s : t \in UploadCall(s0) /\ s \in TcpOut(t, t.tcp.pcb) /\ Becomes(s)
            BY <2>4, Zenon DEF Tick, Service, s0
        <3>2. UpGood(t) /\ CalmGood(t) /\ (t.tcp.connected => ~t.unread)
            BY <2>1, <3>1, CallGood, CallCalm
        <3>3. CalmGood(s)
            BY <3>1, <3>2, TcpOutCalm
        <3> QED  BY <3>1, <3>3, BecomesCalm
    <2>5. ASSUME NEW p \in Pcbs, Connected(p)
          PROVE  CalmGood(State)'
        <3> DEFINE g == Goto(s0, p, "ESTABLISHED")
                   b == pcb[p].arg \/ g.tcp.connected
                   t == [g EXCEPT !.tcp.connected = b]
        <3>1. Alive(p) /\ pcb[p].state = "SYN_SENT" /\ Becomes(t)
            BY <2>5 DEF Connected, s0
        <3>2. s0.pcb[p].arg /\ ~s0.pcb[p].rxclosed /\ s0.pcb[p].state = "SYN_SENT" /\ p \notin s0.pool
            BY <2>2, <2>3, <3>1 DEF Orderly
        <3>3. s0.active /\ p = s0.tcp.pcb /\ s0.tcp.output_phase = "HTTP_HEADER"
            BY <2>1, <2>3, <3>1, <3>2 DEF UpGood, Current, CalmGood, Underway
        <3>4. b = TRUE
            BY <2>2, <3>2
        <3>5. /\ g \in UpStates /\ g.tcp = s0.tcp /\ g.active = s0.active /\ g.pool = s0.pool /\ g.bogus = s0.bogus
              /\ g.pcb[p].state = "ESTABLISHED" /\ g.pcb[p].arg = s0.pcb[p].arg
              /\ g.pcb[p].rxclosed = s0.pcb[p].rxclosed
              /\ \A q \in Pcbs \ {p} : g.pcb[q] = s0.pcb[q]
            <4>1. s0 \in UpStates /\ "ESTABLISHED" \in TcpStates
                BY <2>1 DEF UpGood, TcpStates
            <4>2. Moved(s0, g, p, "ESTABLISHED")
                BY <4>1, GotoFields, Zenon
            <4> HIDE DEF g
            <4> QED  BY <4>2 DEF Moved
        <3> HIDE DEF g, b
        <3>6. /\ t.tcp.pcb = p /\ t.tcp.connected /\ t.tcp.output_phase = "HTTP_HEADER" /\ t.active
              /\ t.pool = s0.pool /\ t.pcb = g.pcb /\ ~t.bogus
            BY <2>1, <3>3, <3>4, <3>5 DEF UpStates, TcpRecord, CalmGood
        <3> HIDE DEF t
        <3>7. \A q \in Pcbs \ t.pool : Orderly(t, q)
            <4>1. ASSUME NEW q \in Pcbs \ t.pool, q # p
                  PROVE  Orderly(t, q)
                <5>1. q \in Pcbs \ s0.pool /\ t.pcb[q] = s0.pcb[q]
                    BY <3>5, <3>6, <4>1
                <5>2. Orderly(s0, q)
                    BY <2>1, <5>1 DEF CalmGood
                <5> QED  BY <5>1, <5>2, OrderlyKept
            <4>2. Orderly(t, p)
                BY <3>2, <3>5, <3>6 DEF Orderly
            <4> QED  BY <4>1, <4>2
        <3>8. Underway(t)
            BY <3>2, <3>5, <3>6 DEF Underway
        <3>9. CalmGood(t)
            BY <3>6, <3>7, <3>8 DEF CalmGood
        <3> QED  BY <3>1, <3>9, BecomesCalm
    <2>6. ASSUME NEW p \in Pcbs, Alive(p), pcb[p].state # "SYN_SENT", NEW s \in EventErr(s0, p)
          PROVE  UpGood(s) /\ CalmGood(s) /\ p \notin s.pool /\ (s.active => p # s.tcp.pcb)
        <3>1. p \notin s0.pool /\ Live(s0, p) /\ s0.pcb[p].state # "SYN_SENT"
            BY <2>2, <2>3, <2>6
        <3>2. UpGood(s)
            BY <2>1, <2>6, <3>1, EventErrGood
        <3> QED  BY <2>1, <2>6, <3>1, <3>2, EventErrCalm
    <2>7. ASSUME NEW p \in Pcbs, Reset(p)
          PROVE  CalmGood(State)'
        <3>1. Alive(p) /\ pcb[p].state # "SYN_SENT"
            BY <2>7 DEF Reset, Mild
        <3>2. PICK s \in EventErr(s0, p) : Becomes(Free(Goto(s, p, "CLOSED"), p))
            BY <2>7 DEF Reset, s0
        <3> QED  BY <2>6, <3>1, <3>2, CalmFreeClosed, BecomesCalm
    <2>8. ASSUME NEW p \in Pcbs, GiveUp(p)
          PROVE  CalmGood(State)'
        <3>1. Alive(p) /\ pcb[p].state # "SYN_SENT"
            BY <2>8 DEF GiveUp, Mild
        <3>2. PICK s \in EventErr(s0, p) : Becomes(Free(s, p))
            BY <2>8 DEF GiveUp, s0
        <3> QED  BY <2>6, <3>1, <3>2, CalmFree, BecomesCalm
    <2>9. ASSUME NEW p \in Pcbs, TimeWaitOver(p)
          PROVE  CalmGood(State)'
        <3>1. Becomes(Free(s0, p)) /\ Alive(p) /\ pcb[p].state = "TIME_WAIT"
            BY <2>9 DEF TimeWaitOver, s0
        <3>2. p \notin s0.pool /\ (s0.active => p # s0.tcp.pcb)
            BY <2>1, <2>2, <2>3, <3>1 DEF CalmGood, Underway, Orderly
        <3> QED  BY <2>1, <3>1, <3>2, CalmFree, BecomesCalm
    <2>10. ASSUME NEW p \in Pcbs, Segment(p)
           PROVE  CalmGood(State)'
        <3>1. Alive(p) /\ pcb[p].state \notin {"SYN_SENT", "TIME_WAIT"}
            BY <2>10 DEF Segment
        <3>2. s0.pcb[p].state \in {"ESTABLISHED", "FIN_WAIT_1", "FIN_WAIT_2", "CLOSING"} /\ p \notin s0.pool
            BY <2>2, <2>3, <3>1 DEF Orderly
        <3>3. pcb[p].state # "LAST_ACK"
            BY <2>2, <3>2
        <3>4. PICK g \in Segments(pcb[p].state) :
                LET s == [Goto(s0, p, Processed(pcb[p].state, g.finack, g.fin)) EXCEPT !.unread = g.data \/ g.fin]
                IN  \E t \in Deliver(s, p, g) : Becomes(t)
            BY <2>10, <3>3, Zenon DEF Segment, s0
        <3>5. PICK b \in BOOLEAN : b = (g.data \/ g.fin)
            OBVIOUS
        <3>6. PICK c : c = Goto(s0, p, Processed(s0.pcb[p].state, g.finack, g.fin))
            OBVIOUS
        <3>7. PICK t \in Deliver([c EXCEPT !.unread = b], p, g) : Becomes(t)
            BY <2>2, <3>4, <3>5, <3>6, Zenon
        <3>8. g \in Segments(s0.pcb[p].state) /\ (b <=> g.data \/ g.fin)
            BY <2>2, <3>5
        <3>9. CalmGood(t)
            BY <2>1, <3>2, <3>6, <3>8, DeliverCalm
        <3> QED  BY <3>7, <3>9, BecomesCalm
    <2>11. CASE UNCHANGED vars
        <3>1. State' = State
            BY <2>11 DEF vars, State
        <3> QED  BY <3>1
    <2> QED  BY <2>4, <2>5, <2>7, <2>8, <2>9, <2>10, <2>11 DEF Next
<1> QED  BY <1>1, <1>2, UploadInvariance, PTL DEF Spec, CalmInv

\* Then upload_end is called for every upload, no control block is freed twice,
\* and those in use are on their way back to the pool.
THEOREM CalmUploads ==
    ASSUME Mild
    PROVE  Spec => [](UploadEndIsCalled /\ NoDoubleFree /\ PcbsReturn)
<1>1. CalmInv => UploadEndIsCalled /\ NoDoubleFree /\ PcbsReturn
    <2> SUFFICES ASSUME CalmInv PROVE UploadEndIsCalled /\ NoDoubleFree /\ PcbsReturn
        OBVIOUS
    <2>1. /\ UpGood(State) /\ CalmGood(State)
          /\ State.pool = pool /\ State.pcb = pcb /\ State.tcp = server_tcp /\ State.active = active
          /\ State.bogus = bogus
        BY DEF CalmInv, UploadInv, State
    <2>2. \A p \in Pcbs \ pool : pcb[p].state # "CLOSED"
        BY <2>1 DEF CalmGood, Orderly
    <2>3. UploadEndIsCalled
        BY <2>1, <2>2, UploadAssumption DEF CalmGood, Underway, UploadEndIsCalled, Alive
    <2>4. NoDoubleFree
        BY <2>1 DEF CalmGood, NoDoubleFree
    <2>5. PcbsReturn
        BY <2>1, <2>2 DEF UpGood, Current, Live, PcbsReturn
    <2> QED  BY <2>3, <2>4, <2>5
<1> QED  BY <1>1, CalmInvariance, PTL
=============================================================================
