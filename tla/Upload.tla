------------------------------- MODULE Upload -------------------------------
(***************************************************************************)
(* The upload of records to the database: src/upload.c, src/server_tcp.c   *)
(* and the life of a TCP control block in the lwIP kept in src/lwip.       *)
(*                                                                         *)
(* Everything runs in net_service, called from the RIT interrupt: one      *)
(* segment and the expired timers first, then upload() and                 *)
(* server_tcp_service().  lwIP calls back into server_tcp.c in the middle  *)
(* of handling a segment or a timer, and that code calls back into lwIP    *)
(* and into upload.c; each of these functions is an operator from a state  *)
(* (a record) to the set of states it may leave.                           *)
(*                                                                         *)
(* server_tcp.pcb is a pointer that nothing ever clears.  A control block  *)
(* that is freed goes back to the pool but its state stays readable        *)
(* through that pointer, as it does in memory.                             *)
(***************************************************************************)
EXTENDS Integers, Sequences, FiniteSets

CONSTANTS
    Pcbs,              \* the pool, MEMP_NUM_TCP_PCB = 5 of them
    NoPcb,             \* NULL
    FirstWait,         \* ticks until the first upload: 20000
    UploadWait,        \* UPLOAD_WAIT: 600000 ticks
    WaitBeforeClose,   \* WAIT_BEFORE_CLOSE: 30000 ticks
    MaxWriteErr,       \* MAX_WRITE_ERR_BEFORE_CLOSE: 20000 ticks
    MaxBatch,          \* records of an upload: at most 1000
    Pieces,            \* bound: tcp_write calls one block may take
    Troubles           \* what may go wrong: a subset of the kinds below

\* The server refuses the connection or never answers the SYN; resets an open
\* connection; stops answering on one; closes it before the gateway does; sends
\* data on it after the gateway has closed; sends data with the acknowledgement
\* of data; takes no data for so long that MaxWriteErr is exceeded.  lwIP has no
\* memory for a SYN or FIN, or no route to the server.
TroubleKinds == {"refusal", "reset", "silence", "server_closes", "late_data", "piggyback",
                 "stall", "no_memory"}

ASSUME UploadAssumption ==
    /\ NoPcb \notin Pcbs /\ IsFiniteSet(Pcbs) /\ Pcbs # {}
    /\ UploadWait \in Nat \ {0} /\ FirstWait \in 0 .. UploadWait
    /\ WaitBeforeClose \in Nat /\ MaxWriteErr \in Nat
    /\ MaxBatch \in Nat /\ Pieces \in Nat \ {0}
    /\ Troubles \subseteq TroubleKinds

VARIABLES
    active, upload_countdown,   \* upload.c
    server_tcp,                 \* struct server_tcp_state
    pcb,                        \* the control blocks
    pool,                       \* those that are free
    bogus                       \* ghost: a free control block was freed again

vars == <<active, upload_countdown, server_tcp, pcb, pool, bogus>>

\* The struct after memset.  left: pieces of the output buffer not yet written;
\* request (ghost): the blocks handed to TCP.
Cleared ==
    [pcb |-> NoPcb, connected |-> FALSE, output_phase |-> "HTTP_HEADER",
     records_index |-> 0, records_count |-> 0, block |-> "none", left |-> 0,
     wait |-> 0, write_err |-> 0, request |-> <<>>]

\* A control block after tcp_alloc.  arg: its argument and callbacks are set.
NewPcb == [state |-> "CLOSED", arg |-> FALSE, rxclosed |-> FALSE]

\* unread: TCP has data or a FIN the application has not been given.
State == [active |-> active, countdown |-> upload_countdown, tcp |-> server_tcp,
          pcb |-> pcb, pool |-> pool, bogus |-> bogus, unread |-> FALSE]

Becomes(s) ==
    /\ active' = s.active /\ upload_countdown' = s.countdown /\ server_tcp' = s.tcp
    /\ pcb' = s.pcb /\ pool' = s.pool /\ bogus' = s.bogus

Init ==
    /\ active = FALSE /\ upload_countdown = FirstWait
    /\ server_tcp = Cleared
    /\ pcb = [p \in Pcbs |-> NewPcb] /\ pool = Pcbs /\ bogus = FALSE

-----------------------------------------------------------------------------
(* lwIP: closing and freeing a control block *)

\* The states that may follow, with whether the call returned ERR_OK.
Ok(s) == {[ok |-> TRUE, s |-> s]}
OrNoMemory(good, s) ==
    Ok(good) \cup (IF "no_memory" \in Troubles THEN {[ok |-> FALSE, s |-> s]} ELSE {})

Goto(s, p, state) == [s EXCEPT !.pcb[p].state = state]

\* memp_free.  A block freed again would be on its list twice and be given out
\* twice; the pool is a set, and says nothing of what follows.
Free(s, p) == [s EXCEPT !.pool = @ \cup {p}, !.bogus = @ \/ p \in s.pool]

\* tcp_close
TcpClose(s, p) ==
    LET t == [s EXCEPT !.pcb[p].rxclosed = TRUE]
    IN  IF s.unread THEN Ok(Goto(t, p, "TIME_WAIT"))
        ELSE CASE s.pcb[p].state = "CLOSED"      -> Ok(Free(t, p))
               [] s.pcb[p].state = "SYN_SENT"    -> Ok(Free(Goto(t, p, "CLOSED"), p))
               [] s.pcb[p].state = "ESTABLISHED" -> OrNoMemory(Goto(t, p, "FIN_WAIT_1"), t)
               [] s.pcb[p].state = "CLOSE_WAIT"  -> OrNoMemory(Goto(t, p, "LAST_ACK"), t)
               [] OTHER                          -> Ok(t)

-----------------------------------------------------------------------------
(* server_tcp.c *)

\* upload_end
UploadEnd(s) == [s EXCEPT !.active = FALSE, !.countdown = UploadWait]

\* Mutant: upload_end is not called.
CloseConnSilent(s, p) == {r.s : r \in TcpClose([s EXCEPT !.pcb[p].arg = FALSE], p)}
\* server_tcp_close_conn
CloseConn(s, p) ==
    {IF r.ok THEN UploadEnd(r.s) ELSE r.s : r \in TcpClose([s EXCEPT !.pcb[p].arg = FALSE], p)}

\* Mutant: the connection still counts as connected.
ServerTcpErrConnected(s) ==
    IF s.tcp.pcb # NoPcb THEN CloseConn(s, s.tcp.pcb) ELSE {s}
\* server_tcp_err
ServerTcpErr(s) ==
    LET t == [s EXCEPT !.tcp.connected = FALSE]
    IN  IF t.tcp.pcb # NoPcb THEN CloseConn(t, t.tcp.pcb) ELSE {t}

\* tcp_write of the rest of the block, or by server_tcp_write of less and less of
\* it: the pieces taken, 0 for an error.
Writes(s, p) ==
    IF s.pcb[p].state \in {"SYN_SENT", "ESTABLISHED", "CLOSE_WAIT"}
    THEN {n \in 0 .. s.tcp.left :
            n = 0 => "stall" \in Troubles \/ s.tcp.write_err < MaxWriteErr}
    ELSE {0}

\* server_current_tcp_out; ok: the block is empty.  write_err stops counting
\* beyond the limit, where more makes no difference.
Min2(a, b) == IF a < b THEN a ELSE b
CurrentOut(s, p) ==
    LET failing == [s EXCEPT !.tcp.write_err = Min2(@ + 1, MaxWriteErr + 1)]
        wrote(n) == [s EXCEPT !.tcp.left = @ - n]
    IN  IF s.tcp.left = 0 THEN Ok(s)
        ELSE UNION {IF n = 0
                    THEN {[ok |-> FALSE, s |-> t] :
                            t \in IF failing.tcp.write_err > MaxWriteErr
                                  THEN CloseConn(failing, p) ELSE {failing}}
                    ELSE IF n = s.tcp.left
                    THEN Ok([wrote(n) EXCEPT !.tcp.request = Append(@, s.tcp.block)])
                    ELSE {[ok |-> FALSE, s |-> [wrote(n) EXCEPT !.tcp.write_err = 0]]} :
                      n \in Writes(s, p)}

\* A block of output in the buffer, and the phase after it.
Load(s, block, phase) ==
    [s EXCEPT !.tcp.block = block, !.tcp.left = Pieces, !.tcp.output_phase = phase]

MoreRecordsShort(s) == s.tcp.records_index + 1 < s.tcp.records_count
MoreRecords(s) == s.tcp.records_index < s.tcp.records_count

\* The switch of server_tcp_out.
NextBlock(s) ==
    LET phase == s.tcp.output_phase
        more == MoreRecords(s)
        next == [s EXCEPT !.tcp.records_index = @ + 1]
    IN  CASE phase = "HTTP_HEADER" -> {Load(s, "header", "JSON_HEADER")}
          [] phase = "JSON_HEADER" -> {Load(s, "open", "JSON_DATA")}
          [] phase = "JSON_DATA" /\ more ->
               {Load(next, IF next.tcp.records_index < s.tcp.records_count
                           THEN "element," ELSE "element", phase)}
          [] phase = "JSON_DATA" /\ ~more -> {[next EXCEPT !.tcp.output_phase = "JSON_FOOTER"]}
          [] phase = "JSON_FOOTER" -> {Load(s, "close", "WAIT_BEFORE_CLOSE")}
          [] phase = "WAIT_BEFORE_CLOSE" ->
               {[s EXCEPT !.tcp.wait = @ + 1,
                          !.tcp.output_phase = IF s.tcp.wait > WaitBeforeClose THEN "CLOSE" ELSE @]}
          [] phase = "CLOSE" ->
               {[r.s EXCEPT !.tcp.output_phase = "CLOSED"] : r \in TcpClose(s, s.tcp.pcb)}
          [] phase = "CLOSED" -> {s}

\* server_tcp_out
TcpOut(s, p) ==
    IF ~s.tcp.connected THEN {s}
    ELSE UNION {IF r.ok THEN UNION {{q.s : q \in CurrentOut(t, p)} : t \in NextBlock(r.s)}
                        ELSE {r.s} : r \in CurrentOut(s, p)}

-----------------------------------------------------------------------------
(* lwIP: the callbacks *)

\* TCP_EVENT_ERR, _SENT and _CLOSED (server_tcp_recv without data)
EventErr(s, p) == IF s.pcb[p].arg THEN ServerTcpErr(s) ELSE {s}
EventSent(s, p) == IF s.pcb[p].arg THEN TcpOut(s, p) ELSE {s}
EventClosed(s, p) == IF s.pcb[p].arg THEN CloseConn(s, p) ELSE {s}

\* tcp_abort
Abort(s, p) ==
    IF s.pcb[p].state = "TIME_WAIT" THEN {Free(Goto(s, p, "CLOSED"), p)}
    ELSE EventErr(Free(Goto(s, p, "CLOSED"), p), p)

\* tcp_alloc: a free block, or else the one of a connection in TIME_WAIT or,
\* failing that, of any connection, all being of the same priority.
Alloc(s) ==
    LET killable == {p \in Pcbs : s.pcb[p].state = "TIME_WAIT"}
        waiting == IF killable # {} THEN killable ELSE {p \in Pcbs : s.pcb[p].state # "CLOSED"}
        killed == IF s.pool = {} THEN UNION {Abort(s, p) : p \in waiting} ELSE {s}
        fresh(t) == {[s |-> [t EXCEPT !.pool = @ \ {p}, !.pcb[p] = NewPcb], p |-> p] : p \in t.pool}
    IN  UNION {fresh(t) : t \in killed}

-----------------------------------------------------------------------------
(* The tick: upload() and server_tcp_service() *)

\* server_tcp_init, tcp_connect included.  A failure leaves the control block
\* allocated; couchdb_start_upload then calls upload_end.
ServerTcpInit(s, count) ==
    IF count = 0 THEN {UploadEnd(s)}
    ELSE LET t == [s EXCEPT !.tcp = [Cleared EXCEPT !.records_count = count]]
             connecting(r) == [r.s EXCEPT !.tcp.pcb = r.p, !.pcb[r.p].arg = TRUE]
         IN  IF Alloc(t) = {} THEN {UploadEnd(t)}
             ELSE {Goto(connecting(r), r.p, "SYN_SENT") : r \in Alloc(t)}
                  \cup (IF "no_memory" \in Troubles
                        THEN {UploadEnd(connecting(r)) : r \in Alloc(t)} ELSE {})

\* upload, with the link up or down
UploadCall(s) ==
    IF s.countdown > 0 THEN {[s EXCEPT !.countdown = @ - 1]}
    ELSE IF s.active THEN {s}
    ELSE {s} \cup UNION {ServerTcpInit([s EXCEPT !.active = TRUE], n) : n \in 0 .. MaxBatch}

\* server_tcp_service
Service(s) == TcpOut(s, s.tcp.pcb)

Tick == \E s \in UNION {Service(t) : t \in UploadCall(State)} : Becomes(s)

-----------------------------------------------------------------------------
(* Segments and timers *)

Alive(p) == p \notin pool /\ pcb[p].state # "CLOSED"

\* The SYN is answered; server_tcp_connected.
Connected(p) ==
    /\ Alive(p) /\ pcb[p].state = "SYN_SENT"
    /\ Becomes([Goto(State, p, "ESTABLISHED") EXCEPT !.tcp.connected = pcb[p].arg \/ @])

\* A reset: the error callback, then the control block is removed and freed.
Reset(p) ==
    /\ Alive(p) /\ pcb[p].state # "TIME_WAIT"
    /\ (IF pcb[p].state = "SYN_SENT" THEN "refusal" ELSE "reset") \in Troubles
    /\ \E s \in EventErr(State, p) : Becomes(Free(Goto(s, p, "CLOSED"), p))

\* tcp_slowtmr: too many retransmissions, or too long in FIN_WAIT_2 or LAST_ACK.
\* The control block is freed as the error callback leaves it.
GiveUp(p) ==
    /\ Alive(p) /\ pcb[p].state # "TIME_WAIT"
    /\ pcb[p].state = "SYN_SENT" => "refusal" \in Troubles
    /\ pcb[p].state \in {"ESTABLISHED", "CLOSE_WAIT"} => "silence" \in Troubles
    /\ \E s \in EventErr(State, p) : Becomes(Free(s, p))

\* tcp_slowtmr: long enough in TIME_WAIT.
TimeWaitOver(p) == Alive(p) /\ pcb[p].state = "TIME_WAIT" /\ Becomes(Free(State, p))

\* tcp_process: the state after a segment that acknowledges our FIN (finack) or
\* carries the server's (fin).
Processed(state, finack, fin) ==
    CASE state \in {"ESTABLISHED", "CLOSE_WAIT"} -> IF fin THEN "CLOSE_WAIT" ELSE state
      [] state = "FIN_WAIT_1" -> IF fin THEN IF finack THEN "TIME_WAIT" ELSE "CLOSING"
                                 ELSE IF finack THEN "FIN_WAIT_2" ELSE state
      [] state = "FIN_WAIT_2" -> IF fin THEN "TIME_WAIT" ELSE state
      [] state = "CLOSING" -> IF finack THEN "TIME_WAIT" ELSE state
      [] OTHER -> state

\* The segments the server may send on a connection in this state.
Segments(state) ==
    {g \in [ack : BOOLEAN, finack : BOOLEAN, data : BOOLEAN, fin : BOOLEAN] :
       /\ g.finack => state \in {"FIN_WAIT_1", "CLOSING", "LAST_ACK"}
       /\ g.fin => state \in {"ESTABLISHED", "FIN_WAIT_1", "FIN_WAIT_2"}
       /\ g.fin /\ state = "ESTABLISHED" => "server_closes" \in Troubles
       /\ g.data => state \in {"ESTABLISHED", "FIN_WAIT_1", "FIN_WAIT_2"}
       /\ g.data /\ state # "ESTABLISHED" => "late_data" \in Troubles
       /\ g.ack => state \in {"ESTABLISHED", "FIN_WAIT_1", "LAST_ACK"}
       /\ g.ack /\ g.data => "piggyback" \in Troubles
       /\ g.ack \/ g.finack \/ g.data \/ g.fin}

\* tcp_input: the state machine, then the sent callback, the data, the FIN.
\* server_tcp_recv parses data, which changes nothing here.
Deliver(s, p, g) ==
    UNION {IF g.data /\ t.pcb[p].rxclosed
           THEN Abort(t, p)
           ELSE IF g.fin THEN EventClosed(t, p) ELSE {t} :
             t \in {[u EXCEPT !.unread = FALSE] :
                      u \in IF g.ack THEN EventSent(s, p) ELSE {s}}}

Segment(p) ==
    /\ Alive(p) /\ pcb[p].state \notin {"SYN_SENT", "TIME_WAIT"}
    /\ \E g \in Segments(pcb[p].state) :
         LET s == [Goto(State, p, Processed(pcb[p].state, g.finack, g.fin)) EXCEPT
                     !.unread = g.data \/ g.fin]
         IN  IF pcb[p].state = "LAST_ACK" /\ g.finack
             THEN Becomes(Free(Goto(State, p, "CLOSED"), p))
             ELSE \E t \in Deliver(s, p, g) : Becomes(t)

-----------------------------------------------------------------------------
Next ==
    \/ Tick
    \/ \E p \in Pcbs : Connected(p) \/ Reset(p) \/ GiveUp(p) \/ TimeWaitOver(p) \/ Segment(p)

Spec == Init /\ [][Next]_vars

\* The RIT interrupt keeps coming; time and again the link is up and there are
\* records when an upload is due; and the timers of lwIP end every wait of a
\* connection that is not established.
StartsUpload == Tick /\ ~active /\ active'
Expire(p) == pcb[p].state # "ESTABLISHED" /\ (Connected(p) \/ GiveUp(p) \/ TimeWaitOver(p))
Fairness == WF_vars(Tick) /\ SF_vars(StartsUpload) /\ \A p \in Pcbs : WF_vars(Expire(p))
FairSpec == Spec /\ Fairness

-----------------------------------------------------------------------------
\* The request announced for n records.
Request(n) ==
    <<"header", "open">> \o [k \in 1 .. n |-> IF k < n THEN "element," ELSE "element"] \o <<"close">>

\* The pointers and states are those the code can produce and the counters stay
\* within one step of their limits.
TypeOK ==
    /\ active \in BOOLEAN /\ upload_countdown \in 0 .. UploadWait /\ bogus \in BOOLEAN
    /\ pool \subseteq Pcbs
    /\ pcb \in [Pcbs -> [state : {"CLOSED", "SYN_SENT", "ESTABLISHED", "CLOSE_WAIT", "FIN_WAIT_1",
                                  "FIN_WAIT_2", "CLOSING", "LAST_ACK", "TIME_WAIT"},
                         arg : BOOLEAN, rxclosed : BOOLEAN]]
    /\ server_tcp.pcb \in Pcbs \cup {NoPcb}
    /\ server_tcp.connected => server_tcp.pcb # NoPcb
    /\ server_tcp.records_count \in 0 .. MaxBatch
    /\ server_tcp.records_index \in 0 .. server_tcp.records_count + 1
    /\ server_tcp.left \in 0 .. Pieces
    /\ server_tcp.wait \in 0 .. WaitBeforeClose + 2

\* However server_tcp_service and server_tcp_sent take turns and whatever writes
\* fail or are cut short, what server_tcp_out hands to TCP is the announced
\* request, element by element, and the wait begins only after all of it.
RequestWellFormed ==
    LET whole == Request(server_tcp.records_count)
        sent == server_tcp.request
    IN  /\ Len(sent) <= Len(whole) /\ sent = SubSeq(whole, 1, Len(sent))
        /\ server_tcp.wait > 0 => sent = whole

\* No callback of an earlier connection (a record it has acknowledged, say)
\* reaches server_tcp.c once server_tcp_close_conn or a new upload has taken over.
CallbacksAreCurrent ==
    \A p \in Pcbs : Alive(p) /\ pcb[p].arg => active /\ p = server_tcp.pcb

\* upload_end is called "when the upload process ends, either through success or
\* failure": as long as an upload is active its connection can still call back.
UploadEndIsCalled ==
    active => server_tcp.pcb # NoPcb /\ Alive(server_tcp.pcb) /\ pcb[server_tcp.pcb].arg

\* No control block is freed twice: tcp_close is not called through
\* server_tcp.pcb once lwIP has freed what it points to.
NoDoubleFree == ~bogus

\* Every control block in use is on its way to being freed, or is the one of
\* the current upload: failed connections do not use up the pool.
PcbsReturn ==
    \A p \in Pcbs \ pool : pcb[p].state # "CLOSED" /\ (pcb[p].arg => p = server_tcp.pcb)

\* Every upload ends, "either through success or failure", and after the wait
\* there is another.
UploadsRecur == []<>active /\ []<>~active

\* What the callbacks of server_tcp.c and upload.c keep true of the request and
\* its connection, whatever the server does, up to the first control block that
\* is freed twice: after that memp's list may give out one block to two users.
UploadSound == TypeOK /\ (NoDoubleFree => RequestWellFormed /\ CallbacksAreCurrent)
=============================================================================
