----------------------------- MODULE MCConnection -----------------------------
(***************************************************************************)
(* An upload and what it rests on for TLC: both directions of the TCP      *)
(* connection, its life (Upload), the text that is sent over it and the    *)
(* answer, and the way of a record from the sensor to the database.        *)
(* A behaviour is one of a single part, chosen at the start; the others    *)
(* keep their initial state.                                               *)
(***************************************************************************)
EXTENDS TcpSend, TcpRecv, Upload, Gateway, HttpTx, Base64, HttpRx

CONSTANT Parts   \* the parts to check

VARIABLE part

\* Uploads on which little goes wrong: the server resets connections or stops
\* answering.
Calm == INSTANCE Upload WITH Troubles <- {"reset", "silence"}

MCVars == <<part, varsSnd, varsRcv, vars, varsGateway, varsTx, varsBase64, varsHttpRx>>

\* Ids inside other fields, at their ends and as whole values
MCValues == {<<>>, <<"i">>, <<"i", "d">>, <<"colon">>,
             <<"o", "quote", "i", "d", "o", "quote", "colon">>, <<"o">>}

MCInit ==
    /\ part \in Parts
    /\ InitSnd /\ InitRcv /\ Init /\ InitGateway /\ InitTx /\ InitBase64 /\ InitHttpRx
    /\ part # "recv" => ~short

\* A step of part p alone
Only(p) ==
    /\ part = p /\ UNCHANGED part
    /\ (p # "send" => UNCHANGED varsSnd) /\ (p # "recv" => UNCHANGED varsRcv)
    /\ (p \notin {"upload", "calm"} => UNCHANGED vars)
    /\ (p # "gateway" => UNCHANGED varsGateway) /\ (p # "http_tx" => UNCHANGED varsTx)
    /\ (p # "base64" => UNCHANGED varsBase64) /\ (p # "http_rx" => UNCHANGED varsHttpRx)

MCNext ==
    \/ Only("send") /\ NextSnd
    \/ Only("recv") /\ NextRcv
    \/ Only("upload") /\ Next
    \/ Only("calm") /\ Calm!Next
    \/ Only("gateway") /\ NextGateway
    \/ Only("http_tx") /\ NextTx
    \/ Only("base64") /\ Encode
    \/ Only("http_rx") /\ NextHttpRx

\* Sending: a timer that runs is due in the end, the server reads what it has, and a packet
\* arrives unless it is one of the few that are lost.
FairSnd ==
    /\ []<>(part = "send" => ~TimerPending)
    /\ WF_acks(part = "send" /\ snd.state # "CLOSED" /\ \E a \in acks : acks' = acks \ {a})
    /\ WF_net(part = "send" /\ \E m \in net : net' = net \ {m})
    /\ WF_varsSnd(Only("send") /\ PeerReads)

\* Receiving: the server retransmits what it has no acknowledgement for,
\* acknowledgements arrive in the end, and memory comes back.
FairRcv ==
    /\ WF_resent(part = "recv" /\ una # Add(IRS, Stream + 1) /\ rcv.state # "RESET"
                   /\ resent' = ~resent)
    /\ WF_una(part = "recv" /\ una # rcv.sent /\ una' = rcv.sent)
    /\ WF_short(part = "recv" /\ short /\ short' = FALSE)

\* The gateway: sensors try again, the RIT interrupt comes, the radio transmits,
\* uploads recur.
FairGateway ==
    /\ WF_varsGateway(Only("gateway") /\ SensorSends)
    /\ WF_varsGateway(Only("gateway") /\ block_uploaded)
    /\ WF_varsGateway(Only("gateway") /\ StoreRecord)
    /\ WF_varsGateway(Only("gateway") /\ Acknowledge)
    /\ WF_varsGateway(Only("gateway") /\ UploadAll)

\* Uploads: as in Upload.
FairCalm ==
    /\ WF_vars(Only("calm") /\ Calm!Tick) /\ SF_vars(Only("calm") /\ Calm!StartsUpload)
    /\ \A p \in Pcbs : WF_vars(Only("calm") /\ Calm!Expire(p))

MCSpec == MCInit /\ [][MCNext]_MCVars /\ FairSnd /\ FairRcv /\ FairGateway /\ FairCalm

-----------------------------------------------------------------------------
\* All that tcp_write took reaches the server, or the connection ends: the
\* retransmission and persist timers make up for whatever packet is lost.
AllDelivered == []<>(part = "send" => WrittenArrived)

\* An acknowledgement that could not be allocated, or that tcp_fasttmr dropped
\* with its flags, is made up for when the server retransmits, so the server's
\* answer arrives to its end and the server learns that it has.
StreamArrives == []<>(part = "recv" => Answered)

\* Every record of a sensor reaches the database and is discarded by the sensor,
\* although frames and acknowledgements are lost and records arrive twice;
\* except where put_sample, whose result block_uploaded ignores, refused it, or
\* the card or the power failed on it.
RecordsArrive == \A r \in Readings : []<>(part = "gateway" => InDatabase(r))

\* As long as the server is there when a connection is opened and leaves it to
\* the gateway to close it, server_tcp.pcb is not used after lwIP has freed what
\* it points to, also by the error callbacks of resets and of tcp_slowtmr.
FreedOnce == part = "calm" => NoDoubleFree

\* Then no connection keeps its control block for good either.
PoolRefills == part = "calm" => PcbsReturn

\* Then an active upload always has a connection that can still end it.
EndIsCalled == part = "calm" => UploadEndIsCalled

\* Then every upload ends, "either through success or failure", and after the
\* wait upload() starts another.
UploadsRepeat == []<>(part = "calm" => active) /\ []<>(part = "calm" => ~active)

\* What server_tcp.c keeps true of the control blocks then.
CalmSound == FreedOnce /\ PoolRefills /\ EndIsCalled

\* The text of the request is as announced and meant, and each block that the
\* database confirms is counted once.
TextSound == LengthAnnounced /\ GainIsSent /\ Base64Keeps /\ EachIdAcked

\* Both directions of a connection carry everything.
StreamsArrive == AllDelivered /\ StreamArrives
=============================================================================
