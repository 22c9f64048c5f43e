-------------------------------- MODULE Sntp --------------------------------
(***************************************************************************)
(* The SNTP client, src/sntp/sntp.c, with the resolver it asks (Dns), and  *)
(* the ends of udp.c, timers.c and netif.c it meets.  All of it runs in    *)
(* net_service: sntp_init and sntp_cleanup from the interface's status     *)
(* callback, sntp_request and sntp_retry from sys_check_timeouts, sntp_recv*)
(* and dns_recv for datagrams, dns_tmr once a second.                      *)
(*                                                                         *)
(* Each C function is an operator from a state s to the set of states it   *)
(* may leave; the choice is whether pbuf_alloc finds memory.               *)
(*                                                                         *)
(* Timers.  How long a timeout still has to run is not told apart: any     *)
(* pending one may expire.  sys_untimeout stops one timeout of a handler,  *)
(* if there is one; the handlers take no argument, so a count will do.     *)
(*                                                                         *)
(* The network.  What was sent may be answered late, more than once or     *)
(* never.  Answers are told apart by whether they answer the last request  *)
(* or one before it: the client sends the same timestamp in each, since    *)
(* SNTP_GET_SYSTEM_TIME is not defined and gives 0.                        *)
(***************************************************************************)
EXTENDS Dns

CONSTANTS
    RetryTimeout, RetryTimeoutMax,  \* SNTP_RETRY_TIMEOUT, ..._MAX
    MaxStarts,                      \* bound: how often the interface comes up
    SntpFaultSets                       \* what may go wrong, see SntpFaultKinds

\* pbuf_alloc fails; the name server answers with an error; the time server
\* sends a kiss of death, or something arrives that is no answer; the interface
\* goes down.
SntpFaultKinds == {"no_memory", "dns_error", "bad_answer", "down"}

ASSUME SntpAssumption ==
    /\ RetryTimeout \in Nat \ {0} /\ RetryTimeoutMax \in Nat
    /\ RetryTimeout <= RetryTimeoutMax
    /\ MaxStarts \in Nat
    /\ SntpFaultSets \subseteq SUBSET SntpFaultKinds

VARIABLES
    netif_up,    \* NETIF_FLAG_UP
    sntp_pcb,    \* what sntp_pcb points at
    requests,    \* pending timeouts of sntp_request ...
    retries,     \* ... and of sntp_retry
    sntp_retry_timeout,
    dns_table,
    queries,     \* entries of the table for which a query was sent
    answers,     \* SNTP requests the server may still answer
    clock,       \* time_valid: which answer set the time last, or "invalid"
    starts,      \* calls of sntp_init
    sntp_faults

varsSntp == <<netif_up, sntp_pcb, requests, retries, sntp_retry_timeout, dns_table, queries,
          answers, clock, starts, sntp_faults>>

StateSntp == [up |-> netif_up, pcb |-> sntp_pcb, request |-> requests, retry |-> retries,
          timeout |-> sntp_retry_timeout, table |-> dns_table, queries |-> queries,
          answers |-> answers, clock |-> clock]
BecomesSntp(s) ==
    /\ netif_up' = s.up /\ sntp_pcb' = s.pcb /\ requests' = s.request /\ retries' = s.retry
    /\ sntp_retry_timeout' = s.timeout /\ dns_table' = s.table
    /\ queries' = s.queries /\ answers' = s.answers /\ clock' = s.clock
    /\ UNCHANGED sntp_faults

InitSntp ==
    /\ netif_up = FALSE /\ sntp_pcb = "NULL" /\ requests = 0 /\ retries = 0
    /\ sntp_retry_timeout = RetryTimeout
    /\ dns_table = [i \in Ids |-> Unused]
    /\ queries = {} /\ answers = {} /\ clock = "invalid" /\ starts = 0
    /\ sntp_faults \in SntpFaultSets

-----------------------------------------------------------------------------
(* What the client uses of lwIP *)

\* sys_timeout and sys_untimeout
timeout_request(s) == [s EXCEPT !.request = @ + 1]
timeout_retry(s) == [s EXCEPT !.retry = @ + 1]
untimeout_request(s) == [s EXCEPT !.request = IF @ > 0 THEN @ - 1 ELSE 0]
untimeout_retry(s) == [s EXCEPT !.retry = IF @ > 0 THEN @ - 1 ELSE 0]

\* pbuf_alloc may fail
pbuf_alloc(s, ok, failed) == ok \cup (IF "no_memory" \in sntp_faults THEN failed ELSE {})

\* ip_route: there is one interface, the default one
ip_route(s) == s.up

\* udp_sendto.  Without a route the pcb is not looked at; the first datagram
\* binds it to a port.
udp_sendto(s) ==
    IF ~ip_route(s) THEN s
    ELSE [s EXCEPT
            !.pcb = IF @ \in {"new", "bound"} THEN "bound" ELSE "corrupt",
            !.answers = {"last"} \cup (IF @ = {} THEN {} ELSE {"older"})]

\* dns_send, by the pcb of the resolver
dns_send(s, i) ==
    pbuf_alloc(s, {IF ip_route(s) THEN [s EXCEPT !.queries = @ \cup {i}] ELSE s}, {s})

-----------------------------------------------------------------------------
(* sntp.c *)

sntp_retry(s) ==
    LET doubled == 2 * s.timeout
    IN  [timeout_request(s) EXCEPT
            !.timeout = IF doubled <= RetryTimeoutMax THEN doubled ELSE @]

\* sntp_send_request, with sntp_initialize_request
sntp_send_request(s) ==
    pbuf_alloc(s, {timeout_retry(udp_sendto(s))}, {timeout_request(s)})

\* sntp_dns_found: found means that there is an address
sntp_dns_found(s, found) == IF found THEN sntp_send_request(s) ELSE {sntp_retry(s)}

\* sntp_request with dns_gethostbyname, dns_enqueue and dns_check_entry
sntp_request(s) ==
    IF dns_lookup(s.table) THEN sntp_send_request(s)
    ELSE IF Full(s.table) THEN {timeout_retry(s)}
    ELSE LET i == dns_enqueue(s.table)
         IN  dns_send([s EXCEPT !.table[i] = Started], i)

\* sntp_cleanup: the pointer and the timeouts stay
sntp_cleanup(s) == [s EXCEPT !.pcb = IF @ = "NULL" THEN @ ELSE "removed"]

\* sntp_init: a new pcb, in no list until it is bound
sntp_init(s) == sntp_request([s EXCEPT !.timeout = RetryTimeout, !.pcb = "new"])

\* sntp_recv: one timeout of each handler is stopped, whatever was received;
\* sntp_process sets the clock
sntp_recv(s, answer) ==
    LET t == untimeout_request(untimeout_retry(s))
    IN  IF answer # "bad"
        THEN timeout_request([t EXCEPT !.timeout = RetryTimeout, !.clock = answer])
        ELSE sntp_retry(t)

-----------------------------------------------------------------------------
(* Steps *)

\* netif_set_up and netif_set_down with netif_status_change
InterfaceUp ==
    /\ ~netif_up /\ starts < MaxStarts /\ starts' = starts + 1
    /\ \E s \in sntp_init([StateSntp EXCEPT !.up = TRUE]) : BecomesSntp(s)
InterfaceDown ==
    /\ netif_up /\ "down" \in sntp_faults
    /\ BecomesSntp(sntp_cleanup([StateSntp EXCEPT !.up = FALSE]))
    /\ UNCHANGED starts

\* sys_check_timeouts for a timeout of the client
RequestTimeout ==
    /\ requests > 0
    /\ \E s \in sntp_request([StateSntp EXCEPT !.request = @ - 1]) : BecomesSntp(s)
    /\ UNCHANGED starts
RetryExpires ==
    /\ retries > 0
    /\ BecomesSntp(sntp_retry([StateSntp EXCEPT !.retry = @ - 1]))
    /\ UNCHANGED starts

\* Mutant: giving up leaves the entry in use
dns_check_entry_keeps(s, i) ==
    LET e == s.table[i]
        t == [s EXCEPT !.table[i] = IF gives_up(e) THEN [e EXCEPT !.tmr = 1] ELSE checked(e)]
    IN  IF gives_up(e) THEN sntp_dns_found(t, FALSE)
        ELSE IF resends(e) THEN dns_send(t, i) ELSE {t}
\* dns_check_entry
dns_check_entry(s, i) ==
    LET e == s.table[i]
        t == [s EXCEPT !.table[i] = checked(e)]
    IN  IF gives_up(e) THEN sntp_dns_found(t, FALSE)
        ELSE IF resends(e) THEN dns_send(t, i) ELSE {t}

\* dns_tmr with dns_check_entries
DnsTmr ==
    /\ \E s \in dns_check_entry(StateSntp, 0) :
         \E u \in dns_check_entry(s, 1) : BecomesSntp(u)
    /\ UNCHANGED starts

\* Mutant: an answer for an entry that asks no more is used as well
DnsFoundAny(i) == netif_up /\ i \in queries /\ dns_table[i].state # "UNUSED"
\* dns_recv: an answer counts only for an entry that is asking
DnsFound(i) == netif_up /\ i \in queries /\ dns_table[i].state = "ASKING"
DnsAnswer ==
    \E i \in Ids, ttl \in Ttls :
        /\ DnsFound(i)
        /\ \E s \in sntp_dns_found([StateSntp EXCEPT !.table[i] = answered(@, ttl)], TRUE) :
             BecomesSntp(s)
        /\ UNCHANGED starts
DnsError ==
    \E i \in Ids :
        /\ "dns_error" \in sntp_faults /\ DnsFound(i)
        /\ \E s \in sntp_dns_found([StateSntp EXCEPT !.table[i] = Unused], FALSE) : BecomesSntp(s)
        /\ UNCHANGED starts

\* udp_input hands a datagram to the pcb that is bound to its port; it may
\* arrive again.  An answer to an older request carries the same originate
\* timestamp as one to the last.
RecvSntp(answer) ==
    /\ netif_up /\ sntp_pcb = "bound"
    /\ BecomesSntp(sntp_recv(StateSntp, answer))
    /\ UNCHANGED starts
Answer == \E answer \in answers : RecvSntp(answer)
BadAnswer == "bad_answer" \in sntp_faults /\ RecvSntp("bad")

NextSntp ==
    \/ InterfaceUp \/ InterfaceDown \/ RequestTimeout \/ RetryExpires
    \/ DnsTmr \/ DnsAnswer \/ DnsError \/ Answer \/ BadAnswer

SpecSntp == InitSntp /\ [][NextSntp]_varsSntp

-----------------------------------------------------------------------------
(* Properties *)

\* Requests and timeouts are counted, and sntp_retry_timeout stays between the
\* two limits that sntp_retry doubles it within.
SntpTypeOK ==
    /\ netif_up \in BOOLEAN /\ sntp_pcb \in {"NULL", "new", "bound", "removed"}
    /\ requests \in Nat /\ retries \in Nat
    /\ sntp_retry_timeout \in RetryTimeout .. RetryTimeoutMax
    /\ dns_table \in [Ids -> DnsEntry] /\ queries \subseteq Ids
    /\ answers \subseteq {"last", "older"} /\ clock \in {"invalid", "last", "older"}
    /\ starts \in 0 .. MaxStarts /\ sntp_faults \in SntpFaultSets

\* Requests under way: each is a pending timeout or a lookup
One(b) == IF b THEN 1 ELSE 0
UnderWay == requests + retries + One(dns_table[0].state = "ASKING")
                + One(dns_table[1].state = "ASKING")

\* The pcb that sntp_cleanup has given back, and to which sntp_pcb still
\* points, is used by no request that a timeout or a lookup left behind sends
\* before sntp_init has made another.
RemovedPcbUnused == sntp_pcb # "corrupt" /\ (netif_up => sntp_pcb \in {"new", "bound"})

\* Once started the client never falls silent: after every handler, whatever
\* failed in it, some timeout or lookup will make it ask again.
StillAsking == starts > 0 => UnderWay > 0

\* Each sntp_init starts a request beside those that sntp_cleanup left behind.
\* A late answer that finds no timeout to stop, since the next request is still
\* looking up the server, adds another; the size of the resolver's table limits
\* how many.  So the timeouts the client takes from the pool of lwIP are bounded
\* by the times the interface came up.
RequestsBounded == UnderWay <= starts + 2

\* Asking goes on for ever: from every state after the first start the client
\* schedules another request.
KeepsAsking == []<>(starts > 0 => requests > 0)

\* A lookup ends, by an answer or by giving up: no entry of the table asks for
\* ever.
LookupsEnd == \A i \in Ids : []<>(dns_table[i].state # "ASKING")

\* The time is set if the interface comes up and stays up, whatever the client
\* went through before.
TimeIsSet == <>[](netif_up /\ "no_memory" \notin sntp_faults) => []<>(clock # "invalid")

\* What sntp_init, sntp_cleanup and the callbacks of timers, resolver and UDP
\* keep true of the requests under way.
SntpSound == SntpTypeOK /\ RemovedPcbUnused /\ StillAsking /\ RequestsBounded

\* What the timers and answers bring about.
SntpProgress == KeepsAsking /\ LookupsEnd /\ TimeIsSet
=============================================================================
