-------------------------------- MODULE Dhcp --------------------------------
(***************************************************************************)
(* The DHCP client, src/lwip/core/dhcp.c, with what it does to the         *)
(* interface through src/lwip/core/netif.c.  All of it runs in             *)
(* net_service: dhcp_recv for a datagram, dhcp_fine_tmr and                *)
(* dhcp_coarse_tmr from sys_check_timeouts, dhcp_network_changed when the  *)
(* PHY reports a link, dhcp_arp_reply for an ARP reply.                    *)
(*                                                                         *)
(* Each C function is an operator from a state s (a record) to the set of  *)
(* states it may leave; the choice is whether pbuf_alloc finds memory.     *)
(*                                                                         *)
(* Transaction numbers.  dhcp_recv drops a reply whose xid is not that of  *)
(* the last message made, and a number is used once in 2^32, so the model  *)
(* keeps the requests and replies of the present number only: making a     *)
(* message with a new number forgets the others.                           *)
(*                                                                         *)
(* Time.  request_timeout is a flag: how many half seconds are left is not *)
(* told apart, so a request may time out at any moment.  t1_timeout and    *)
(* t2_timeout count minutes, as unsigned numbers that wrap at Wrap.        *)
(*                                                                         *)
(* Servers.  A reply answers some request made under the present number;  *)
(* it may come at any time, again and again, or never.                     *)
(***************************************************************************)
EXTENDS Integers, FiniteSets

CONSTANTS
    Addrs,        \* addresses servers offer
    NoAddr,       \* 0.0.0.0
    Wrap,         \* t1_timeout and t2_timeout are u16_t: 2^16
    TryWrap,      \* tries is a u8_t: 2^8
    Leases,       \* the times of a lease, in minutes: records of t0, t1 and t2
    Forever,      \* 0xffffffff, for a lease without end
    DhcpFaultSets     \* what may go wrong: sets of the kinds below, one per behaviour

\* A server refuses; the address is in use by another host; the link goes down
\* and up; pbuf_alloc fails; an offer has no server identifier.
DhcpFaultKinds == {"nak", "conflict", "link", "no_memory", "anonymous"}

\* A time option the reply lacks
NotGiven == -1

ASSUME DhcpAssumption ==
    /\ NoAddr \notin Addrs /\ Addrs # {}
    /\ Wrap \in Nat /\ Wrap > 2 /\ TryWrap \in Nat /\ TryWrap > 9
    /\ Forever \in Nat /\ Forever >= 2 * Wrap
    /\ \A l \in Leases :
         l.t0 \in 0 .. Forever /\ {l.t1, l.t2} \subseteq NotGiven .. Forever
    /\ DhcpFaultSets \subseteq SUBSET DhcpFaultKinds

VARIABLES
    dhcp,      \* struct dhcp
    netif,     \* struct netif: flags and address
    asked,     \* requests sent under the present xid
    dhcp_faults     \* what may go wrong in this behaviour

varsDhcp == <<dhcp, netif, asked, dhcp_faults>>

\* offered_t1_renew and offered_t2_rebind are t1 and t2;
\* The netmask and the gateway follow the address and are left out.
Off == [state |-> "OFF", tries |-> 0, request_timeout |-> FALSE,
        t1_timeout |-> 0, t2_timeout |-> 0, ip |-> NoAddr,
        t1 |-> 0, t2 |-> 0]

StateDhcp == [d |-> dhcp, n |-> netif, q |-> asked]
BecomesDhcp(s) ==
    /\ dhcp' = s.d /\ netif' = s.n /\ asked' = s.q
    /\ UNCHANGED dhcp_faults

\* After netif_add; the link may have been found up already.  There is no
\* struct dhcp yet.
InitDhcp ==
    /\ dhcp = [Off EXCEPT !.state = "NULL"]
    /\ netif \in [up : {FALSE}, link : BOOLEAN, ip : {NoAddr}]
    /\ asked = {}
    /\ dhcp_faults \in DhcpFaultSets

-----------------------------------------------------------------------------
(* netif.c *)

\* netif_set_up, netif_set_down.  The status callback starts and ends the SNTP
\* client, see Sntp.
netif_set_up(s) == [s EXCEPT !.n.up = TRUE]
netif_set_down(s) == [s EXCEPT !.n.up = FALSE]

\* netif_set_ipaddr, netif_set_netmask and netif_set_gw.  A change of address also
\* aborts the TCP connections of the old one, which is a Reset in Upload.
netif_set_addr(s, ip) == [s EXCEPT !.n.ip = ip]

-----------------------------------------------------------------------------
(* Making messages *)

\* dhcp_set_state
dhcp_set_state(s, state) ==
    IF state = s.d.state THEN s
    ELSE [s EXCEPT !.d.state = state, !.d.tries = 0, !.d.request_timeout = FALSE]

\* Mutant: every message keeps the number of the one before
SentSameXid(s, type) == [s EXCEPT !.q = @ \cup {[type |-> type, from |-> s.d.state]}]
\* dhcp_create_msg with udp_sendto_if and dhcp_delete_msg.  A message remembers
\* the state it was made in; the first try of a state has a new number.
Sent(s, type) ==
    LET msg == [type |-> type, from |-> s.d.state]
    IN  [s EXCEPT !.q = IF s.d.tries = 0 THEN {msg} ELSE @ \cup {msg}]
dhcp_create_msg(s, type) ==
    {Sent(s, type)} \cup (IF "no_memory" \in dhcp_faults THEN {s} ELSE {})

\* dhcp->tries++ and the new request_timeout.  For every message but a renewal's
\* the time is never 0.
Retry(s) == [s EXCEPT !.d.tries = (@ + 1) % TryWrap, !.d.request_timeout = TRUE]
RetryRenew(s) ==
    LET t == Retry(s)
    IN  IF t.d.tries * 2000 > 0 THEN t ELSE [t EXCEPT !.d.request_timeout = FALSE]

dhcp_discover(s) ==
    {Retry(t) : t \in dhcp_create_msg(dhcp_set_state([s EXCEPT !.d.ip = NoAddr],
                                                     "SELECTING"), "DISCOVER")}
dhcp_select(s) ==
    {Retry(t) : t \in dhcp_create_msg(dhcp_set_state(s, "REQUESTING"), "REQUEST")}
dhcp_renew(s) ==
    {RetryRenew(t) : t \in dhcp_create_msg(dhcp_set_state(s, "RENEWING"), "REQUEST")}
dhcp_rebind(s) ==
    {Retry(t) : t \in dhcp_create_msg(dhcp_set_state(s, "REBINDING"), "REQUEST")}
dhcp_reboot(s) ==
    {Retry(t) : t \in dhcp_create_msg(dhcp_set_state(s, "REBOOTING"), "REQUEST")}
dhcp_decline(s) ==
    {Retry(t) : t \in dhcp_create_msg(dhcp_set_state(s, "BACKING_OFF"), "DECLINE")}

\* dhcp_check: the query is an ARP one
dhcp_check(s) == Retry(dhcp_set_state(s, "CHECKING"))

dhcp_release(s) ==
    LET t == [dhcp_set_state(s, "OFF") EXCEPT
                !.d.ip = NoAddr, !.d.t1 = 0, !.d.t2 = 0]
    IN  {netif_set_addr(netif_set_down(Retry(u)), NoAddr) :
            u \in dhcp_create_msg(t, "RELEASE")}

-----------------------------------------------------------------------------
(* Binding and losing an address *)

\* What dhcp_bind counts down from a time given in minutes: at most 0xffff, at
\* least 1; the timer of a time without end is left as it was.  (The code rounds
\* seconds to minutes in 32 bits: times less than 30 s short of 2^32, which would
\* wrap there, are not among the leases.)
Countdown(given, timer) ==
    IF given = Forever THEN timer
    ELSE IF given >= Wrap THEN Wrap - 1
    ELSE IF given = 0 THEN 1 ELSE given

dhcp_bind(s) ==
    LET t == [s EXCEPT !.d.t1_timeout = Countdown(s.d.t1, @),
                       !.d.t2_timeout = Countdown(s.d.t2, @)]
    IN  dhcp_set_state(
            netif_set_up(netif_set_addr(t, t.d.ip)),
            "BOUND")

\* Mutant: a refused address stays up
dhcp_handle_nak_up(s) ==
    dhcp_discover(dhcp_set_state(netif_set_addr(s, NoAddr), "BACKING_OFF"))
\* dhcp_handle_nak
dhcp_handle_nak(s) ==
    dhcp_discover(dhcp_set_state(netif_set_addr(netif_set_down(s), NoAddr),
                                 "BACKING_OFF"))

\* dhcp_handle_ack, after dhcp_parse_reply: t1 and t2 are options; the lease time is
\* one too, but servers must give it, and an ACK without it is not modelled.
dhcp_handle_ack(s, m) ==
    [s EXCEPT !.d.t1 = IF m.lease.t1 = NotGiven THEN m.lease.t0 \div 2 ELSE m.lease.t1,
              !.d.t2 = IF m.lease.t2 = NotGiven THEN m.lease.t0 ELSE m.lease.t2,
              !.d.ip = m.ip]

\* dhcp_handle_offer
dhcp_handle_offer(s, m) ==
    IF m.server_id THEN dhcp_select([s EXCEPT !.d.ip = m.ip]) ELSE {s}

-----------------------------------------------------------------------------
(* Timers *)

ReleaseAndDiscover(s) == UNION {dhcp_discover(t) : t \in dhcp_release(s)}

\* Mutant: rebinding is tried for ever
dhcp_timeout_rebinds(s) ==
    CASE s.d.state \in {"BACKING_OFF", "SELECTING"} -> dhcp_discover(s)
      [] s.d.state = "REQUESTING" ->
            IF s.d.tries <= 5 THEN dhcp_select(s) ELSE ReleaseAndDiscover(s)
      [] s.d.state = "CHECKING" ->
            IF s.d.tries <= 1 THEN {dhcp_check(s)} ELSE {dhcp_bind(s)}
      [] s.d.state = "RENEWING" -> dhcp_renew(s)
      [] s.d.state = "REBINDING" -> dhcp_rebind(s)
      [] s.d.state = "REBOOTING" ->
            IF s.d.tries < 2 THEN dhcp_reboot(s) ELSE dhcp_discover(s)
      [] OTHER -> {s}
\* dhcp_timeout; REBOOT_TRIES is 2
dhcp_timeout(s) ==
    CASE s.d.state \in {"BACKING_OFF", "SELECTING"} -> dhcp_discover(s)
      [] s.d.state = "REQUESTING" ->
            IF s.d.tries <= 5 THEN dhcp_select(s) ELSE ReleaseAndDiscover(s)
      [] s.d.state = "CHECKING" ->
            IF s.d.tries <= 1 THEN {dhcp_check(s)} ELSE {dhcp_bind(s)}
      [] s.d.state = "RENEWING" -> dhcp_renew(s)
      [] s.d.state = "REBINDING" ->
            IF s.d.tries <= 8 THEN dhcp_rebind(s) ELSE ReleaseAndDiscover(s)
      [] s.d.state = "REBOOTING" ->
            IF s.d.tries < 2 THEN dhcp_reboot(s) ELSE dhcp_discover(s)
      [] OTHER -> {s}

\* dhcp_t1_timeout and dhcp_t2_timeout
Renewable == {"REQUESTING", "BOUND", "RENEWING"}
dhcp_t1_timeout(s) == IF s.d.state \in Renewable THEN dhcp_renew(s) ELSE {s}
dhcp_t2_timeout(s) == IF s.d.state \in Renewable THEN dhcp_rebind(s) ELSE {s}

\* One step of a u16_t counter down
Decremented(timer) == (timer - 1) % Wrap

\* dhcp_fine_tmr, when request_timeout is 1
FineTmr ==
    /\ dhcp.request_timeout
    /\ \E s \in dhcp_timeout([StateDhcp EXCEPT !.d.request_timeout = FALSE]) : BecomesDhcp(s)

\* dhcp_coarse_tmr, once a minute
CoarseTmr ==
    LET s == [StateDhcp EXCEPT !.d.t2_timeout = Decremented(@)]
        t == [s EXCEPT !.d.t1_timeout = Decremented(@)]
    IN  /\ dhcp.state # "NULL"
        /\ \E u \in IF dhcp.t2_timeout = 1 THEN dhcp_t2_timeout(s)
                    ELSE IF dhcp.t1_timeout = 1 THEN dhcp_t1_timeout(t) ELSE {t} :
              BecomesDhcp(u)

-----------------------------------------------------------------------------
(* Calls from outside *)

\* dhcp_start, called once by net_init.  A failed discovery stops the client
\* (dhcp_stop), and nothing starts it again; so does a failure to allocate
\* struct dhcp or its pcb.
dhcp_start ==
    /\ dhcp.state = "NULL"
    /\ \E s \in dhcp_discover([StateDhcp EXCEPT !.d = Off]) :
         BecomesDhcp(IF s.q = {} THEN dhcp_set_state([s EXCEPT !.d.ip = NoAddr], "OFF")
                 ELSE s)

\* dhcp_network_changed, called by netif_set_link_up
dhcp_network_changed(s) ==
    LET t == [s EXCEPT !.d.tries = 0]
    IN  CASE s.d.state \in {"REBINDING", "RENEWING", "BOUND", "REBOOTING"} ->
                dhcp_reboot(netif_set_down(t))
          [] s.d.state \in {"NULL", "OFF"} -> {s}
          [] OTHER -> dhcp_discover(t)

\* netif_set_link_up and netif_set_link_down.  Without the fault the cable is
\* put in once and stays.
LinkUp ==
    /\ ~netif.link
    /\ \E s \in dhcp_network_changed([StateDhcp EXCEPT !.n.link = TRUE]) : BecomesDhcp(s)
LinkDown ==
    /\ "link" \in dhcp_faults
    /\ netif.link
    /\ BecomesDhcp([StateDhcp EXCEPT !.n.link = FALSE])

-----------------------------------------------------------------------------
(* Replies *)

\* The replies a server may give
Offers ==
    [type : {"OFFER"}, ip : Addrs,
     server_id : {b \in BOOLEAN : b \/ "anonymous" \in dhcp_faults}]
Acks == [type : {"ACK"}, ip : Addrs, lease : Leases]
Naks == [type : {n \in {"NAK"} : "nak" \in dhcp_faults}]

\* dhcp_recv, once the reply's number is found to be the present one
dhcp_recv(s, m) ==
    CASE m.type = "ACK" /\ s.d.state = "REQUESTING" ->
            {dhcp_check(dhcp_handle_ack(s, m))}
      [] m.type = "ACK" /\ s.d.state \in {"REBOOTING", "REBINDING", "RENEWING"} ->
            {dhcp_bind(s)}
      [] /\ m.type = "NAK"
         /\ s.d.state \in {"REBOOTING", "REQUESTING", "REBINDING", "RENEWING"} ->
            dhcp_handle_nak(s)
      [] m.type = "OFFER" /\ s.d.state = "SELECTING" ->
            dhcp_handle_offer([s EXCEPT !.d.request_timeout = FALSE], m)
      [] OTHER -> {s}

RecvReply(type, replies) ==
    /\ netif.link
    /\ \E q \in asked : q.type = type
    /\ \E m \in replies : \E s \in dhcp_recv(StateDhcp, m) : BecomesDhcp(s)
RecvOffer == RecvReply("DISCOVER", Offers)
RecvAck == RecvReply("REQUEST", Acks)
RecvNak == RecvReply("REQUEST", Naks)

\* dhcp_arp_reply: another host answers for the address being checked
ArpReply ==
    /\ "conflict" \in dhcp_faults /\ netif.link
    /\ dhcp.state = "CHECKING"
    /\ \E s \in dhcp_decline(StateDhcp) : BecomesDhcp(s)

-----------------------------------------------------------------------------
NextDhcp ==
    \/ dhcp_start \/ FineTmr \/ CoarseTmr \/ LinkUp \/ LinkDown
    \/ RecvOffer \/ RecvAck \/ RecvNak \/ ArpReply

SpecDhcp == InitDhcp /\ [][NextDhcp]_varsDhcp

-----------------------------------------------------------------------------
(* Properties *)

States == {"NULL", "OFF", "SELECTING", "REQUESTING", "CHECKING", "BOUND",
           "RENEWING", "REBINDING", "REBOOTING", "BACKING_OFF"}
DhcpMessages == [type : {"DISCOVER", "REQUEST", "DECLINE", "RELEASE"}, from : States]
Times == 0 .. Forever

\* Every field of struct dhcp and of the interface has a value of its C type.
DhcpTypeOK ==
    /\ dhcp \in [state : States, tries : 0 .. TryWrap - 1, request_timeout : BOOLEAN,
                 t1_timeout : 0 .. Wrap - 1, t2_timeout : 0 .. Wrap - 1,
                 ip : Addrs \cup {NoAddr}, t1 : Times, t2 : Times]
    /\ netif \in [up : BOOLEAN, link : BOOLEAN, ip : Addrs \cup {NoAddr}]
    /\ asked \subseteq DhcpMessages
    /\ dhcp_faults \in DhcpFaultSets

\* The interface is up only with the address the client holds, while it is bound
\* or asks to keep it: a refusal, a release, a new link and a new search have
\* all taken it down before anything else happens.
UpMeansLeased ==
    netif.up => /\ dhcp.state \in {"BOUND", "RENEWING", "REBINDING"}
                /\ netif.ip = dhcp.ip /\ dhcp.ip \in Addrs

\* Whatever order replies, timeouts and links come in, a client that waits for
\* an answer has request_timeout running, so dhcp_fine_tmr will bring it on.
\* The exceptions are an offer without a server identifier, which stops the
\* timer and starts nothing, and a renewal tried TryWrap times, whose timeout
\* is computed from tries = 0.
Waiting == {"SELECTING", "REQUESTING", "CHECKING", "REBINDING", "REBOOTING",
            "BACKING_OFF"}
WaitingIsTimed ==
    /\ dhcp.state \in Waiting =>
         \/ dhcp.request_timeout
         \/ "anonymous" \in dhcp_faults /\ dhcp.state = "SELECTING"
    /\ dhcp.state = "RENEWING" => dhcp.request_timeout \/ dhcp.tries = 0

\* An address is taken into use by a reply only when the reply answers a request
\* made for that purpose: one left over from before the last change of state
\* has another number.  A message that could not be allocated takes no number,
\* so this needs memory.
BoundByAnswer ==
    [][\A q \in asked :
          /\ "no_memory" \notin dhcp_faults
          /\ dhcp'.state = "BOUND" /\ dhcp.state \in {"RENEWING", "REBINDING", "REBOOTING"}
          => q.type = "REQUEST" /\ q.from = dhcp.state]_varsDhcp

\* A state of waiting ends with a lease or with a new search, where the cable is
\* left alone; a renewal that no longer retries ends with the rebind timer.
WaitingEnds ==
    []<>(dhcp.state \notin (Waiting \ {"SELECTING"}) \cup {"RENEWING"} \/ "link" \in dhcp_faults)

\* With a cable, a server that answers and memory, the interface comes up, and
\* comes up again whenever the lease is lost.
Leased == []<>(dhcp_faults = {} => netif.up)

\* What the handlers of the client keep true of its state and the interface.
DhcpSound == DhcpTypeOK /\ UpMeansLeased /\ WaitingIsTimed

\* What its timers and the server's answers bring about.
DhcpProgress == WaitingEnds /\ Leased
=============================================================================
