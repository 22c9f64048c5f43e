------------------------------- MODULE Etharp -------------------------------
(***************************************************************************)
(* The ARP cache, src/lwip/netif/etharp.c, in the build without            *)
(* ARP_QUEUEING: an entry holds at most one packet while its address is    *)
(* being asked for.                                                        *)
(*                                                                         *)
(* C functions are operators on a state s with the table, the packets the  *)
(* cache owns and the IP frames it has handed to the driver in this step.  *)
(* Ethernet addresses are model values; claim is what every host announced *)
(* last, and is not part of the program.                                   *)
(***************************************************************************)
EXTENDS Naturals, FiniteSets

CONSTANTS
    ARP_TABLE_SIZE,
    Hosts,        \* IP addresses of the neighbours, the gateway among them
    Eths,         \* Ethernet addresses
    Pbufs,        \* copies of packets the cache may own
    MaxAge, MaxPending,   \* ARP_MAXAGE, ARP_MAXPENDING
    NULL

ASSUME EtharpAssumption ==
    /\ ARP_TABLE_SIZE \in Nat \ {0}
    /\ MaxPending \in Nat \ {0} /\ MaxAge \in Nat /\ MaxPending <= MaxAge
    /\ NULL \notin Hosts \cup Eths \cup Pbufs

VARIABLES
    arp_table,
    etharp_cached_entry,
    owned,       \* the pbufs that are allocated, with the host they are for
    sent,        \* IP frames sent in the last step: host and Ethernet address
    claim        \* what each host announced last

arpvars == <<arp_table, etharp_cached_entry, owned, sent, claim>>

ArpSlots == 0 .. ARP_TABLE_SIZE - 1
EmptyEntry == [state |-> "EMPTY", ipaddr |-> NULL, ethaddr |-> NULL, ctime |-> 0, q |-> NULL]

ArpState == [t |-> arp_table, hint |-> etharp_cached_entry, own |-> owned, out |-> {}]
ArpBecomes(s) ==
    /\ arp_table' = s.t /\ etharp_cached_entry' = s.hint
    /\ owned' = s.own /\ sent' = s.out

InitArp ==
    /\ arp_table = [i \in ArpSlots |-> EmptyEntry]
    /\ etharp_cached_entry = 0
    /\ owned = [b \in Pbufs |-> NULL]
    /\ sent = {}
    /\ claim = [h \in Hosts |-> NULL]

-----------------------------------------------------------------------------
(* The table *)

free_queued(s, b) == IF b = NULL THEN s ELSE [s EXCEPT !.own[b] = NULL]

free_entry(s, i) == [free_queued(s, s.t[i].q) EXCEPT !.t[i] = EmptyEntry]

\* The oldest of some entries; of equals the one with the highest index
Oldest(t, S) ==
    CHOOSE i \in S : \A j \in S : \/ t[j].ctime < t[i].ctime
                                  \/ t[j].ctime = t[i].ctime /\ j <= i
First(S) == CHOOSE i \in S : \A j \in S : i <= j

\* find_entry: the entries that match ...
Match(t, ip) == {i \in ArpSlots : t[i].state # "EMPTY" /\ t[i].ipaddr = ip}

\* ... the entry to recycle in a full table ...
Victim(t) ==
    LET stable == {i \in ArpSlots : t[i].state = "STABLE"}
        pending == {i \in ArpSlots : t[i].state = "PENDING" /\ t[i].q = NULL}
        queued == {i \in ArpSlots : t[i].state = "PENDING" /\ t[i].q # NULL}
    IN  IF stable # {} THEN Oldest(t, stable)
        ELSE IF pending # {} THEN Oldest(t, pending) ELSE Oldest(t, queued)

\* ... and, with ETHARP_FLAG_TRY_HARD, the index and the table it leaves
find_entry(s, ip) ==
    IF Match(s.t, ip) # {} THEN <<First(Match(s.t, ip)), s>>
    ELSE LET empty == {i \in ArpSlots : s.t[i].state = "EMPTY"}
             i == IF empty # {} THEN First(empty) ELSE Victim(s.t)
             u == IF empty # {} THEN s ELSE free_entry(s, i)
         IN  <<i, [u EXCEPT !.t[i] = [@ EXCEPT !.ipaddr = ip, !.ctime = 0]]>>

etharp_send_ip(s, ip, eth) == [s EXCEPT !.out = @ \cup {<<ip, eth>>}]

\* update_arp_entry from "mark it stable": the queued packet is sent and freed
MakeStable(s, i, eth) ==
    LET b == s.t[i].q
        u == [s EXCEPT !.t[i] = [@ EXCEPT !.state = "STABLE", !.ethaddr = eth,
                                          !.ctime = 0, !.q = NULL]]
    IN  IF b = NULL THEN u
        ELSE free_queued(etharp_send_ip(u, s.own[b], eth), b)

\* update_arp_entry; without hard the flag is ETHARP_FLAG_FIND_ONLY
update_arp_entry(s, ip, eth, hard) ==
    IF ~hard /\ Match(s.t, ip) = {} THEN s
    ELSE LET f == find_entry(s, ip) IN MakeStable(f[2], f[1], eth)

-----------------------------------------------------------------------------
(* Packets to send *)

\* etharp_query, the end: one packet per entry, the newer replaces the older
Queue(s, i, ip, b) == [free_queued(s, s.t[i].q) EXCEPT !.own[b] = ip, !.t[i].q = b]

\* etharp_query: a new entry becomes pending
MarkPending(s, i) ==
    IF s.t[i].state = "EMPTY" THEN [s EXCEPT !.t[i].state = "PENDING"] ELSE s

\* etharp_query with a packet.  The request that etharp_request sends, or fails
\* to, leaves nothing behind; pbuf_alloc for the copy may fail.
etharp_query(s, ip) ==
    LET f == find_entry(s, ip)
        i == f[1]
        u == MarkPending(f[2], i)
    IN  IF u.t[i].state = "STABLE"
        THEN {[etharp_send_ip(u, ip, u.t[i].ethaddr) EXCEPT !.hint = i]}
        ELSE {u} \cup {Queue(u, i, ip, b) : b \in {c \in Pbufs : s.own[c] = NULL}}

\* Mutant: the cached entry is used without a look at its address
Hit_any(s, ip) == s.t[s.hint].state = "STABLE"
Hit(s, ip) == s.t[s.hint].state = "STABLE" /\ s.t[s.hint].ipaddr = ip

\* etharp_output for a unicast packet whose next hop is ip, itself or the gateway
etharp_output(s, ip) ==
    IF Hit(s, ip) THEN {etharp_send_ip(s, ip, s.t[s.hint].ethaddr)}
    ELSE etharp_query(s, ip)

-----------------------------------------------------------------------------
(* Steps *)

SendTo(ip) ==
    /\ \E s \in etharp_output(ArpState, ip) : ArpBecomes(s)
    /\ UNCHANGED claim

\* etharp_query without a packet, as dhcp_check calls it
Query(ip) ==
    /\ LET f == find_entry(ArpState, ip) IN ArpBecomes(MarkPending(f[2], f[1]))
    /\ UNCHANGED claim

\* etharp_arp_input: the sender's addresses are taken in; the answer to a request
\* reuses the pbuf of the request
arp_input(s, ip, eth, for_us) == update_arp_entry(s, ip, eth, for_us)
Arp(ip, eth, for_us) ==
    /\ ArpBecomes(arp_input(ArpState, ip, eth, for_us))
    /\ claim' = [claim EXCEPT ![ip] = eth]

Expired(e) == \/ e.ctime + 1 >= MaxAge
              \/ e.state = "PENDING" /\ e.ctime + 1 >= MaxPending

\* etharp_tmr: every entry is looked at by itself
ArpTmr ==
    LET expired == {i \in ArpSlots : arp_table[i].state # "EMPTY" /\ Expired(arp_table[i])}
        freed == {arp_table[i].q : i \in expired}
    IN  /\ arp_table' = [i \in ArpSlots |->
             IF i \in expired THEN EmptyEntry
             ELSE IF arp_table[i].state = "EMPTY" THEN arp_table[i]
             ELSE [arp_table[i] EXCEPT !.ctime = @ + 1]]
        /\ owned' = [b \in Pbufs |-> IF b \in freed THEN NULL ELSE owned[b]]
        /\ sent' = {}
        /\ UNCHANGED <<etharp_cached_entry, claim>>

NextArp ==
    \/ \E ip \in Hosts : SendTo(ip) \/ Query(ip)
    \/ \E ip \in Hosts, eth \in Eths, for_us \in BOOLEAN : Arp(ip, eth, for_us)
    \/ ArpTmr

SpecArp == InitArp /\ [][NextArp]_arpvars

-----------------------------------------------------------------------------
(* Properties *)

\* The table, the packets copied for it and the frames sent have values of their
\* types; ctime never reaches the age at which etharp_tmr frees the entry.
ArpTypeOK ==
    /\ arp_table \in [ArpSlots -> [state : {"EMPTY", "PENDING", "STABLE"},
                                ipaddr : Hosts \cup {NULL}, ethaddr : Eths \cup {NULL},
                                ctime : 0 .. MaxAge - 1, q : Pbufs \cup {NULL}]]
    /\ etharp_cached_entry \in ArpSlots
    /\ owned \in [Pbufs -> Hosts \cup {NULL}]
    /\ sent \subseteq Hosts \X (Eths \cup {NULL})
    /\ claim \in [Hosts -> Eths \cup {NULL}]

\* However entries expire, are recycled and come back, no address has two: the
\* search of find_entry, which stops at the first match, sees all there is.
OneEntryPerHost ==
    \A i, j \in ArpSlots :
        (arp_table[i].state # "EMPTY" /\ arp_table[j].state # "EMPTY"
            /\ arp_table[i].ipaddr = arp_table[j].ipaddr) => i = j

\* Every packet the cache has copied waits at exactly one entry, a pending one
\* for the host it is to go to, and is freed when it is sent, replaced, or lost
\* with its entry: none leaks, none is freed twice, and, as find_entry asserts,
\* "no queued packets should exist on stable entries".
PacketsAccounted ==
    /\ \A i \in ArpSlots : LET b == arp_table[i].q IN
         b # NULL => arp_table[i].state = "PENDING" /\ owned[b] = arp_table[i].ipaddr
    /\ \A b \in Pbufs : owned[b] # NULL =>
         \E i \in ArpSlots : arp_table[i].q = b /\ \A j \in ArpSlots \ {i} : arp_table[j].q # b

\* A frame leaves for the Ethernet address its host announced last, also when it
\* had been waiting, and when the entry used is the one cached from before.
SentAsAnnounced == \A f \in sent : f[2] # NULL /\ f[2] = claim[f[1]]

\* No packet waits for ever for an answer that does not come.
WaitingEndsArp == \A b \in Pbufs : []<>(owned[b] = NULL)

\* What etharp_query, etharp_arp_input and etharp_tmr keep true of the table.
ArpSound == ArpTypeOK /\ OneEntryPerHost /\ PacketsAccounted /\ SentAsAnnounced
=============================================================================
