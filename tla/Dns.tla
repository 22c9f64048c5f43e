--------------------------------- MODULE Dns ---------------------------------
(***************************************************************************)
(* The resolver's table, src/lwip/core/dns.c, as operators on the table t: *)
(* a function from the numbers of the entries to struct dns_table_entry.   *)
(* Sntp, its one client in this build, composes them.                      *)
(*                                                                         *)
(* Every lookup is for the name of the SNTP server, so the entries need no *)
(* names, and the check of the name in an answer succeeds.                 *)
(***************************************************************************)
EXTENDS Integers

CONSTANTS
    MaxRetries,   \* DNS_MAX_RETRIES
    Servers,      \* how many name servers are set, of DNS_MAX_SERVERS
    Ttls,         \* times to live in answers
    MaxTtl,       \* DNS_MAX_TTL
    TtlWrap       \* ttl is a u32_t: 2^32

ASSUME DnsAssumption ==
    /\ MaxRetries \in Nat /\ MaxRetries > 1
    /\ Servers \in Nat \ {0}
    /\ TtlWrap \in Nat /\ TtlWrap > 1 /\ MaxTtl \in 0 .. TtlWrap - 1
    /\ Ttls \subseteq 0 .. TtlWrap - 1

\* DNS_TABLE_SIZE is 2
Ids == {0, 1}

Unused == [state |-> "UNUSED", numdns |-> 0, tmr |-> 0, retries |-> 0, ttl |-> 0]

DnsEntry == [state : {"UNUSED", "ASKING", "DONE"}, numdns : 0 .. Servers - 1,
          tmr : 0 .. MaxRetries, retries : 0 .. MaxRetries, ttl : 0 .. TtlWrap - 1]

In(t, state) == {i \in Ids : t[i].state = state}

-----------------------------------------------------------------------------
\* dns_check_entry for a DNS_STATE_NEW entry; dns_send is the caller's
Started == [Unused EXCEPT !.state = "ASKING", !.tmr = 1]

\* dns_lookup
dns_lookup(t) == In(t, "DONE") # {}

\* dns_enqueue: the entry it takes.  dns_lookup has failed, so no entry is DONE
\* and the search for the oldest completed one finds none.
dns_enqueue(t) == CHOOSE i \in In(t, "UNUSED") : \A j \in In(t, "UNUSED") : i <= j
Full(t) == In(t, "UNUSED") = {}

\* dns_check_entry for the other states: the entry that is left ...
checked(e) ==
    LET retries == e.retries + 1
    IN  CASE e.state = "ASKING" /\ e.tmr # 1 -> [e EXCEPT !.tmr = @ - 1]
          [] e.state = "ASKING" /\ e.tmr = 1 /\ retries < MaxRetries ->
               [e EXCEPT !.tmr = retries, !.retries = retries]
          [] e.state = "ASKING" /\ e.tmr = 1 /\ retries >= MaxRetries ->
               IF e.numdns + 1 < Servers
               THEN [e EXCEPT !.numdns = @ + 1, !.tmr = 1, !.retries = 0]
               ELSE Unused
          [] e.state = "DONE" ->
               LET ttl == (e.ttl + TtlWrap - 1) % TtlWrap
               IN  IF ttl = 0 THEN Unused ELSE [e EXCEPT !.ttl = ttl]
          [] OTHER -> e
\* ... whether it sends the query again, and whether it calls found(NULL)
resends(e) == e.state = "ASKING" /\ e.tmr = 1 /\ e.retries + 1 < MaxRetries
gives_up(e) == e.state = "ASKING" /\ checked(e).state = "UNUSED"

\* dns_recv with an address in the answer
answered(e, ttl) ==
    [e EXCEPT !.state = "DONE", !.ttl = IF ttl > MaxTtl THEN MaxTtl ELSE ttl]
=============================================================================
