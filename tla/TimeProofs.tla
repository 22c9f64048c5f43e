---------------------------- MODULE TimeProofs ----------------------------
(***************************************************************************)
(* Proofs about the time: the clock loses no carry, whatever the width of  *)
(* its words, and the SNTP client that sets it goes on asking, for any     *)
(* timeouts, name servers and combinations of faults.                      *)
(***************************************************************************)
EXTENDS Clock, Sntp, TLAPS

\* At start the timer and the stored time agree.
LEMMA InitClockInv == InitClock => ClockInv
BY ClockAssumption DEF InitClock, ClockInv, ClockWord

\* The successor of a word.
LEMMA NextWord ==
  ASSUME NEW n \in ClockWord
  PROVE /\ (n + 1) % W \in ClockWord
        /\ n + 1 = W => (n + 1) % W = 0
        /\ n + 1 # W => (n + 1) % W = n + 1
BY ClockAssumption DEF ClockWord

\* A tick keeps the timer at the low word of the exact time.
LEMMA TickClockInv == ClockInv /\ TickClock => ClockInv'
<1> SUFFICES ASSUME ClockInv, TickClock PROVE ClockInv'
  OBVIOUS
<1>1. {TC, hi, lo, ehi, elo} \subseteq ClockWord /\ TC = elo
  BY DEF ClockInv
<1>2. {TC', hi', lo', ehi', elo'} \subseteq ClockWord /\ TC' = elo' /\ hi' = hi /\ lo' = lo
  BY <1>1, NextWord DEF TickClock
<1>3. CASE elo + 1 = W
  <2>1. elo' = 0 /\ ehi' = (ehi + 1) % W
    BY <1>1, <1>3, NextWord DEF TickClock
  <2>2. ehi = hi /\ lo # 0
    BY <1>1, <1>3, ClockAssumption DEF ClockInv, TickClock, ClockWord
  <2> QED BY <1>1, <1>2, <2>1, <2>2 DEF ClockInv, ClockWord
<1>4. CASE elo + 1 # W
  <2>1. elo' = elo + 1 /\ ehi' = ehi
    BY <1>1, <1>4, NextWord DEF TickClock
  <2>2. CASE ehi = hi /\ lo <= elo
    BY <1>1, <1>2, <2>1, <2>2 DEF ClockInv, ClockWord
  <2>3. CASE ehi = (hi + 1) % W /\ elo < lo
    <3>1. elo + 1 # lo
      BY <2>3 DEF TickClock
    <3> QED BY <1>1, <1>2, <2>1, <2>3, <3>1 DEF ClockInv, ClockWord
  <2> QED BY <2>2, <2>3 DEF ClockInv
<1> QED BY <1>3, <1>4

\* Setting the time leaves the timer and the stored low word together.
LEMMA SetClockInv ==
  ASSUME ClockInv, NEW secs \in ClockWord, ntp_set_current_time(secs) PROVE ClockInv'
<1>1. hi' = 0 /\ lo' = secs /\ TC' = secs /\ ehi' = 0 /\ elo' = secs
  BY DEF ntp_set_current_time, get_last_recorded_time, ClockWord
<1> QED BY <1>1, ClockAssumption DEF ClockInv, ClockWord

\* A reading makes up for the carry exactly when there was one.
LEMMA ReadsExactly ==
  ASSUME ClockInv, get_current_time PROVE hi' = ehi /\ lo' = elo
<1>1. CASE ehi = hi /\ lo <= elo
  BY <1>1 DEF ClockInv, get_current_time, ClockWord
<1>2. CASE ehi = (hi + 1) % W /\ elo < lo
  BY <1>2 DEF ClockInv, get_current_time, ClockWord
<1> QED BY <1>1, <1>2 DEF ClockInv

\* get_current_time brings the stored time up to the timer.
LEMMA ReadClockInv ==
  ASSUME ClockInv, get_current_time PROVE ClockInv'
BY ReadsExactly DEF ClockInv, get_current_time, ClockWord

\* Every step keeps the invariant.
LEMMA NextClockInv == ClockInv /\ [NextClock]_varsClock => ClockInv'
<1> SUFFICES ASSUME ClockInv, [NextClock]_varsClock PROVE ClockInv'
  OBVIOUS
<1>1. CASE TickClock BY <1>1, TickClockInv
<1>2. ASSUME NEW secs \in ClockWord, ntp_set_current_time(secs) PROVE ClockInv'
  BY <1>2, SetClockInv
<1>3. CASE get_current_time BY <1>3, ReadClockInv
<1>4. CASE UNCHANGED varsClock BY <1>4 DEF varsClock, ClockInv
<1> QED BY <1>1, <1>2, <1>3, <1>4 DEF NextClock

\* The counter always has the lower word of the true time, and the stored time
\* is less than a round of the counter behind.
THEOREM ClockInvariant == SpecClock => []ClockInv
BY InitClockInv, NextClockInv, PTL DEF SpecClock

\* get_current_time returns the time last set plus the seconds since, for words
\* of every width.
THEOREM ClockReadsExactly == SpecClock => ReadingIsExact
<1>1. ClockInv /\ [NextClock]_varsClock => [get_current_time => hi' = ehi /\ lo' = elo]_varsClock
  BY ReadsExactly
<1> QED BY <1>1, ClockInvariant, PTL DEF SpecClock, ReadingIsExact

-----------------------------------------------------------------------------
(* The SNTP client: states *)

SntpStates ==
    [up : BOOLEAN, pcb : {"NULL", "new", "bound", "removed"}, request : Nat, retry : Nat,
     timeout : RetryTimeout .. RetryTimeoutMax, table : [Ids -> DnsEntry],
     queries : SUBSET Ids, answers : SUBSET {"last", "older"},
     clock : {"invalid", "last", "older"}]

\* The requests under way in a state
Asking(t, i) == One(t[i].state = "ASKING")
Live(s) == s.request + s.retry + Asking(s.table, 0) + Asking(s.table, 1)

\* An entry that asks has its timer running.
Running(e) == e.state = "ASKING" => e.tmr > 0

\* A state between two calls: an interface that is up has a pcb in use.
SntpGood(s) ==
    /\ s \in SntpStates
    /\ s.up => s.pcb \in {"new", "bound"}
    /\ \A i \in Ids : Running(s.table[i])

\* t is left by a call in s that adds n to the requests under way.
Adds(s, t, n) == SntpGood(t) /\ Live(t) = Live(s) + n /\ t.up = s.up

\* The inductive invariant: also, a client whose interface is up has been
\* started, and each lookup has its timer running.
SntpInv ==
    /\ SntpSound
    /\ netif_up => starts > 0
    /\ \A i \in Ids : Running(dns_table[i])

-----------------------------------------------------------------------------
(* The resolver's table *)

\* The entry of a new lookup, and the one an answer or an error leaves
LEMMA NewEntries ==
    /\ Unused \in DnsEntry /\ Started \in DnsEntry
    /\ Unused.state = "UNUSED" /\ Started.state = "ASKING" /\ Started.tmr = 1
    /\ \A e \in DnsEntry, ttl \in Ttls :
         answered(e, ttl) \in DnsEntry /\ answered(e, ttl).state = "DONE"
<1>1. Unused \in DnsEntry /\ Unused.state = "UNUSED"
  BY DnsAssumption DEF Unused, DnsEntry
<1>2. Started \in DnsEntry /\ Started.state = "ASKING" /\ Started.tmr = 1
  <2>1. Started = [state |-> "ASKING", numdns |-> 0, tmr |-> 1, retries |-> 0, ttl |-> 0]
    <3> DEFINE u == [Unused EXCEPT !.state = "ASKING"]
    <3>1. u = [state |-> "ASKING", numdns |-> 0, tmr |-> 0, retries |-> 0, ttl |-> 0]
      BY DEF Unused
    <3>2. Started = [u EXCEPT !.tmr = 1]
      BY DEF Started
    <3> HIDE DEF u
    <3> QED BY <3>1, <3>2
  <2> QED BY <2>1, DnsAssumption DEF DnsEntry
<1>3. ASSUME NEW e \in DnsEntry, NEW ttl \in Ttls
      PROVE  answered(e, ttl) \in DnsEntry /\ answered(e, ttl).state = "DONE"
  <2>1. (IF ttl > MaxTtl THEN MaxTtl ELSE ttl) \in 0 .. TtlWrap - 1
    BY DnsAssumption
  <2> QED BY <2>1 DEF DnsEntry, answered
<1> QED BY <1>1, <1>2, <1>3

\* What dns_check_entry leaves: an entry asks after it just if it asked before
\* it and was not given up.
LEMMA CheckedEntry ==
    ASSUME NEW e \in DnsEntry, Running(e)
    PROVE  /\ checked(e) \in DnsEntry /\ Running(checked(e))
           /\ checked(e).state = "ASKING" <=> e.state = "ASKING" /\ ~gives_up(e)
           /\ gives_up(e) => e.state = "ASKING"
<1>1. CASE e.state = "ASKING" /\ e.tmr # 1
  <2>1. checked(e) = [e EXCEPT !.tmr = @ - 1]
    BY <1>1 DEF checked
  <2> QED BY <1>1, <2>1, DnsAssumption DEF DnsEntry, gives_up, Running
<1>2. CASE e.state = "ASKING" /\ e.tmr = 1 /\ e.retries + 1 < MaxRetries
  <2>1. checked(e) = [state |-> e.state, numdns |-> e.numdns, tmr |-> e.retries + 1,
                      retries |-> e.retries + 1, ttl |-> e.ttl]
    <3> DEFINE u == [e EXCEPT !.tmr = e.retries + 1]
    <3>1. u = [state |-> e.state, numdns |-> e.numdns, tmr |-> e.retries + 1,
               retries |-> e.retries, ttl |-> e.ttl]
      BY DEF DnsEntry
    <3>2. ~(e.retries + 1 >= MaxRetries)
      BY <1>2, DnsAssumption DEF DnsEntry
    <3>3. checked(e) = [u EXCEPT !.retries = e.retries + 1]
      BY <1>2, <3>2 DEF checked
    <3> HIDE DEF u
    <3> QED BY <3>1, <3>3
  <2> QED BY <1>2, <2>1, DnsAssumption DEF DnsEntry, gives_up, Running
<1>3. CASE e.state = "ASKING" /\ e.tmr = 1 /\ e.retries + 1 >= MaxRetries
  <2>1. ~(e.retries + 1 < MaxRetries)
    BY <1>3, DnsAssumption DEF DnsEntry
  <2>2. CASE e.numdns + 1 < Servers
    <3>1. checked(e) = [state |-> e.state, numdns |-> e.numdns + 1, tmr |-> 1,
                        retries |-> 0, ttl |-> e.ttl]
      BY <1>3, <2>1, <2>2 DEF checked, DnsEntry
    <3> QED BY <1>3, <2>2, <3>1, DnsAssumption DEF DnsEntry, gives_up, Running
  <2>3. CASE ~(e.numdns + 1 < Servers)
    <3>1. checked(e) = Unused
      BY <1>3, <2>1, <2>3 DEF checked
    <3> QED BY <1>3, <3>1, NewEntries DEF gives_up, Running
  <2> QED BY <2>2, <2>3
<1>4. CASE e.state = "DONE"
  <2>1. CASE (e.ttl + TtlWrap - 1) % TtlWrap = 0
    <3>1. checked(e) = Unused
      BY <1>4, <2>1 DEF checked
    <3> QED BY <1>4, <3>1, NewEntries DEF gives_up, Running
  <2>2. CASE (e.ttl + TtlWrap - 1) % TtlWrap # 0
    <3>1. checked(e) = [e EXCEPT !.ttl = (e.ttl + TtlWrap - 1) % TtlWrap]
      BY <1>4, <2>2 DEF checked
    <3>2. (e.ttl + TtlWrap - 1) % TtlWrap \in 0 .. TtlWrap - 1
      BY DnsAssumption DEF DnsEntry
    <3> QED BY <1>4, <3>1, <3>2 DEF DnsEntry, gives_up, Running
  <2> QED BY <2>1, <2>2
<1>5. CASE e.state = "UNUSED"
  <2>1. checked(e) = e
    BY <1>5 DEF checked
  <2> QED BY <1>5, <2>1 DEF gives_up
<1> QED BY <1>1, <1>2, <1>3, <1>4, <1>5, DnsAssumption DEF DnsEntry

-----------------------------------------------------------------------------
(* The calls of sntp.c *)

\* The requests under way are counted.
LEMMA LiveCount ==
    ASSUME NEW s \in SntpStates
    PROVE  /\ \A i \in Ids : Asking(s.table, i) \in {0, 1}
           /\ Live(s) \in Nat /\ s.request \in Nat /\ s.retry \in Nat
           /\ Live(s) = s.request + s.retry + Asking(s.table, 0) + Asking(s.table, 1)
BY DEF SntpStates, Live, Asking, One, Ids

\* Another pending timeout is another request under way.
LEMMA TimeoutAdds ==
    ASSUME NEW s, SntpGood(s)
    PROVE  Adds(s, timeout_request(s), 1) /\ Adds(s, timeout_retry(s), 1)
<1>0. s.request \in Nat /\ s.retry \in Nat
      /\ Asking(s.table, 0) \in Nat /\ Asking(s.table, 1) \in Nat
  BY LiveCount DEF SntpGood, Ids
<1>1. ASSUME NEW t, t = [s EXCEPT !.request = s.request + 1] PROVE Adds(s, t, 1)
  <2>1. SntpGood(t) /\ t.request = s.request + 1 /\ t.retry = s.retry /\ t.table = s.table
        /\ t.up = s.up
    BY <1>1 DEF SntpGood, SntpStates
  <2> QED BY <1>0, <2>1 DEF Adds, Live
<1>2. ASSUME NEW t, t = [s EXCEPT !.retry = s.retry + 1] PROVE Adds(s, t, 1)
  <2>1. SntpGood(t) /\ t.request = s.request /\ t.retry = s.retry + 1 /\ t.table = s.table
        /\ t.up = s.up
    BY <1>2 DEF SntpGood, SntpStates
  <2> QED BY <1>0, <2>1 DEF Adds, Live
<1> QED BY <1>1, <1>2 DEF timeout_request, timeout_retry

\* sntp_retry adds its timeout, and the doubled time stays within its limits.
LEMMA RetryAdds ==
    ASSUME NEW s, SntpGood(s)
    PROVE  Adds(s, sntp_retry(s), 1)
<1>1. PICK u : u = timeout_request(s)
  OBVIOUS
<1>2. Adds(s, u, 1) /\ u.timeout = s.timeout
  <2>1. u = [s EXCEPT !.request = s.request + 1]
    BY <1>1 DEF timeout_request
  <2>2. u.timeout = s.timeout
    BY <2>1 DEF SntpGood, SntpStates
  <2> QED BY <1>1, <2>2, TimeoutAdds
<1>3. PICK n : n = IF 2 * s.timeout <= RetryTimeoutMax THEN 2 * s.timeout ELSE u.timeout
  OBVIOUS
<1>4. sntp_retry(s) = [u EXCEPT !.timeout = n]
  BY <1>1, <1>3 DEF sntp_retry
<1>5. n \in RetryTimeout .. RetryTimeoutMax
  BY <1>2, <1>3, SntpAssumption DEF SntpGood, SntpStates
<1>6. ASSUME NEW t, t = [u EXCEPT !.timeout = n] PROVE Adds(s, t, 1)
  <2>1. SntpGood(t) /\ t.request = u.request /\ t.retry = u.retry /\ t.table = u.table
        /\ t.up = u.up
    BY <1>2, <1>5, <1>6 DEF Adds, SntpGood, SntpStates
  <2> QED BY <2>1, <1>2 DEF Adds, Live
<1> QED BY <1>4, <1>6

\* udp_sendto binds the pcb in use, and leaves one that was removed alone.
LEMMA SendtoKeeps ==
    ASSUME NEW s, SntpGood(s)
    PROVE  Adds(s, udp_sendto(s), 0)
<1>1. CASE ~s.up
  BY <1>1, LiveCount DEF udp_sendto, ip_route, Adds, SntpGood
<1>2. CASE s.up
  <2>1. PICK a : a = {"last"} \cup (IF s.answers = {} THEN {} ELSE {"older"})
    OBVIOUS
  <2>2. s.pcb \in {"new", "bound"}
    BY <1>2 DEF SntpGood
  <2>3. PICK u : u = [s EXCEPT !.pcb = "bound"]
    OBVIOUS
  <2>4. u \in SntpStates /\ u.pcb = "bound" /\ u.request = s.request /\ u.retry = s.retry
        /\ u.table = s.table /\ u.up = s.up
    BY <2>3 DEF SntpGood, SntpStates
  <2>5. udp_sendto(s) = [u EXCEPT !.answers = a]
    <3>1. u.answers = s.answers
      BY <2>3 DEF SntpGood, SntpStates
    <3> QED BY <1>2, <2>1, <2>2, <2>3, <3>1 DEF udp_sendto, ip_route
  <2>6. ASSUME NEW t, t = [u EXCEPT !.answers = a] PROVE Adds(s, t, 0)
    <3>1. t \in SntpStates /\ t.pcb = "bound" /\ t.request = s.request /\ t.retry = s.retry
          /\ t.table = s.table /\ t.up = s.up
      BY <2>1, <2>4, <2>6 DEF SntpStates
    <3> QED BY <3>1, LiveCount DEF Adds, SntpGood, Live
  <2> QED BY <2>5, <2>6
<1> QED BY <1>1, <1>2 DEF SntpGood, SntpStates

\* Additions add up.
LEMMA AddsTwice ==
    ASSUME NEW s, SntpGood(s), NEW t, NEW u, NEW m \in Nat, NEW n \in Nat, NEW k \in Nat,
           Adds(s, t, m), Adds(t, u, n), k = m + n
    PROVE  Adds(s, u, k)
BY LiveCount DEF Adds, SntpGood

\* sntp_send_request is waited for, sent or not.
LEMMA SendAdds ==
    ASSUME NEW s, SntpGood(s), NEW t \in sntp_send_request(s)
    PROVE  Adds(s, t, 1)
<1>1. PICK u : u = udp_sendto(s) /\ Adds(s, u, 0)
  BY SendtoKeeps
<1>2. Adds(u, timeout_retry(u), 1)
  BY <1>1, TimeoutAdds DEF Adds
<1>3. Adds(s, timeout_retry(u), 1)
  BY <1>1, <1>2, AddsTwice
<1>4. t = timeout_retry(u) \/ t = timeout_request(s)
  BY <1>1 DEF sntp_send_request, pbuf_alloc
<1> QED BY <1>3, <1>4, TimeoutAdds

\* What sntp_dns_found does with an address, and without
LEMMA FoundAdds ==
    ASSUME NEW s, SntpGood(s), NEW found \in BOOLEAN, NEW t \in sntp_dns_found(s, found)
    PROVE  Adds(s, t, 1)
BY SendAdds, RetryAdds DEF sntp_dns_found

\* dns_send starts and ends no request.
LEMMA DnsSendKeeps ==
    ASSUME NEW s, SntpGood(s), NEW i \in Ids, NEW t \in dns_send(s, i)
    PROVE  Adds(s, t, 0)
<1>1. t = s \/ t = [s EXCEPT !.queries = s.queries \cup {i}]
  BY DEF dns_send, pbuf_alloc
<1>2. CASE t = s
  BY <1>2, LiveCount DEF Adds, SntpGood
<1>3. CASE t = [s EXCEPT !.queries = s.queries \cup {i}]
  <2>1. SntpGood(t) /\ t.request = s.request /\ t.retry = s.retry /\ t.table = s.table
        /\ t.up = s.up
    BY <1>3 DEF SntpGood, SntpStates
  <2> QED BY <2>1, LiveCount DEF Adds, SntpGood, Live
<1> QED BY <1>1, <1>2, <1>3

\* One entry of the table changes, with what that does to the requests under way.
LEMMA EntryAdds ==
    ASSUME NEW s, SntpGood(s), NEW i \in Ids, NEW e \in DnsEntry, Running(e),
           NEW t, t = [s EXCEPT !.table[i] = e]
    PROVE  /\ SntpGood(t) /\ t.up = s.up
           /\ Live(t) = Live(s) + One(e.state = "ASKING") - One(s.table[i].state = "ASKING")
<1>1. PICK b : b = [s.table EXCEPT ![i] = e]
  OBVIOUS
<1>2. t = [s EXCEPT !.table = b]
  BY <1>1
<1>3. b \in [Ids -> DnsEntry] /\ b[i] = e /\ \A j \in Ids \ {i} : b[j] = s.table[j]
  BY <1>1 DEF SntpGood, SntpStates
<1>4. t \in SntpStates /\ t.up = s.up /\ t.pcb = s.pcb /\ t.table = b
      /\ t.request = s.request /\ t.retry = s.retry
  BY <1>2, <1>3 DEF SntpGood, SntpStates
<1>5. SntpGood(t)
  BY <1>3, <1>4 DEF SntpGood
<1>6. CASE i = 0
  BY <1>3, <1>4, <1>5, <1>6, LiveCount DEF SntpGood, Live, Asking, Ids, One
<1>7. CASE i = 1
  BY <1>3, <1>4, <1>5, <1>7, LiveCount DEF SntpGood, Live, Asking, Ids, One
<1> QED BY <1>4, <1>5, <1>6, <1>7 DEF Ids

\* sntp_request goes on as a message, as a lookup, or as another try later.
LEMMA RequestAdds ==
    ASSUME NEW s, SntpGood(s), NEW t \in sntp_request(s)
    PROVE  Adds(s, t, 1)
<1>1. CASE dns_lookup(s.table)
  BY <1>1, SendAdds DEF sntp_request
<1>2. CASE ~dns_lookup(s.table) /\ Full(s.table)
  BY <1>2, TimeoutAdds DEF sntp_request
<1>3. CASE ~dns_lookup(s.table) /\ ~Full(s.table)
  <2>1. PICK i : i = dns_enqueue(s.table)
    OBVIOUS
  <2>2. i \in Ids /\ s.table[i].state = "UNUSED"
    <3>1. \E k \in In(s.table, "UNUSED") : \A j \in In(s.table, "UNUSED") : k <= j
      BY <1>3 DEF Full, In, Ids
    <3>2. i \in In(s.table, "UNUSED")
      BY <2>1, <3>1 DEF dns_enqueue
    <3> QED BY <3>2 DEF In
  <2>3. PICK u : u = [s EXCEPT !.table[i] = Started]
    OBVIOUS
  <2>4. Adds(s, u, 1)
    BY <2>2, <2>3, EntryAdds, NewEntries, LiveCount DEF Adds, Running, One, SntpGood
  <2>5. t \in dns_send(u, i)
    BY <1>3, <2>1, <2>3 DEF sntp_request
  <2>6. Adds(u, t, 0)
    BY <2>2, <2>4, <2>5, DnsSendKeeps DEF Adds
  <2> QED BY <2>4, <2>6, AddsTwice
<1> QED BY <1>1, <1>2, <1>3

\* dns_check_entry: a lookup that is given up goes on as another try later.
LEMMA CheckKeeps ==
    ASSUME NEW s, SntpGood(s), NEW i \in Ids, NEW t \in dns_check_entry(s, i)
    PROVE  Adds(s, t, 0)
<1>1. PICK e : e = s.table[i]
  OBVIOUS
<1>2. e \in DnsEntry /\ Running(e)
  BY <1>1 DEF SntpGood, SntpStates
<1>3. PICK c : c = checked(e)
  OBVIOUS
<1>4. /\ c \in DnsEntry /\ Running(c)
      /\ c.state = "ASKING" <=> e.state = "ASKING" /\ ~gives_up(e)
      /\ gives_up(e) => e.state = "ASKING"
  BY <1>2, <1>3, CheckedEntry
<1>5. PICK u : u = [s EXCEPT !.table[i] = c]
  OBVIOUS
<1>6. /\ SntpGood(u) /\ u.up = s.up
      /\ Live(u) = Live(s) + One(c.state = "ASKING") - One(e.state = "ASKING")
  BY <1>1, <1>4, <1>5, EntryAdds
<1>7. CASE gives_up(e)
  <2>1. t \in sntp_dns_found(u, FALSE)
    BY <1>1, <1>3, <1>5, <1>7 DEF dns_check_entry
  <2>2. Adds(u, t, 1)
    BY <1>6, <2>1, FoundAdds
  <2>3. Live(u) = Live(s) - 1
    BY <1>4, <1>6, <1>7, LiveCount DEF One, SntpGood
  <2> QED BY <1>6, <2>2, <2>3, LiveCount DEF Adds, SntpGood
<1>8. CASE ~gives_up(e)
  <2>1. t = u \/ t \in dns_send(u, i)
    BY <1>1, <1>3, <1>5, <1>8 DEF dns_check_entry
  <2>2. Adds(u, t, 0)
    BY <1>6, <2>1, DnsSendKeeps, LiveCount DEF Adds, SntpGood
  <2>3. Live(u) = Live(s)
    BY <1>4, <1>6, <1>8, LiveCount DEF One, SntpGood
  <2> QED BY <1>6, <2>2, <2>3 DEF Adds
<1> QED BY <1>7, <1>8

\* sntp_recv: the timeouts it stops are made up for by the one it starts.
\* Nothing is added unless no timeout was pending.
LEMMA RecvAdds ==
    ASSUME NEW s, SntpGood(s), NEW answer \in {"last", "older", "bad"},
           NEW t, t = sntp_recv(s, answer)
    PROVE  /\ SntpGood(t) /\ t.up = s.up /\ Live(t) > 0
           /\ Live(t) <= Live(s) \/ Live(t) <= 3
<1>1. PICK v : v = untimeout_request(untimeout_retry(s))
  OBVIOUS
<1>2. PICK r, q : /\ r = (IF s.retry > 0 THEN s.retry - 1 ELSE 0)
                  /\ q = (IF s.request > 0 THEN s.request - 1 ELSE 0)
  OBVIOUS
<1>3. r \in Nat /\ q \in Nat /\ (r + q < s.retry + s.request \/ r + q = 0)
      /\ s.retry \in Nat /\ s.request \in Nat
  BY <1>2, LiveCount DEF SntpGood
<1>4. SntpGood(v) /\ v.request = q /\ v.retry = r /\ v.table = s.table /\ v.up = s.up
  <2>1. PICK u : u = [s EXCEPT !.retry = r]
    OBVIOUS
  <2>2. u \in SntpStates /\ u.request = s.request /\ u.retry = r /\ u.table = s.table
        /\ u.up = s.up /\ u.pcb = s.pcb
    BY <1>3, <2>1 DEF SntpGood, SntpStates
  <2>3. v = [u EXCEPT !.request = q]
    BY <1>1, <1>2, <2>1, <2>2 DEF untimeout_request, untimeout_retry
  <2>4. v \in SntpStates /\ v.request = q /\ v.retry = r /\ v.table = s.table
        /\ v.up = s.up /\ v.pcb = s.pcb
    BY <1>3, <2>2, <2>3 DEF SntpStates
  <2> QED BY <2>4 DEF SntpGood
<1>5. Live(v) \in Nat /\ (Live(v) < Live(s) \/ Live(v) <= 2)
  BY <1>3, <1>4, LiveCount DEF Ids, SntpGood
<1>6. Adds(v, t, 1)
  <2>1. CASE answer = "bad"
    BY <1>1, <1>4, <2>1, RetryAdds DEF sntp_recv
  <2>2. CASE answer # "bad"
    <3>1. PICK w : w = [v EXCEPT !.timeout = RetryTimeout]
      OBVIOUS
    <3>2. w \in SntpStates /\ w.request = v.request /\ w.retry = v.retry
          /\ w.table = v.table /\ w.up = v.up /\ w.pcb = v.pcb
      BY <1>4, <3>1, SntpAssumption DEF SntpGood, SntpStates
    <3>3. PICK x : x = [w EXCEPT !.clock = answer]
      OBVIOUS
    <3>4. x \in SntpStates /\ x.request = v.request /\ x.retry = v.retry
          /\ x.table = v.table /\ x.up = v.up /\ x.pcb = v.pcb
      BY <2>2, <3>2, <3>3 DEF SntpStates
    <3>5. Adds(v, x, 0)
      BY <1>4, <1>5, <3>4 DEF SntpGood, Adds, Live
    <3>6. t = timeout_request(x)
      BY <1>1, <2>2, <3>1, <3>3 DEF sntp_recv
    <3>7. Adds(x, t, 1)
      BY <3>5, <3>6, TimeoutAdds DEF Adds
    <3> QED BY <1>4, <3>5, <3>7, AddsTwice
  <2> QED BY <2>1, <2>2
<1> QED BY <1>4, <1>5, <1>6, LiveCount DEF Adds, SntpGood

-----------------------------------------------------------------------------
(* The steps of the client *)

\* The state of the invariant
LEMMA SntpState ==
    ASSUME SntpInv
    PROVE  /\ SntpGood(StateSntp) /\ Live(StateSntp) = UnderWay
           /\ Live(StateSntp) \in Nat /\ starts \in Nat /\ StateSntp.up = netif_up
           /\ StateSntp.request = requests /\ StateSntp.retry = retries
<1>1. StateSntp \in SntpStates
  BY DEF SntpInv, SntpSound, SntpTypeOK, StateSntp, SntpStates
<1>2. SntpGood(StateSntp)
  BY <1>1 DEF SntpInv, SntpSound, RemovedPcbUnused, StateSntp, SntpGood
<1>3. Live(StateSntp) = UnderWay
  BY DEF StateSntp, Live, UnderWay, Asking
<1> QED BY <1>1, <1>2, <1>3, LiveCount, SntpAssumption
        DEF SntpInv, SntpSound, SntpTypeOK, StateSntp

\* A step that leaves a good state keeps the invariant if it keeps the requests
\* under way within their bounds.
LEMMA SntpStep ==
    ASSUME SntpInv, NEW t, SntpGood(t), BecomesSntp(t), starts' \in 0 .. MaxStarts,
           Live(t) > 0 \/ starts' = 0, Live(t) <= starts' + 2, t.up => starts' > 0
    PROVE  SntpInv'
<1>1. SntpTypeOK'
  BY DEF SntpInv, SntpSound, SntpTypeOK, SntpGood, SntpStates, BecomesSntp
<1>2. RemovedPcbUnused'
  BY DEF RemovedPcbUnused, SntpGood, SntpStates, BecomesSntp
<1>3. UnderWay' = Live(t)
  BY DEF UnderWay, Live, Asking, BecomesSntp
<1>4. \A i \in Ids : Running(dns_table[i])'
  BY DEF SntpGood, BecomesSntp, Running
<1>5. (netif_up => starts > 0)'
  BY DEF BecomesSntp
<1> QED BY <1>1, <1>2, <1>3, <1>4, <1>5
        DEF SntpInv, SntpSound, StillAsking, RequestsBounded

\* At first nothing is under way.
LEMMA SntpStart == InitSntp => SntpInv
<1> SUFFICES ASSUME InitSntp PROVE SntpInv
  OBVIOUS
<1>1. \A i \in Ids : dns_table[i] = Unused
  BY DEF InitSntp
<1>2. SntpTypeOK
  <2>1. dns_table \in [Ids -> DnsEntry]
    BY NewEntries DEF InitSntp
  <2>2. sntp_retry_timeout \in RetryTimeout .. RetryTimeoutMax /\ starts \in 0 .. MaxStarts
    BY SntpAssumption DEF InitSntp
  <2> QED BY <2>1, <2>2 DEF InitSntp, SntpTypeOK
<1>3. UnderWay = 0
  BY <1>1, NewEntries DEF InitSntp, UnderWay, One, Ids
<1> QED BY <1>1, <1>2, <1>3, NewEntries, SntpAssumption
        DEF InitSntp, SntpInv, SntpSound, RemovedPcbUnused, StillAsking, RequestsBounded, Running

\* sntp_init starts one more request.
LEMMA UpKeeps == ASSUME SntpInv, InterfaceUp PROVE SntpInv'
<1>1. PICK s : s = [StateSntp EXCEPT !.up = TRUE]
  OBVIOUS
<1>2. s \in SntpStates /\ s.up = TRUE /\ Live(s) = UnderWay
  BY <1>1, SntpState DEF SntpGood, SntpStates, Live
<1>3. PICK v : v = [s EXCEPT !.timeout = RetryTimeout]
  OBVIOUS
<1>4. v \in SntpStates /\ v.up = TRUE /\ Live(v) = UnderWay /\ v.table = s.table
  BY <1>2, <1>3, SntpAssumption DEF SntpStates, Live
<1>5. PICK w : w = [v EXCEPT !.pcb = "new"]
  OBVIOUS
<1>6. w \in SntpStates /\ w.up = TRUE /\ Live(w) = UnderWay /\ w.table = s.table
      /\ w.pcb = "new"
  BY <1>4, <1>5 DEF SntpStates, Live
<1>7. SntpGood(w)
  BY <1>1, <1>6, SntpState DEF SntpGood, SntpStates
<1>8. PICK t \in sntp_request(w) : BecomesSntp(t)
  BY <1>1, <1>3, <1>5 DEF InterfaceUp, sntp_init
<1>9. Adds(w, t, 1)
  BY <1>7, <1>8, RequestAdds
<1>10. starts' \in 0 .. MaxStarts /\ starts' = starts + 1
  BY SntpState, SntpAssumption DEF InterfaceUp
<1>11. UnderWay <= starts + 2
  BY DEF SntpInv, SntpSound, RequestsBounded
<1> QED BY <1>6, <1>8, <1>9, <1>10, <1>11, SntpState, SntpStep DEF Adds

\* sntp_cleanup starts and stops no request.
LEMMA DownKeeps == ASSUME SntpInv, InterfaceDown PROVE SntpInv'
<1>1. PICK s : s = [StateSntp EXCEPT !.up = FALSE]
  OBVIOUS
<1>2. s \in SntpStates /\ s.up = FALSE /\ Live(s) = UnderWay /\ s.table = StateSntp.table
  BY <1>1, SntpState DEF SntpGood, SntpStates, Live
<1>3. PICK t : t = sntp_cleanup(s)
  OBVIOUS
<1>4. t \in SntpStates /\ t.up = FALSE /\ Live(t) = UnderWay /\ t.table = StateSntp.table
  BY <1>2, <1>3 DEF sntp_cleanup, SntpStates, Live
<1>5. SntpGood(t)
  BY <1>4, SntpState DEF SntpGood
<1>6. BecomesSntp(t) /\ starts' = starts
  BY <1>1, <1>3 DEF InterfaceDown
<1> QED BY <1>4, <1>5, <1>6, SntpState, SntpStep
        DEF SntpInv, SntpSound, SntpTypeOK, StillAsking, RequestsBounded

\* A step that ends n requests and starts as many keeps the invariant.
LEMMA BalancedStep ==
    ASSUME SntpInv, NEW s, SntpGood(s), s.up = netif_up, NEW n \in {0, 1},
           Live(s) = UnderWay - n, NEW t, Adds(s, t, n), BecomesSntp(t), UNCHANGED starts
    PROVE  SntpInv'
<1>1. UnderWay \in Nat /\ Live(s) \in Nat
  BY SntpState, LiveCount DEF SntpGood
<1>2. SntpGood(t) /\ Live(t) = UnderWay /\ t.up = netif_up
  BY <1>1 DEF Adds
<1>3. /\ starts' \in 0 .. MaxStarts /\ starts' = starts /\ (UnderWay > 0 \/ starts = 0)
      /\ UnderWay <= starts + 2 /\ (netif_up => starts > 0)
  BY <1>1, SntpState DEF SntpInv, SntpSound, SntpTypeOK, StillAsking, RequestsBounded
<1> QED BY <1>2, <1>3, SntpStep

\* sys_check_timeouts takes a timeout away, and its handler makes another request
\* of it.
LEMMA TimeoutKeeps == ASSUME SntpInv, RequestTimeout \/ RetryExpires PROVE SntpInv'
<1>1. CASE RequestTimeout
  <2>1. PICK s : s = [StateSntp EXCEPT !.request = StateSntp.request - 1]
    OBVIOUS
  <2>2. requests > 0 /\ StateSntp.request - 1 \in Nat
    BY <1>1, SntpState DEF RequestTimeout, SntpGood, SntpStates
  <2>3. s \in SntpStates /\ s.up = netif_up /\ s.request = StateSntp.request - 1
        /\ s.retry = StateSntp.retry /\ s.table = StateSntp.table /\ s.pcb = StateSntp.pcb
    BY <2>1, <2>2, SntpState DEF SntpGood, SntpStates
  <2>4. SntpGood(s)
    BY <2>3, SntpState DEF SntpGood
  <2>5. Live(s) = UnderWay - 1
    BY <2>3, SntpState, LiveCount DEF Live, SntpGood, Ids
  <2>6. PICK t \in sntp_request(s) : BecomesSntp(t)
    BY <1>1, <2>1 DEF RequestTimeout
  <2> QED BY <1>1, <2>3, <2>4, <2>5, <2>6, RequestAdds, BalancedStep DEF RequestTimeout
<1>2. CASE RetryExpires
  <2>1. PICK s : s = [StateSntp EXCEPT !.retry = StateSntp.retry - 1]
    OBVIOUS
  <2>2. retries > 0 /\ StateSntp.retry - 1 \in Nat
    BY <1>2, SntpState DEF RetryExpires, SntpGood, SntpStates
  <2>3. s \in SntpStates /\ s.up = netif_up /\ s.request = StateSntp.request
        /\ s.retry = StateSntp.retry - 1 /\ s.table = StateSntp.table /\ s.pcb = StateSntp.pcb
    BY <2>1, <2>2, SntpState DEF SntpGood, SntpStates
  <2>4. SntpGood(s)
    BY <2>3, SntpState DEF SntpGood
  <2>5. Live(s) = UnderWay - 1
    BY <2>3, SntpState, LiveCount DEF Live, SntpGood, Ids
  <2>6. BecomesSntp(sntp_retry(s))
    BY <1>2, <2>1 DEF RetryExpires
  <2> QED BY <1>2, <2>3, <2>4, <2>5, <2>6, RetryAdds, BalancedStep DEF RetryExpires
<1> QED BY <1>1, <1>2

\* dns_tmr looks at both entries.
LEMMA DnsTmrKeeps == ASSUME SntpInv, DnsTmr PROVE SntpInv'
<1>1. PICK u \in dns_check_entry(StateSntp, 0) : \E t \in dns_check_entry(u, 1) : BecomesSntp(t)
  BY DEF DnsTmr
<1>2. PICK t \in dns_check_entry(u, 1) : BecomesSntp(t)
  BY <1>1
<1>3. Adds(StateSntp, u, 0)
  BY <1>1, SntpState, CheckKeeps DEF Ids
<1>4. Adds(u, t, 0)
  BY <1>2, <1>3, CheckKeeps DEF Adds, Ids
<1>5. Adds(StateSntp, t, 0)
  BY <1>3, <1>4, SntpState, AddsTwice
<1> QED BY <1>2, <1>5, SntpState, BalancedStep DEF DnsTmr

\* An answer of the name server, or an error, ends a lookup.
LEMMA LookupEnds ==
    ASSUME SntpInv, NEW i \in Ids, DnsFound(i), NEW e \in DnsEntry, e.state # "ASKING",
           NEW s, s = [StateSntp EXCEPT !.table[i] = e]
    PROVE  SntpGood(s) /\ s.up = netif_up /\ Live(s) = UnderWay - 1
<1>1. StateSntp.table[i].state = "ASKING"
  BY DEF DnsFound, StateSntp
<1>2. SntpGood(s) /\ s.up = StateSntp.up /\ Live(s) = Live(StateSntp) + 0 - 1
  BY <1>1, SntpState, EntryAdds DEF Running, One
<1> QED BY <1>2, SntpState

\* dns_recv hands the result to sntp_dns_found.
LEMMA DnsRecvKeeps == ASSUME SntpInv, DnsAnswer \/ DnsError PROVE SntpInv'
<1>1. CASE DnsAnswer
  <2>1. PICK i \in Ids, ttl \in Ttls :
          /\ DnsFound(i)
          /\ \E s \in sntp_dns_found([StateSntp EXCEPT !.table[i] = answered(@, ttl)], TRUE) :
               BecomesSntp(s)
          /\ UNCHANGED starts
    BY <1>1 DEF DnsAnswer
  <2>2. PICK e : e = answered(StateSntp.table[i], ttl)
    OBVIOUS
  <2>3. e \in DnsEntry /\ e.state = "DONE"
    BY <2>2, SntpState, NewEntries DEF SntpGood, SntpStates
  <2>4. PICK s : s = [StateSntp EXCEPT !.table[i] = e]
    OBVIOUS
  <2>5. SntpGood(s) /\ s.up = netif_up /\ Live(s) = UnderWay - 1
    BY <2>1, <2>3, <2>4, LookupEnds
  <2>6. PICK t \in sntp_dns_found(s, TRUE) : BecomesSntp(t)
    BY <2>1, <2>2, <2>4
  <2> QED BY <2>1, <2>5, <2>6, FoundAdds, BalancedStep
<1>2. CASE DnsError
  <2>1. PICK i \in Ids :
          /\ DnsFound(i)
          /\ \E s \in sntp_dns_found([StateSntp EXCEPT !.table[i] = Unused], FALSE) : BecomesSntp(s)
          /\ UNCHANGED starts
    BY <1>2 DEF DnsError
  <2>2. PICK s : s = [StateSntp EXCEPT !.table[i] = Unused]
    OBVIOUS
  <2>3. SntpGood(s) /\ s.up = netif_up /\ Live(s) = UnderWay - 1
    BY <2>1, <2>2, LookupEnds, NewEntries
  <2>4. PICK t \in sntp_dns_found(s, FALSE) : BecomesSntp(t)
    BY <2>1, <2>2
  <2> QED BY <2>1, <2>3, <2>4, FoundAdds, BalancedStep
<1> QED BY <1>1, <1>2

\* A datagram for the client
LEMMA RecvKeeps == ASSUME SntpInv, Answer \/ BadAnswer PROVE SntpInv'
<1>1. PICK answer \in {"last", "older", "bad"} : RecvSntp(answer)
  BY DEF Answer, BadAnswer, SntpInv, SntpSound, SntpTypeOK
<1>2. PICK t : t = sntp_recv(StateSntp, answer)
  OBVIOUS
<1>3. SntpGood(t) /\ Live(t) > 0 /\ (Live(t) <= UnderWay \/ Live(t) <= 3)
  BY <1>2, SntpState, RecvAdds
<1>4. netif_up /\ starts > 0 /\ BecomesSntp(t) /\ starts' = starts
  BY <1>1, <1>2 DEF RecvSntp, SntpInv
<1>5. starts \in 0 .. MaxStarts /\ UnderWay <= starts + 2
  BY DEF SntpInv, SntpSound, SntpTypeOK, RequestsBounded
<1>6. Live(t) <= starts + 2
  BY <1>3, <1>4, <1>5, SntpState, LiveCount DEF SntpGood
<1> QED BY <1>3, <1>4, <1>5, <1>6, SntpStep

\* Every step keeps the invariant.
LEMMA SntpSteps == SntpInv /\ [NextSntp]_varsSntp => SntpInv'
<1> SUFFICES ASSUME SntpInv, [NextSntp]_varsSntp PROVE SntpInv'
  OBVIOUS
<1>1. CASE UNCHANGED varsSntp
  BY <1>1 DEF varsSntp, SntpInv, SntpSound, SntpTypeOK, RemovedPcbUnused, StillAsking,
              RequestsBounded, UnderWay, Running
<1> QED BY <1>1, UpKeeps, DownKeeps, TimeoutKeeps, DnsTmrKeeps, DnsRecvKeeps, RecvKeeps
        DEF NextSntp

\* The inductive invariant of the SNTP client and the resolver's table.
THEOREM SntpInvariance == SpecSntp => []SntpInv
BY SntpStart, SntpSteps, PTL DEF SpecSntp

\* sntp.c never uses the pcb that sntp_cleanup has given back, never falls
\* silent once it has been started, and keeps the requests under way within the
\* number of times the interface came up and the size of the resolver's table.
THEOREM SntpIsSound == SpecSntp => []SntpSound
<1>1. SntpInv => SntpSound
  BY DEF SntpInv
<1> QED BY <1>1, SntpInvariance, PTL
=============================================================================
