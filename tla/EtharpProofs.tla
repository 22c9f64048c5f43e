---------------------------- MODULE EtharpProofs ----------------------------
(***************************************************************************)
(* Proofs about the ARP cache, for tables of any size, any hosts and       *)
(* Ethernet addresses, any number of pbufs and any ages.                   *)
(***************************************************************************)
EXTENDS Etharp, TLAPS, WellFoundedInduction

-----------------------------------------------------------------------------
(* States *)

ArpEntry == [state : {"EMPTY", "PENDING", "STABLE"},
             ipaddr : Hosts \cup {NULL}, ethaddr : Eths \cup {NULL},
             ctime : 0 .. MaxAge - 1, q : Pbufs \cup {NULL}]
ArpStates == [t : [ArpSlots -> ArpEntry], hint : ArpSlots,
              own : [Pbufs -> Hosts \cup {NULL}], out : SUBSET (Hosts \X (Eths \cup {NULL}))]

\* Every entry in use is for a host, and no host has two.
OnePerHost(s) ==
    /\ \A i \in ArpSlots : s.t[i].state # "EMPTY" => s.t[i].ipaddr \in Hosts
    /\ \A i, j \in ArpSlots :
         (s.t[i].state # "EMPTY" /\ s.t[j].state # "EMPTY" /\ s.t[i].ipaddr = s.t[j].ipaddr)
         => i = j

\* The packets of the entries are owned, and the packets owned are at an entry.
Accounted(s) ==
    /\ \A i \in ArpSlots : s.t[i].q # NULL =>
         s.t[i].state = "PENDING" /\ s.own[s.t[i].q] = s.t[i].ipaddr
    /\ \A b \in Pbufs : s.own[b] # NULL => \E i \in ArpSlots : s.t[i].q = b

ArpGood(s) == s \in ArpStates /\ OnePerHost(s) /\ Accounted(s)

\* Stable entries have, and the frames sent went to, what the hosts announced.
Told(s, c) ==
    /\ \A i \in ArpSlots : s.t[i].state = "STABLE" =>
         s.t[i].ethaddr # NULL /\ s.t[i].ethaddr = c[s.t[i].ipaddr]
    /\ \A f \in s.out : f[2] # NULL /\ f[2] = c[f[1]]

\* No entry but i is for this host.
Others(s, i, ip) ==
    \A j \in ArpSlots \ {i} : s.t[j].state # "EMPTY" => s.t[j].ipaddr # ip

\* d is c with the announcement of one host.
News(c, d, ip, eth) == d[ip] = eth /\ \A h \in Hosts \ {ip} : d[h] = c[h]

\* The packets owned once the entry e is in the place of i
Repacked(s, i, e, w) ==
    /\ w \in [Pbufs -> Hosts \cup {NULL}]
    /\ \A b \in Pbufs : w[b] = IF b = e.q THEN e.ipaddr
                               ELSE IF b = s.t[i].q THEN NULL ELSE s.own[b]

\* The inductive invariant
ArpFull == [t |-> arp_table, hint |-> etharp_cached_entry, own |-> owned, out |-> sent]
ArpInv ==
    /\ ArpGood(ArpFull) /\ Told(ArpFull, claim)
    /\ claim \in [Hosts -> Eths \cup {NULL}]

-----------------------------------------------------------------------------
(* What find_entry's searches return *)

\* A set of numbers has a least.
LEMMA Least ==
    ASSUME NEW S, S \subseteq Nat, S # {}
    PROVE  \E i \in S : \A j \in S : i <= j
<1>1. PICK R : R = OpToRel(<, Nat)
  BY Zenon
<1>2. IsWellFoundedOn(R, Nat)
  BY <1>1, NatLessThanWellFounded, Zenon
<1>3. PICK i \in S : \A j \in S : ~(<<j, i>> \in R)
  BY <1>2, WFMin
<1>4. R = {ss \in Nat \X Nat : ss[1] < ss[2]}
  BY <1>1 DEF OpToRel
<1>5. ASSUME NEW j \in S PROVE i <= j
  <2>1. ~(<<j, i>> \in R)
    BY <1>3
  <2>2. ~(j < i)
    BY <1>4, <2>1
  <2> QED
    BY <2>2
<1> QED
  BY <1>5

\* First is the first of some entries.
LEMMA FirstIn ==
    ASSUME NEW S, S \subseteq ArpSlots, S # {}
    PROVE  First(S) \in S /\ \A j \in S : First(S) <= j
<1>1. S \subseteq Nat
  BY EtharpAssumption DEF ArpSlots
<1>2. \E i \in S : \A j \in S : i <= j
  BY <1>1, Least
<1> QED
  BY <1>2 DEF First

\* Oldest is one of the entries it is to choose from.
LEMMA OldestIn ==
    ASSUME NEW S, S \subseteq ArpSlots, S # {}, NEW t, \A i \in ArpSlots : t[i].ctime \in 0 .. MaxAge - 1
    PROVE  Oldest(t, S) \in S
<1> DEFINE young(i) == MaxAge - t[i].ctime
           T == {young(i) : i \in S}
<1>1. T \subseteq Nat /\ T # {}
  BY EtharpAssumption
<1>2. PICK m \in T : \A n \in T : m <= n
  BY <1>1, Least
<1> DEFINE U == {ARP_TABLE_SIZE - i : i \in {j \in S : young(j) = m}}
<1>3. U \subseteq Nat /\ U # {}
  BY <1>2, EtharpAssumption DEF ArpSlots
<1>4. PICK u \in U : \A n \in U : u <= n
  BY <1>3, Least
<1>5. PICK i \in S : young(i) = m /\ u = ARP_TABLE_SIZE - i
  BY <1>4
<1>6. ASSUME NEW j \in S
      PROVE  t[j].ctime < t[i].ctime \/ (t[j].ctime = t[i].ctime /\ j <= i)
  <2>1. young(i) <= young(j)
    BY <1>2, <1>5
  <2>2. t[j].ctime \in Nat /\ t[i].ctime \in Nat /\ MaxAge \in Nat /\ i \in Nat /\ j \in Nat /\ ARP_TABLE_SIZE \in Nat
    BY EtharpAssumption DEF ArpSlots
  <2>3. CASE young(j) = m
    <3>1. ARP_TABLE_SIZE - i <= ARP_TABLE_SIZE - j
      BY <1>4, <1>5, <2>3
    <3> QED
      BY <1>5, <2>2, <2>3, <3>1
  <2>4. CASE young(j) # m
    BY <1>5, <2>1, <2>2, <2>4
  <2> QED
    BY <2>3, <2>4
<1> QED
  BY <1>5, <1>6 DEF Oldest

-----------------------------------------------------------------------------
(* The table *)

\* An index is a number; 0 is an age.
LEMMA Zero == 0 \in 0 .. MaxAge - 1 /\ 0 \in ArpSlots
BY EtharpAssumption DEF ArpSlots

\* free_entry takes back the packet of the entry and leaves the others theirs.
LEMMA FreeEntryGood ==
    ASSUME NEW s, ArpGood(s), NEW c, Told(s, c), NEW i \in ArpSlots, NEW u, u = free_entry(s, i)
    PROVE  /\ ArpGood(u) /\ Told(u, c) /\ u.hint = s.hint /\ u.out = s.out
           /\ u.t = [s.t EXCEPT ![i] = EmptyEntry]
           /\ \A b \in Pbufs : s.own[b] = NULL => u.own[b] = NULL
<1>1. s \in ArpStates /\ s.t \in [ArpSlots -> ArpEntry] /\ s.own \in [Pbufs -> Hosts \cup {NULL}]
  BY DEF ArpGood, ArpStates
<1>2. PICK p : p = s.t[i].q
  OBVIOUS
<1>3. p \in Pbufs \cup {NULL} /\ EmptyEntry \in ArpEntry /\ NULL \notin Pbufs /\ NULL \notin Hosts
  BY <1>1, <1>2, Zero, EtharpAssumption DEF ArpEntry, EmptyEntry
<1>4. PICK w : w = IF p = NULL THEN s.own ELSE [s.own EXCEPT ![p] = NULL]
  OBVIOUS
<1>5. u = [s EXCEPT !.t = [s.t EXCEPT ![i] = EmptyEntry], !.own = w]
  <2>1. CASE p = NULL
    BY <1>1, <1>2, <1>4, <2>1 DEF free_entry, free_queued, ArpStates
  <2>2. CASE p # NULL
    BY <1>1, <1>2, <1>4, <2>2 DEF free_entry, free_queued, ArpStates
  <2> QED
    BY <2>1, <2>2
<1>6. w \in [Pbufs -> Hosts \cup {NULL}] /\ \A b \in Pbufs : w[b] = IF b = p THEN NULL ELSE s.own[b]
  BY <1>1, <1>3, <1>4
<1>7. u \in ArpStates /\ u.t = [s.t EXCEPT ![i] = EmptyEntry] /\ u.own = w /\ u.hint = s.hint /\ u.out = s.out
  <2>1. [s.t EXCEPT ![i] = EmptyEntry] \in [ArpSlots -> ArpEntry]
    BY <1>1, <1>3
  <2> QED
    BY <1>1, <1>5, <1>6, <2>1 DEF ArpStates
<1>8. /\ u.t[i].state = "EMPTY" /\ u.t[i].q = NULL
      /\ \A j \in ArpSlots : j # i => u.t[j] = s.t[j]
  BY <1>1, <1>7 DEF EmptyEntry
<1>9. OnePerHost(u)
  BY <1>8 DEF ArpGood, OnePerHost
<1>10. Accounted(u)
  <2>1. ASSUME NEW j \in ArpSlots, u.t[j].q # NULL
        PROVE  u.t[j].state = "PENDING" /\ u.own[u.t[j].q] = u.t[j].ipaddr
    <3>1. j # i /\ u.t[j] = s.t[j] /\ s.t[j].q \in Pbufs
      BY <1>1, <1>8, <2>1 DEF ArpEntry
    <3>2. s.t[j].state = "PENDING" /\ s.own[s.t[j].q] = s.t[j].ipaddr
      BY <2>1, <3>1 DEF ArpGood, Accounted
    <3>3. s.t[j].q # p
      <4>1. ASSUME s.t[j].q = p PROVE FALSE
        <5>1. s.t[i].state = "PENDING" /\ s.own[s.t[i].q] = s.t[i].ipaddr
          BY <1>2, <2>1, <3>1, <4>1 DEF ArpGood, Accounted
        <5>2. s.t[i].ipaddr = s.t[j].ipaddr
          BY <1>2, <3>2, <4>1, <5>1
        <5> QED
          BY <3>1, <3>2, <5>1, <5>2 DEF ArpGood, OnePerHost
      <4> QED
        BY <4>1
    <3> QED
      BY <1>6, <1>7, <3>1, <3>2, <3>3
  <2>2. ASSUME NEW b \in Pbufs, u.own[b] # NULL
        PROVE  \E j \in ArpSlots : u.t[j].q = b
    <3>1. b # p /\ s.own[b] # NULL
      BY <1>6, <1>7, <2>2
    <3>2. PICK j \in ArpSlots : s.t[j].q = b
      BY <3>1 DEF ArpGood, Accounted
    <3> QED
      BY <1>2, <1>8, <3>1, <3>2
  <2> QED
    BY <2>1, <2>2 DEF Accounted
<1>11. Told(u, c)
  BY <1>7, <1>8 DEF Told
<1> QED
  BY <1>6, <1>7, <1>9, <1>10, <1>11 DEF ArpGood

\* One entry in place of another
WithEntry(s, i, e) == [s EXCEPT !.t = [s.t EXCEPT ![i] = e]]

\* An entry may be given other fields while it keeps its packet.
LEMMA EntryGood ==
    ASSUME NEW s, ArpGood(s), NEW i \in ArpSlots, NEW e \in ArpEntry, e.q = s.t[i].q,
           e.q # NULL => e.state = "PENDING" /\ e.ipaddr = s.t[i].ipaddr,
           e.state # "EMPTY" => e.ipaddr \in Hosts,
           e.state # "EMPTY" => Others(s, i, e.ipaddr),
           NEW u, u = WithEntry(s, i, e)
    PROVE  /\ ArpGood(u) /\ u.hint = s.hint /\ u.own = s.own /\ u.out = s.out
           /\ u.t[i] = e /\ \A j \in ArpSlots \ {i} : u.t[j] = s.t[j]
<1>1. s \in ArpStates /\ s.t \in [ArpSlots -> ArpEntry]
  BY DEF ArpGood, ArpStates
<1>2. u \in ArpStates /\ u.t = [s.t EXCEPT ![i] = e] /\ u.hint = s.hint /\ u.own = s.own /\ u.out = s.out
  BY <1>1 DEF ArpStates, WithEntry
<1>3. u.t[i] = e /\ \A j \in ArpSlots \ {i} : u.t[j] = s.t[j]
  BY <1>1, <1>2
<1>4. OnePerHost(u)
  BY <1>3 DEF ArpGood, OnePerHost, Others
<1>5. Accounted(u)
  <2>1. \A j \in ArpSlots : u.t[j].q = s.t[j].q
    BY <1>3
  <2>2. \A j \in ArpSlots : u.t[j].q # NULL => u.t[j].state = "PENDING" /\ u.t[j].ipaddr = s.t[j].ipaddr
    BY <1>3 DEF ArpGood, Accounted
  <2>3. \A j \in ArpSlots : u.t[j].q # NULL => u.own[u.t[j].q] = u.t[j].ipaddr
    BY <1>2, <2>1, <2>2 DEF ArpGood, Accounted
  <2>4. \A b \in Pbufs : u.own[b] # NULL => \E j \in ArpSlots : u.t[j].q = b
    BY <1>2, <2>1 DEF ArpGood, Accounted
  <2> QED
    BY <2>2, <2>3, <2>4 DEF Accounted
<1> QED
  BY <1>2, <1>3, <1>4, <1>5 DEF ArpGood

\* A full table has an entry to recycle.
LEMMA VictimIn ==
    ASSUME NEW t \in [ArpSlots -> ArpEntry], \A i \in ArpSlots : t[i].state # "EMPTY"
    PROVE  Victim(t) \in ArpSlots
<1> DEFINE stable == {i \in ArpSlots : t[i].state = "STABLE"}
           pending == {i \in ArpSlots : t[i].state = "PENDING" /\ t[i].q = NULL}
           queued == {i \in ArpSlots : t[i].state = "PENDING" /\ t[i].q # NULL}
<1>1. \A i \in ArpSlots : t[i].ctime \in 0 .. MaxAge - 1
  BY DEF ArpEntry
<1>2. stable # {} => Oldest(t, stable) \in ArpSlots
  BY <1>1, OldestIn
<1>3. pending # {} => Oldest(t, pending) \in ArpSlots
  BY <1>1, OldestIn
<1>4. queued # {} => Oldest(t, queued) \in ArpSlots
  BY <1>1, OldestIn
<1>5. stable # {} \/ pending # {} \/ queued # {}
  <2>1. t[0].state \in {"PENDING", "STABLE"}
    BY Zero DEF ArpEntry
  <2> QED
    BY <2>1, Zero
<1> QED
  BY <1>2, <1>3, <1>4, <1>5 DEF Victim

\* find_entry: the entry it returns is the one of the host, or an empty one that
\* is named after a host which has none.
LEMMA FindGood ==
    ASSUME NEW s, ArpGood(s), NEW c, Told(s, c), NEW ip \in Hosts,
           NEW i, i = find_entry(s, ip)[1], NEW u, u = find_entry(s, ip)[2]
    PROVE  /\ ArpGood(u) /\ Told(u, c) /\ u.hint = s.hint /\ u.out = s.out
           /\ \A b \in Pbufs : s.own[b] = NULL => u.own[b] = NULL
           /\ i \in ArpSlots /\ u.t[i].ipaddr = ip
           /\ Others(u, i, ip)
           /\ Match(s.t, ip) # {} => u = s
<1>1. s \in ArpStates /\ s.t \in [ArpSlots -> ArpEntry]
  BY DEF ArpGood, ArpStates
<1>2. CASE Match(s.t, ip) # {}
  <2>1. i = First(Match(s.t, ip)) /\ u = s
    BY <1>2 DEF find_entry
  <2>2. Match(s.t, ip) \subseteq ArpSlots
    BY DEF Match
  <2>3. i \in Match(s.t, ip)
    BY <1>2, <2>1, <2>2, FirstIn
  <2>4. i \in ArpSlots /\ s.t[i].state # "EMPTY" /\ s.t[i].ipaddr = ip
    BY <2>3 DEF Match
  <2> QED
    BY <2>1, <2>4 DEF ArpGood, OnePerHost, Others
<1>3. CASE Match(s.t, ip) = {}
  <2> DEFINE empty == {j \in ArpSlots : s.t[j].state = "EMPTY"}
  <2>1. PICK k : k = IF empty # {} THEN First(empty) ELSE Victim(s.t)
    OBVIOUS
  <2>2. PICK v : v = IF empty # {} THEN s ELSE free_entry(s, k)
    OBVIOUS
  <2>3. i = k /\ u = [v EXCEPT !.t[k] = [v.t[k] EXCEPT !.ipaddr = ip, !.ctime = 0]]
    BY <1>3, <2>1, <2>2 DEF find_entry
  <2>4. k \in ArpSlots
    <3>1. empty # {} => First(empty) \in ArpSlots
      BY FirstIn
    <3>2. empty = {} => Victim(s.t) \in ArpSlots
      BY <1>1, VictimIn
    <3> QED
      BY <2>1, <3>1, <3>2
  <2>5. /\ ArpGood(v) /\ Told(v, c) /\ v.hint = s.hint /\ v.out = s.out
        /\ \A b \in Pbufs : s.own[b] = NULL => v.own[b] = NULL
        /\ v.t[k].state = "EMPTY"
        /\ \A j \in ArpSlots \ {k} : v.t[j] = s.t[j]
    <3>1. CASE empty # {}
      BY <2>1, <2>2, <3>1, FirstIn
    <3>2. CASE empty = {}
      <4>1. v = free_entry(s, k)
        BY <2>2, <3>2
      <4>2. /\ ArpGood(v) /\ Told(v, c) /\ v.hint = s.hint /\ v.out = s.out
            /\ v.t = [s.t EXCEPT ![k] = EmptyEntry]
            /\ \A b \in Pbufs : s.own[b] = NULL => v.own[b] = NULL
        BY <2>4, <4>1, FreeEntryGood
      <4> QED
        BY <1>1, <2>4, <4>2 DEF EmptyEntry
    <3> QED
      BY <3>1, <3>2
  <2>6. v \in ArpStates /\ v.t \in [ArpSlots -> ArpEntry] /\ v.t[k] \in ArpEntry
    BY <2>4, <2>5 DEF ArpGood, ArpStates
  <2>7. PICK e : e = [v.t[k] EXCEPT !.ipaddr = ip, !.ctime = 0]
    OBVIOUS
  <2>8. e \in ArpEntry /\ e.ipaddr = ip /\ e.state = "EMPTY" /\ e.q = v.t[k].q
    BY <2>5, <2>6, <2>7, Zero DEF ArpEntry
  <2>9. u = WithEntry(v, k, e)
    BY <2>3, <2>4, <2>6, <2>7 DEF ArpStates, ArpEntry, WithEntry
  <2>10. v.t[k].q = NULL
    BY <2>4, <2>5 DEF ArpGood, Accounted
  <2>11. /\ ArpGood(u) /\ u.hint = v.hint /\ u.own = v.own /\ u.out = v.out
         /\ u.t[k] = e /\ \A j \in ArpSlots \ {k} : u.t[j] = v.t[j]
    <3>1. e \in ArpEntry /\ e.q = v.t[k].q
      BY <2>8
    <3>2. e.q # NULL => e.state = "PENDING" /\ e.ipaddr = v.t[k].ipaddr
      BY <2>8, <2>10
    <3>3. e.state # "EMPTY" => e.ipaddr \in Hosts
      BY <2>8
    <3>4. e.state # "EMPTY" => Others(v, k, e.ipaddr)
      BY <2>8
    <3>5. ArpGood(v)
      BY <2>5
    <3> QED
      BY <2>4, <2>9, <3>1, <3>2, <3>3, <3>4, <3>5, EntryGood
  <2>12. Told(u, c)
    BY <2>4, <2>5, <2>8, <2>11 DEF Told
  <2>13. Others(u, k, ip)
    BY <1>3, <2>5, <2>11 DEF Match, Others
  <2> QED
    BY <1>3, <2>3, <2>4, <2>5, <2>8, <2>11, <2>12, <2>13
<1> QED
  BY <1>2, <1>3

\* etharp_query makes the entry of a new host pending.
LEMMA PendingGood ==
    ASSUME NEW s, ArpGood(s), NEW c, Told(s, c), NEW ip \in Hosts, NEW i \in ArpSlots,
           s.t[i].state = "EMPTY", s.t[i].ipaddr = ip,
           Others(s, i, ip),
           NEW u, u = MarkPending(s, i)
    PROVE  /\ ArpGood(u) /\ Told(u, c) /\ u.hint = s.hint /\ u.out = s.out /\ u.own = s.own
           /\ u.t[i].state = "PENDING" /\ u.t[i].ipaddr = ip
<1>1. s \in ArpStates /\ s.t \in [ArpSlots -> ArpEntry] /\ s.t[i] \in ArpEntry
  BY DEF ArpGood, ArpStates
<1>2. PICK e : e = [s.t[i] EXCEPT !.state = "PENDING"]
  OBVIOUS
<1>3. e \in ArpEntry /\ e.state = "PENDING" /\ e.ipaddr = ip /\ e.q = s.t[i].q
  BY <1>1, <1>2 DEF ArpEntry
<1>4. PICK v : v = WithEntry(s, i, e)
  OBVIOUS
<1>5. /\ ArpGood(v) /\ v.hint = s.hint /\ v.own = s.own /\ v.out = s.out
      /\ v.t[i] = e /\ \A j \in ArpSlots \ {i} : v.t[j] = s.t[j]
  <2>1. e.state # "EMPTY" => e.ipaddr \in Hosts
    BY <1>3
  <2>2. e.state # "EMPTY" => Others(s, i, e.ipaddr)
    BY <1>3
  <2>3. e \in ArpEntry /\ e.q = s.t[i].q
    BY <1>3
  <2>4. e.q # NULL => e.state = "PENDING" /\ e.ipaddr = s.t[i].ipaddr
    BY <1>3
  <2> QED
    BY <1>4, <2>1, <2>2, <2>3, <2>4, EntryGood
<1>6. u = v
  BY <1>1, <1>2, <1>4 DEF ArpStates, WithEntry, MarkPending
<1>7. Told(u, c)
  BY <1>3, <1>5, <1>6 DEF Told
<1> QED
  BY <1>3, <1>5, <1>6, <1>7

\* The queued packet is freed or replaced.
LEMMA SwapPacket ==
    ASSUME NEW s, ArpGood(s), NEW i \in ArpSlots, NEW e \in ArpEntry, NEW w,
           Repacked(s, i, e, w), e.state # "EMPTY", e.ipaddr = s.t[i].ipaddr, e.ipaddr \in Hosts,
           Others(s, i, e.ipaddr), e.q # NULL => e.state = "PENDING" /\ s.own[e.q] = NULL,
           NEW u \in ArpStates, u.own = w, u.t = [s.t EXCEPT ![i] = e]
    PROVE  ArpGood(u)
<1>1. s.t \in [ArpSlots -> ArpEntry]
  BY DEF ArpGood, ArpStates
<1>2. u.t[i] = e /\ \A j \in ArpSlots \ {i} : u.t[j] = s.t[j]
  BY <1>1
<1>3. OnePerHost(u)
  BY <1>2 DEF ArpGood, OnePerHost, Others
<1>4. ASSUME NEW j \in ArpSlots, u.t[j].q # NULL
      PROVE  u.t[j].state = "PENDING" /\ u.own[u.t[j].q] = u.t[j].ipaddr
  <2>1. CASE j = i
    BY <1>2, <1>4, <2>1 DEF ArpEntry, Repacked
  <2>2. CASE j # i
    <3>1. u.t[j] = s.t[j] /\ s.t[j].q \in Pbufs
      BY <1>1, <1>2, <1>4, <2>2 DEF ArpEntry
    <3>2. s.t[j].state = "PENDING" /\ s.own[s.t[j].q] = s.t[j].ipaddr /\ s.t[j].ipaddr \in Hosts
      BY <1>4, <3>1 DEF ArpGood, Accounted, OnePerHost
    <3>3. s.t[j].q # e.q
      BY <1>4, <3>1, <3>2, EtharpAssumption
    <3>4. s.t[j].q # s.t[i].q
      <4>1. ASSUME s.t[j].q = s.t[i].q PROVE FALSE
        <5>1. s.t[i].state = "PENDING" /\ s.own[s.t[i].q] = s.t[i].ipaddr
          BY <1>4, <3>1, <4>1 DEF ArpGood, Accounted
        <5> QED
          BY <2>2, <3>2, <4>1, <5>1 DEF ArpGood, OnePerHost
      <4> QED
        BY <4>1
    <3> QED
      BY <3>1, <3>2, <3>3, <3>4 DEF Repacked
  <2> QED
    BY <2>1, <2>2
<1>5. ASSUME NEW b \in Pbufs, u.own[b] # NULL
      PROVE  \E j \in ArpSlots : u.t[j].q = b
  <2>1. CASE b = e.q
    BY <1>2, <2>1
  <2>2. CASE b # e.q
    <3>1. b # s.t[i].q /\ s.own[b] # NULL
      BY <1>5, <2>2 DEF Repacked
    <3>2. PICK j \in ArpSlots : s.t[j].q = b
      BY <3>1 DEF ArpGood, Accounted
    <3> QED
      BY <1>2, <3>1, <3>2
  <2> QED
    BY <2>1, <2>2
<1> QED
  BY <1>3, <1>4, <1>5 DEF ArpGood, Accounted

\* A host's announcement changes nothing said of the others.
LEMMA ToldOthers ==
    ASSUME NEW s, ArpGood(s), NEW c, Told(s, c), NEW ip, NEW eth, NEW d, News(c, d, ip, eth),
           NEW j \in ArpSlots, s.t[j].state = "STABLE", s.t[j].ipaddr # ip
    PROVE  s.t[j].ethaddr # NULL /\ s.t[j].ethaddr = d[s.t[j].ipaddr]
BY DEF ArpGood, OnePerHost, Told, News

\* update_arp_entry: the entry becomes stable and what waited leaves for the
\* address just announced.
LEMMA StableGood ==
    ASSUME NEW s, ArpGood(s), NEW c, Told(s, c), s.out = {},
           NEW ip \in Hosts, NEW eth \in Eths, NEW d, News(c, d, ip, eth),
           NEW i \in ArpSlots, s.t[i].ipaddr = ip, Others(s, i, ip),
           NEW u, u = MakeStable(s, i, eth)
    PROVE  ArpGood(u) /\ Told(u, d)
<1>1. /\ s \in ArpStates /\ s.t \in [ArpSlots -> ArpEntry] /\ s.t[i] \in ArpEntry
      /\ s.own \in [Pbufs -> Hosts \cup {NULL}]
  BY DEF ArpGood, ArpStates
<1>2. PICK e : e = [s.t[i] EXCEPT !.state = "STABLE", !.ethaddr = eth, !.ctime = 0, !.q = NULL]
  OBVIOUS
<1>3. e \in ArpEntry /\ e.state = "STABLE" /\ e.ipaddr = ip /\ e.ethaddr = eth /\ e.q = NULL
  BY <1>1, <1>2, Zero DEF ArpEntry
<1>4. PICK v : v = WithEntry(s, i, e)
  OBVIOUS
<1>5. v = [s EXCEPT !.t[i] = [s.t[i] EXCEPT !.state = "STABLE", !.ethaddr = eth, !.ctime = 0, !.q = NULL]]
  BY <1>1, <1>2, <1>4 DEF ArpStates, WithEntry
<1>6. [s.t EXCEPT ![i] = e] \in [ArpSlots -> ArpEntry]
  BY <1>1, <1>3
<1>7. v \in ArpStates /\ v.t = [s.t EXCEPT ![i] = e] /\ v.own = s.own /\ v.out = {} /\ v.hint = s.hint
  BY <1>1, <1>4, <1>6 DEF ArpStates, WithEntry
<1>8. PICK b : b = s.t[i].q
  OBVIOUS
<1>9. b \in Pbufs \cup {NULL} /\ NULL \notin Pbufs /\ eth # NULL
  BY <1>1, <1>8, EtharpAssumption DEF ArpEntry
<1>10. \A j \in ArpSlots : v.t[j].state = "STABLE" =>
         v.t[j].ethaddr # NULL /\ v.t[j].ethaddr = d[v.t[j].ipaddr]
  <2> SUFFICES ASSUME NEW j \in ArpSlots, v.t[j].state = "STABLE"
               PROVE  v.t[j].ethaddr # NULL /\ v.t[j].ethaddr = d[v.t[j].ipaddr]
    OBVIOUS
  <2>1. CASE j = i
    BY <1>1, <1>3, <1>7, <1>9, <2>1 DEF News
  <2>2. CASE j # i
    <3>1. v.t[j] = s.t[j] /\ s.t[j].state = "STABLE" /\ s.t[j].ipaddr # ip
      BY <1>1, <1>7, <2>2 DEF Others
    <3> QED
      BY <3>1, ToldOthers
  <2> QED
    BY <2>1, <2>2
<1>11. e.state # "EMPTY" /\ e.ipaddr = s.t[i].ipaddr /\ e.ipaddr \in Hosts /\ Others(s, i, e.ipaddr)
  BY <1>3
<1>12. e.q # NULL => e.state = "PENDING" /\ s.own[e.q] = NULL
  BY <1>3
<1>13. CASE b = NULL
  <2>1. u = v
    BY <1>5, <1>8, <1>13 DEF MakeStable
  <2>2. Repacked(s, i, e, s.own)
    BY <1>1, <1>3, <1>8, <1>9, <1>13 DEF Repacked
  <2>3. ArpGood(v)
    BY <1>3, <1>7, <1>11, <1>12, <2>2, SwapPacket
  <2> QED
    BY <1>7, <1>10, <2>1, <2>3 DEF Told
<1>14. CASE b # NULL
  <2>1. PICK w : w = [s.own EXCEPT ![b] = NULL]
    OBVIOUS
  <2>2. s.own[b] = ip
    BY <1>8, <1>14 DEF ArpGood, Accounted
  <2>3. PICK x : x = etharp_send_ip(v, ip, eth)
    OBVIOUS
  <2>4. u = free_queued(x, b)
    BY <1>5, <1>8, <1>14, <2>2, <2>3 DEF MakeStable
  <2>5. v.out \cup {<<ip, eth>>} = {<<ip, eth>>}
    BY <1>7
  <2>6. {<<ip, eth>>} \in SUBSET (Hosts \X (Eths \cup {NULL}))
    OBVIOUS
  <2>7. x = [v EXCEPT !.out = {<<ip, eth>>}]
    BY <2>3, <2>5 DEF etharp_send_ip
  <2>8. x \in ArpStates /\ x.t = v.t /\ x.own = s.own /\ x.out = {<<ip, eth>>}
    BY <1>7, <2>6, <2>7 DEF ArpStates
  <2>9. u = [x EXCEPT !.own = w]
    BY <1>14, <2>1, <2>4, <2>8 DEF free_queued, ArpStates
  <2>10. w \in [Pbufs -> Hosts \cup {NULL}] /\ \A a \in Pbufs : w[a] = IF a = b THEN NULL ELSE s.own[a]
    BY <1>1, <1>9, <2>1
  <2>11. u \in ArpStates /\ u.t = [s.t EXCEPT ![i] = e] /\ u.own = w /\ u.out = {<<ip, eth>>}
    BY <1>7, <2>8, <2>9, <2>10 DEF ArpStates
  <2>12. Repacked(s, i, e, w)
    BY <1>3, <1>8, <1>9, <2>10 DEF Repacked
  <2>13. ArpGood(u)
    BY <1>3, <1>11, <1>12, <2>11, <2>12, SwapPacket
  <2>14. u.t = v.t /\ \A f \in u.out : f[2] = eth /\ f[1] = ip
    BY <1>7, <2>11
  <2> QED
    BY <1>9, <1>10, <2>13, <2>14 DEF Told, News
<1> QED
  BY <1>13, <1>14

\* update_arp_entry, with and without ETHARP_FLAG_TRY_HARD
LEMMA UpdateGood ==
    ASSUME NEW s, ArpGood(s), NEW c, Told(s, c), s.out = {},
           NEW ip \in Hosts, NEW eth \in Eths, NEW d, News(c, d, ip, eth),
           NEW hard \in BOOLEAN, NEW u, u = update_arp_entry(s, ip, eth, hard)
    PROVE  ArpGood(u) /\ Told(u, d)
<1>1. CASE ~hard /\ Match(s.t, ip) = {}
  <2>1. u = s
    BY <1>1 DEF update_arp_entry
  <2>2. \A j \in ArpSlots : s.t[j].state = "STABLE" => s.t[j].ipaddr # ip
    BY <1>1 DEF Match
  <2>3. \A j \in ArpSlots : s.t[j].state = "STABLE" =>
          s.t[j].ethaddr # NULL /\ s.t[j].ethaddr = d[s.t[j].ipaddr]
    BY <2>2, ToldOthers
  <2> QED
    BY <2>1, <2>3 DEF Told
<1>2. CASE ~(~hard /\ Match(s.t, ip) = {})
  <2>1. PICK i : i = find_entry(s, ip)[1]
    OBVIOUS
  <2>2. PICK v : v = find_entry(s, ip)[2]
    OBVIOUS
  <2>3. u = MakeStable(v, i, eth)
    BY <1>2, <2>1, <2>2 DEF update_arp_entry
  <2>4. /\ ArpGood(v) /\ Told(v, c) /\ v.out = {} /\ i \in ArpSlots /\ v.t[i].ipaddr = ip
        /\ Others(v, i, ip)
    BY <2>1, <2>2, FindGood
  <2> QED
    BY <2>3, <2>4, StableGood
<1> QED
  BY <1>1, <1>2

-----------------------------------------------------------------------------
(* Packets to send *)

\* Nothing but the table and the packets matters to the table.
LEMMA SameTable ==
    ASSUME NEW s, ArpGood(s), NEW u \in ArpStates, u.t = s.t, u.own = s.own
    PROVE  ArpGood(u)
BY DEF ArpGood, OnePerHost, Accounted

\* A frame sent to the address of a stable entry goes where the host announced.
LEMMA SendGood ==
    ASSUME NEW s, ArpGood(s), NEW c, Told(s, c), NEW ip \in Hosts,
           NEW i \in ArpSlots, s.t[i].state = "STABLE", s.t[i].ipaddr = ip,
           NEW h \in ArpSlots,
           NEW u, u = [etharp_send_ip(s, ip, s.t[i].ethaddr) EXCEPT !.hint = h]
    PROVE  ArpGood(u) /\ Told(u, c)
<1>1. s \in ArpStates /\ s.t[i] \in ArpEntry
  BY DEF ArpGood, ArpStates
<1>2. PICK eth : eth = s.t[i].ethaddr
  OBVIOUS
<1>3. eth \in Eths \cup {NULL} /\ eth # NULL /\ eth = c[ip]
  BY <1>1, <1>2 DEF ArpEntry, Told
<1>4. PICK o : o = s.out \cup {<<ip, eth>>}
  OBVIOUS
<1>5. o \in SUBSET (Hosts \X (Eths \cup {NULL}))
  BY <1>1, <1>3, <1>4 DEF ArpStates
<1>6. u = [s EXCEPT !.out = o, !.hint = h]
  BY <1>2, <1>4 DEF etharp_send_ip
<1>7. u \in ArpStates /\ u.t = s.t /\ u.own = s.own /\ u.out = o
  BY <1>1, <1>5, <1>6 DEF ArpStates
<1>8. ArpGood(u)
  BY <1>7, SameTable
<1>9. \A f \in o : f[2] # NULL /\ f[2] = c[f[1]]
  BY <1>3, <1>4 DEF Told
<1> QED
  BY <1>7, <1>8, <1>9 DEF Told

\* etharp_query: the copy waits at the pending entry, in place of an older one.
LEMMA QueueGood ==
    ASSUME NEW s, ArpGood(s), NEW c, Told(s, c), NEW ip \in Hosts,
           NEW i \in ArpSlots, s.t[i].state = "PENDING", s.t[i].ipaddr = ip, Others(s, i, ip),
           NEW b \in Pbufs, s.own[b] = NULL,
           NEW u, u = Queue(s, i, ip, b)
    PROVE  ArpGood(u) /\ Told(u, c)
<1>1. /\ s \in ArpStates /\ s.t \in [ArpSlots -> ArpEntry] /\ s.t[i] \in ArpEntry
      /\ s.own \in [Pbufs -> Hosts \cup {NULL}]
  BY DEF ArpGood, ArpStates
<1>2. PICK p : p = s.t[i].q
  OBVIOUS
<1>3. p \in Pbufs \cup {NULL} /\ NULL \notin Pbufs /\ NULL \notin Hosts
  BY <1>1, <1>2, EtharpAssumption DEF ArpEntry
<1>4. PICK e : e = [s.t[i] EXCEPT !.q = b]
  OBVIOUS
<1>5. e \in ArpEntry /\ e.state = "PENDING" /\ e.ipaddr = ip /\ e.q = b
  BY <1>1, <1>4 DEF ArpEntry
<1>6. PICK x : x = free_queued(s, p)
  OBVIOUS
<1>7. /\ x \in ArpStates /\ x.t = s.t /\ x.out = s.out
      /\ \A a \in Pbufs : x.own[a] = IF a = p THEN NULL ELSE s.own[a]
  <2>1. CASE p = NULL
    BY <1>1, <1>3, <1>6, <2>1 DEF free_queued
  <2>2. CASE p # NULL
    <3>1. x = [s EXCEPT !.own = [s.own EXCEPT ![p] = NULL]]
      BY <1>1, <1>6, <2>2 DEF free_queued, ArpStates
    <3>2. [s.own EXCEPT ![p] = NULL] \in [Pbufs -> Hosts \cup {NULL}]
      BY <1>1
    <3> QED
      BY <1>1, <1>3, <2>2, <3>1, <3>2 DEF ArpStates
  <2> QED
    BY <2>1, <2>2
<1>8. PICK w : w = [x.own EXCEPT ![b] = ip]
  OBVIOUS
<1>9. x.own \in [Pbufs -> Hosts \cup {NULL}]
  BY <1>7 DEF ArpStates
<1>10. Repacked(s, i, e, w)
  BY <1>2, <1>5, <1>7, <1>8, <1>9 DEF Repacked
<1>11. u = [x EXCEPT !.own = w, !.t = [s.t EXCEPT ![i] = e]]
  <2>1. u = [x EXCEPT !.own[b] = ip, !.t[i].q = b]
    BY <1>2, <1>6 DEF Queue
  <2>2. u = [x EXCEPT !.own = [x.own EXCEPT ![b] = ip], !.t = [x.t EXCEPT ![i] = [x.t[i] EXCEPT !.q = b]]]
    BY <1>7, <2>1 DEF ArpStates
  <2> QED
    BY <1>4, <1>7, <1>8, <2>2
<1>12. [s.t EXCEPT ![i] = e] \in [ArpSlots -> ArpEntry] /\ w \in [Pbufs -> Hosts \cup {NULL}]
  BY <1>1, <1>5, <1>10 DEF Repacked
<1>13. u \in ArpStates /\ u.own = w /\ u.t = [s.t EXCEPT ![i] = e] /\ u.out = s.out
  BY <1>7, <1>11, <1>12 DEF ArpStates
<1>14. ArpGood(u)
  <2>1. e.state # "EMPTY" /\ e.ipaddr = s.t[i].ipaddr /\ e.ipaddr \in Hosts /\ Others(s, i, e.ipaddr)
    BY <1>5
  <2>2. e.q # NULL => e.state = "PENDING" /\ s.own[e.q] = NULL
    BY <1>5
  <2> QED
    BY <1>5, <1>10, <1>13, <2>1, <2>2, SwapPacket
<1>15. u.t[i] = e /\ \A j \in ArpSlots \ {i} : u.t[j] = s.t[j]
  BY <1>1, <1>13
<1> QED
  BY <1>5, <1>13, <1>14, <1>15 DEF Told

\* An entry in use is the only one of its host.
LEMMA OnlyEntry ==
    ASSUME NEW s, ArpGood(s), NEW i \in ArpSlots, s.t[i].state # "EMPTY"
    PROVE  Others(s, i, s.t[i].ipaddr)
BY DEF ArpGood, OnePerHost, Others

\* etharp_query's entry: the host's, pending if there was none
LEMMA AskGood ==
    ASSUME NEW s, ArpGood(s), NEW c, Told(s, c), NEW ip \in Hosts,
           NEW i, i = find_entry(s, ip)[1], NEW v, v = find_entry(s, ip)[2],
           NEW u, u = MarkPending(v, i)
    PROVE  /\ ArpGood(u) /\ Told(u, c) /\ i \in ArpSlots /\ u.t[i].ipaddr = ip /\ Others(u, i, ip)
           /\ u.t[i].state \in {"PENDING", "STABLE"}
           /\ \A b \in Pbufs : s.own[b] = NULL => u.own[b] = NULL
<1>1. /\ ArpGood(v) /\ Told(v, c) /\ i \in ArpSlots /\ v.t[i].ipaddr = ip /\ Others(v, i, ip)
      /\ \A b \in Pbufs : s.own[b] = NULL => v.own[b] = NULL
  BY FindGood
<1>2. v.t \in [ArpSlots -> ArpEntry]
  BY <1>1 DEF ArpGood, ArpStates
<1>3. CASE v.t[i].state = "EMPTY"
  <2>1. /\ ArpGood(u) /\ Told(u, c) /\ u.own = v.own
        /\ u.t[i].state = "PENDING" /\ u.t[i].ipaddr = ip
    BY <1>1, <1>3, PendingGood
  <2>2. Others(u, i, ip)
    BY <1>1, <2>1, OnlyEntry
  <2> QED
    BY <1>1, <2>1, <2>2
<1>4. CASE v.t[i].state # "EMPTY"
  <2>1. u = v
    BY <1>4 DEF MarkPending
  <2> QED
    BY <1>1, <1>2, <1>4, <2>1 DEF ArpEntry
<1> QED
  BY <1>3, <1>4

\* etharp_query: the packet is sent, copied to wait, or dropped for want of memory.
LEMMA QueryGood ==
    ASSUME NEW s, ArpGood(s), NEW c, Told(s, c), NEW ip \in Hosts, NEW r \in etharp_query(s, ip)
    PROVE  ArpGood(r) /\ Told(r, c)
<1>1. PICK i : i = find_entry(s, ip)[1]
  OBVIOUS
<1>2. PICK v : v = find_entry(s, ip)[2]
  OBVIOUS
<1>3. PICK u : u = MarkPending(v, i)
  OBVIOUS
<1>4. /\ ArpGood(u) /\ Told(u, c) /\ i \in ArpSlots /\ u.t[i].ipaddr = ip /\ Others(u, i, ip)
      /\ u.t[i].state \in {"PENDING", "STABLE"}
      /\ \A b \in Pbufs : s.own[b] = NULL => u.own[b] = NULL
  BY <1>1, <1>2, <1>3, AskGood
<1>5. r \in IF u.t[i].state = "STABLE"
            THEN {[etharp_send_ip(u, ip, u.t[i].ethaddr) EXCEPT !.hint = i]}
            ELSE {u} \cup {Queue(u, i, ip, b) : b \in {a \in Pbufs : s.own[a] = NULL}}
  BY <1>1, <1>2, <1>3, Zenon DEF etharp_query
<1>6. CASE u.t[i].state = "STABLE"
  <2>1. r = [etharp_send_ip(u, ip, u.t[i].ethaddr) EXCEPT !.hint = i]
    BY <1>5, <1>6
  <2> QED
    BY <1>4, <1>6, <2>1, SendGood
<1>7. CASE u.t[i].state # "STABLE"
  <2>1. r = u \/ \E b \in Pbufs : s.own[b] = NULL /\ r = Queue(u, i, ip, b)
    BY <1>5, <1>7
  <2>2. ASSUME NEW b \in Pbufs, s.own[b] = NULL, r = Queue(u, i, ip, b)
        PROVE  ArpGood(r) /\ Told(r, c)
    <3>1. u.t[i].state = "PENDING" /\ u.own[b] = NULL
      BY <1>4, <1>7, <2>2
    <3> QED
      BY <1>4, <2>2, <3>1, QueueGood
  <2> QED
    BY <1>4, <2>1, <2>2
<1> QED
  BY <1>6, <1>7

\* etharp_output: the cached entry is used only for the host it is for.
LEMMA OutputGood ==
    ASSUME NEW s, ArpGood(s), NEW c, Told(s, c), NEW ip \in Hosts, NEW r \in etharp_output(s, ip)
    PROVE  ArpGood(r) /\ Told(r, c)
<1>1. CASE Hit(s, ip)
  <2>1. s \in ArpStates /\ s.hint \in ArpSlots
    BY DEF ArpGood, ArpStates
  <2>2. PICK x : x = etharp_send_ip(s, ip, s.t[s.hint].ethaddr)
    OBVIOUS
  <2>3. r = x
    BY <1>1, <2>2 DEF etharp_output
  <2>4. x.hint = s.hint /\ x = [x EXCEPT !.hint = s.hint]
    BY <2>1, <2>2 DEF etharp_send_ip, ArpStates
  <2>5. s.t[s.hint].state = "STABLE" /\ s.t[s.hint].ipaddr = ip
    BY <1>1 DEF Hit
  <2>6. r = [etharp_send_ip(s, ip, s.t[s.hint].ethaddr) EXCEPT !.hint = s.hint]
    BY <2>2, <2>3, <2>4
  <2> QED
    BY <2>1, <2>5, <2>6, SendGood
<1>2. CASE ~Hit(s, ip)
  <2>1. r \in etharp_query(s, ip)
    BY <1>2 DEF etharp_output
  <2> QED
    BY <2>1, QueryGood
<1> QED
  BY <1>1, <1>2

-----------------------------------------------------------------------------
(* Steps *)

\* A handler begins with the table and no frame sent.
LEMMA ArpBegins ==
    ASSUME ArpInv
    PROVE  /\ ArpGood(ArpState) /\ Told(ArpState, claim) /\ ArpState.out = {}
           /\ claim \in [Hosts -> Eths \cup {NULL}]
<1>1. ArpGood(ArpFull) /\ Told(ArpFull, claim) /\ claim \in [Hosts -> Eths \cup {NULL}]
  BY DEF ArpInv
<1>2. ArpState.t = ArpFull.t /\ ArpState.own = ArpFull.own /\ ArpState.out = {}
  BY DEF ArpState, ArpFull
<1>3. ArpState \in ArpStates
  BY <1>1 DEF ArpGood, ArpStates, ArpState, ArpFull
<1>4. ArpGood(ArpState)
  BY <1>1, <1>2, <1>3, SameTable
<1> QED
  BY <1>1, <1>2, <1>4 DEF Told

\* It ends with the state it leaves.
LEMMA ArpEnds ==
    ASSUME NEW r, ArpGood(r), ArpBecomes(r), Told(r, claim'),
           claim' \in [Hosts -> Eths \cup {NULL}]
    PROVE  ArpInv'
<1>1. r \in ArpStates
  BY DEF ArpGood
<1>2. ArpFull' = r
  BY <1>1 DEF ArpFull, ArpBecomes, ArpStates
<1> QED
  BY <1>2 DEF ArpInv, ArpGood, OnePerHost, Accounted, Told

\* ip_output hands a packet to etharp_output.
LEMMA SendStep ==
    ASSUME ArpInv, NEW ip \in Hosts, SendTo(ip)
    PROVE  ArpInv'
<1>1. PICK r \in etharp_output(ArpState, ip) : ArpBecomes(r)
  BY DEF SendTo
<1>2. claim' = claim
  BY DEF SendTo
<1>3. ArpGood(r) /\ Told(r, claim)
  BY <1>1, ArpBegins, OutputGood
<1> QED
  BY <1>1, <1>2, <1>3, ArpBegins, ArpEnds

\* dhcp_check asks without a packet.
LEMMA QueryStep ==
    ASSUME ArpInv, NEW ip \in Hosts, Query(ip)
    PROVE  ArpInv'
<1>1. PICK i : i = find_entry(ArpState, ip)[1]
  OBVIOUS
<1>2. PICK v : v = find_entry(ArpState, ip)[2]
  OBVIOUS
<1>3. PICK u : u = MarkPending(v, i)
  OBVIOUS
<1>4. ArpBecomes(u) /\ claim' = claim
  BY <1>1, <1>2, <1>3 DEF Query
<1>5. ArpGood(u) /\ Told(u, claim)
  BY <1>1, <1>2, <1>3, ArpBegins, AskGood
<1> QED
  BY <1>4, <1>5, ArpBegins, ArpEnds

\* An ARP packet arrives, for this station or not.
LEMMA InputStep ==
    ASSUME ArpInv, NEW ip \in Hosts, NEW eth \in Eths, NEW for_us \in BOOLEAN,
           Arp(ip, eth, for_us)
    PROVE  ArpInv'
<1>1. PICK u : u = update_arp_entry(ArpState, ip, eth, for_us)
  OBVIOUS
<1>2. ArpBecomes(u) /\ claim' = [claim EXCEPT ![ip] = eth]
  BY <1>1 DEF Arp, arp_input
<1>3. News(claim, claim', ip, eth) /\ claim' \in [Hosts -> Eths \cup {NULL}]
  BY <1>2, ArpBegins DEF News
<1>4. ArpGood(u) /\ Told(u, claim')
  BY <1>1, <1>3, ArpBegins, UpdateGood
<1> QED
  BY <1>2, <1>3, <1>4, ArpEnds

\* etharp_tmr frees the packets of the entries it empties, and no others.
LEMMA ArpTmrStep ==
    ASSUME ArpInv, ArpTmr
    PROVE  ArpInv'
<1>1. PICK s : s = ArpState
  OBVIOUS
<1>2. /\ s.t = arp_table /\ s.own = owned /\ s.hint = etharp_cached_entry
      /\ ArpGood(s) /\ Told(s, claim) /\ claim \in [Hosts -> Eths \cup {NULL}]
  BY <1>1, ArpBegins DEF ArpState
<1>3. s \in ArpStates /\ s.t \in [ArpSlots -> ArpEntry] /\ s.own \in [Pbufs -> Hosts \cup {NULL}]
  BY <1>2 DEF ArpGood, ArpStates
<1>4. PICK X : X = {i \in ArpSlots : s.t[i].state # "EMPTY" /\ Expired(s.t[i])}
  OBVIOUS
<1>5. PICK F : F = {s.t[i].q : i \in X}
  OBVIOUS
<1>6. PICK t : t = [i \in ArpSlots |->
             IF i \in X THEN EmptyEntry
             ELSE IF s.t[i].state = "EMPTY" THEN s.t[i]
             ELSE [s.t[i] EXCEPT !.ctime = @ + 1]]
  OBVIOUS
<1>7. PICK w : w = [b \in Pbufs |-> IF b \in F THEN NULL ELSE s.own[b]]
  OBVIOUS
<1>8. PICK r : r = [t |-> t, hint |-> s.hint, own |-> w, out |-> {}]
  OBVIOUS
<1>9. ArpBecomes(r) /\ claim' = claim
  BY <1>2, <1>4, <1>5, <1>6, <1>7, <1>8 DEF ArpTmr, ArpBecomes
<1>10. \A i \in ArpSlots : i \in X => t[i] = EmptyEntry
  BY <1>6
<1>11. \A i \in ArpSlots : i \notin X =>
         /\ t[i] \in ArpEntry /\ t[i].state = s.t[i].state /\ t[i].ipaddr = s.t[i].ipaddr
         /\ t[i].ethaddr = s.t[i].ethaddr /\ t[i].q = s.t[i].q
  <2> SUFFICES ASSUME NEW i \in ArpSlots, i \notin X
               PROVE  /\ t[i] \in ArpEntry /\ t[i].state = s.t[i].state
                      /\ t[i].ipaddr = s.t[i].ipaddr
                      /\ t[i].ethaddr = s.t[i].ethaddr /\ t[i].q = s.t[i].q
    OBVIOUS
  <2>1. s.t[i] \in ArpEntry
    BY <1>3
  <2>2. CASE s.t[i].state = "EMPTY"
    BY <1>6, <2>1, <2>2
  <2>3. CASE s.t[i].state # "EMPTY"
    <3>1. t[i] = [s.t[i] EXCEPT !.ctime = s.t[i].ctime + 1]
      BY <1>6, <2>3
    <3>2. s.t[i].ctime + 1 \in 0 .. MaxAge - 1
      BY <1>4, <2>1, <2>3, EtharpAssumption DEF Expired, ArpEntry
    <3> QED
      BY <2>1, <3>1, <3>2 DEF ArpEntry
  <2> QED
    BY <2>2, <2>3
<1>12. EmptyEntry \in ArpEntry /\ EmptyEntry.state = "EMPTY" /\ EmptyEntry.q = NULL
  BY Zero DEF EmptyEntry, ArpEntry
<1>13. t \in [ArpSlots -> ArpEntry] /\ w \in [Pbufs -> Hosts \cup {NULL}]
  <2>1. \A i \in ArpSlots : t[i] \in ArpEntry
    BY <1>10, <1>11, <1>12
  <2> QED
    BY <1>3, <1>6, <1>7, <2>1
<1>14. r \in ArpStates /\ r.t = t /\ r.own = w /\ r.out = {}
  BY <1>3, <1>8, <1>13 DEF ArpStates
<1>15. OnePerHost(r)
  BY <1>2, <1>10, <1>11, <1>12, <1>14 DEF ArpGood, OnePerHost
<1>16. ASSUME NEW j \in ArpSlots, t[j].q # NULL
       PROVE  t[j].state = "PENDING" /\ w[t[j].q] = t[j].ipaddr
  <2>1. j \notin X /\ t[j].state = s.t[j].state /\ t[j].ipaddr = s.t[j].ipaddr /\ t[j].q = s.t[j].q
    BY <1>10, <1>11, <1>12, <1>16
  <2>2. s.t[j].state = "PENDING" /\ s.own[s.t[j].q] = s.t[j].ipaddr
    BY <1>2, <1>16, <2>1 DEF ArpGood, Accounted
  <2>3. s.t[j].q \notin F
    <3>1. ASSUME NEW i \in X, s.t[i].q = s.t[j].q PROVE FALSE
      <4>1. i \in ArpSlots /\ s.t[i].state # "EMPTY"
        BY <1>4
      <4>2. s.own[s.t[i].q] = s.t[i].ipaddr
        BY <1>2, <1>16, <2>1, <3>1, <4>1 DEF ArpGood, Accounted
      <4>3. i = j
        BY <1>2, <2>2, <3>1, <4>1, <4>2 DEF ArpGood, OnePerHost
      <4> QED
        BY <2>1, <4>3
    <3> QED
      BY <1>5, <3>1
  <2>4. s.t[j].q \in Pbufs
    BY <1>3, <1>16, <2>1 DEF ArpEntry
  <2> QED
    BY <1>7, <2>1, <2>2, <2>3, <2>4
<1>17. ASSUME NEW b \in Pbufs, w[b] # NULL
       PROVE  \E j \in ArpSlots : t[j].q = b
  <2>1. b \notin F /\ s.own[b] # NULL
    BY <1>7, <1>17
  <2>2. PICK j \in ArpSlots : s.t[j].q = b
    BY <1>2, <2>1 DEF ArpGood, Accounted
  <2>3. j \notin X
    BY <1>5, <2>1, <2>2
  <2> QED
    BY <1>11, <2>2, <2>3
<1>18. ArpGood(r)
  BY <1>14, <1>15, <1>16, <1>17 DEF ArpGood, Accounted
<1>19. Told(r, claim)
  BY <1>2, <1>10, <1>11, <1>12, <1>14 DEF Told
<1> QED
  BY <1>2, <1>9, <1>18, <1>19, ArpEnds

\* A step that changes nothing
LEMMA ArpStutter ==
    ASSUME ArpInv, UNCHANGED arpvars
    PROVE  ArpInv'
<1>1. ArpFull' = ArpFull /\ claim' = claim
  BY DEF arpvars, ArpFull
<1> QED
  BY <1>1 DEF ArpInv, ArpGood, OnePerHost, Accounted, Told

\* At the start the table is empty.
LEMMA ArpInitially ==
    ASSUME InitArp
    PROVE  ArpInv
<1>1. EmptyEntry \in ArpEntry /\ EmptyEntry.state = "EMPTY" /\ EmptyEntry.q = NULL
  BY Zero DEF EmptyEntry, ArpEntry
<1>2. /\ arp_table \in [ArpSlots -> ArpEntry] /\ \A i \in ArpSlots : arp_table[i] = EmptyEntry
      /\ owned \in [Pbufs -> Hosts \cup {NULL}] /\ \A b \in Pbufs : owned[b] = NULL
      /\ sent = {} /\ etharp_cached_entry \in ArpSlots
      /\ claim \in [Hosts -> Eths \cup {NULL}]
  BY <1>1, Zero DEF InitArp
<1>3. /\ ArpFull \in ArpStates /\ ArpFull.t = arp_table /\ ArpFull.own = owned
      /\ ArpFull.out = {}
  BY <1>2 DEF ArpFull, ArpStates
<1>4. ArpGood(ArpFull)
  BY <1>1, <1>2, <1>3 DEF ArpGood, OnePerHost, Accounted
<1>5. Told(ArpFull, claim)
  BY <1>1, <1>2, <1>3 DEF Told
<1> QED
  BY <1>2, <1>4, <1>5 DEF ArpInv

-----------------------------------------------------------------------------
(* Results *)

\* The inductive invariant: entries in use are for different hosts, the packets
\* owned are those of pending entries, and every stable entry has what its host
\* announced last.
THEOREM ArpInvariance == SpecArp => []ArpInv
<1>1. InitArp => ArpInv
  BY ArpInitially
<1>2. ArpInv /\ [NextArp]_arpvars => ArpInv'
  <2> SUFFICES ASSUME ArpInv, [NextArp]_arpvars PROVE ArpInv'
    OBVIOUS
  <2>1. ASSUME NEW ip \in Hosts, SendTo(ip) PROVE ArpInv'
    BY <2>1, SendStep
  <2>2. ASSUME NEW ip \in Hosts, Query(ip) PROVE ArpInv'
    BY <2>2, QueryStep
  <2>3. ASSUME NEW ip \in Hosts, NEW eth \in Eths, NEW for_us \in BOOLEAN, Arp(ip, eth, for_us)
        PROVE  ArpInv'
    BY <2>3, InputStep
  <2>4. CASE ArpTmr
    BY <2>4, ArpTmrStep
  <2>5. CASE UNCHANGED arpvars
    BY <2>5, ArpStutter
  <2> QED
    BY <2>1, <2>2, <2>3, <2>4, <2>5 DEF NextArp
<1> QED
  BY <1>1, <1>2, PTL DEF SpecArp

\* In a table of any size, however entries expire, are recycled and come back, no
\* host has two entries, no packet leaks or is freed twice, and every IP frame
\* leaves for the Ethernet address its host announced last.
THEOREM ArpTableSound == SpecArp => []ArpSound
<1>1. ArpInv => ArpSound
  <2> SUFFICES ASSUME ArpInv PROVE ArpSound
    OBVIOUS
  <2>1. PICK s : s = ArpFull
    OBVIOUS
  <2>2. /\ s.t = arp_table /\ s.own = owned /\ s.hint = etharp_cached_entry /\ s.out = sent
        /\ s \in ArpStates /\ OnePerHost(s) /\ Accounted(s) /\ Told(s, claim)
        /\ claim \in [Hosts -> Eths \cup {NULL}]
    BY <2>1 DEF ArpInv, ArpGood, ArpFull
  <2>3. ArpTypeOK
    BY <2>2 DEF ArpTypeOK, ArpStates, ArpEntry
  <2>4. OneEntryPerHost
    BY <2>2 DEF OneEntryPerHost, OnePerHost
  <2>5. PacketsAccounted
    <3>1. \A i \in ArpSlots : arp_table[i].q # NULL =>
            arp_table[i].state = "PENDING" /\ owned[arp_table[i].q] = arp_table[i].ipaddr
      BY <2>2 DEF Accounted
    <3>2. ASSUME NEW b \in Pbufs, owned[b] # NULL
          PROVE  \E i \in ArpSlots : arp_table[i].q = b /\ \A j \in ArpSlots \ {i} : arp_table[j].q # b
      <4>1. PICK i \in ArpSlots : arp_table[i].q = b
        BY <2>2, <3>2 DEF Accounted
      <4>2. ASSUME NEW j \in ArpSlots, arp_table[j].q = b PROVE j = i
        <5>1. b # NULL
          BY EtharpAssumption
        <5>2. arp_table[j].ipaddr = arp_table[i].ipaddr
          BY <3>1, <4>1, <4>2, <5>1
        <5>3. arp_table[j].state = "PENDING" /\ arp_table[i].state = "PENDING"
          BY <3>1, <4>1, <4>2, <5>1
        <5> QED
          BY <2>4, <5>2, <5>3 DEF OneEntryPerHost
      <4> QED
        BY <4>1, <4>2
    <3> QED
      BY <3>1, <3>2 DEF PacketsAccounted
  <2>6. SentAsAnnounced
    BY <2>2 DEF SentAsAnnounced, Told
  <2> QED
    BY <2>3, <2>4, <2>5, <2>6 DEF ArpSound
<1> QED
  BY <1>1, ArpInvariance, PTL
=============================================================================
