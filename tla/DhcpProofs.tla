----------------------------- MODULE DhcpProofs -----------------------------
(***************************************************************************)
(* Proofs about the DHCP client, for any addresses, lease times, counter   *)
(* widths and combinations of faults.                                      *)
(***************************************************************************)
EXTENDS Dhcp, TLAPS

-----------------------------------------------------------------------------
(* States *)

StructDhcp == [state : States, tries : 0 .. TryWrap - 1, request_timeout : BOOLEAN,
               t1_timeout : 0 .. Wrap - 1, t2_timeout : 0 .. Wrap - 1,
               ip : Addrs \cup {NoAddr}, t1 : Times, t2 : Times]
StructNetif == [up : BOOLEAN, link : BOOLEAN, ip : Addrs \cup {NoAddr}]
DhcpStates == [d : StructDhcp, n : StructNetif, q : SUBSET DhcpMessages]

\* The states in which the client has an address, or asks for a certain one
Addressed == {"REQUESTING", "CHECKING", "BOUND", "RENEWING", "REBINDING", "REBOOTING"}

\* The interface is up only with the address the client holds.
UpLeased(s) ==
    s.n.up => s.d.state \in {"BOUND", "RENEWING", "REBINDING"} /\ s.n.ip = s.d.ip

\* A client that waits has its timer running.
Timed(s) ==
    /\ s.d.state \in Waiting =>
         \/ s.d.request_timeout
         \/ "anonymous" \in dhcp_faults /\ s.d.state = "SELECTING"
    /\ s.d.state = "RENEWING" => s.d.request_timeout \/ s.d.tries = 0

\* While the client asks to keep its address the present number is that of
\* requests made in the present state.
Keeping == {"RENEWING", "REBINDING", "REBOOTING"}
AsksNow(s) ==
    "no_memory" \notin dhcp_faults /\ s.d.state \in Keeping =>
        \A m \in s.q : m.type = "REQUEST" /\ m.from = s.d.state

\* What holds of the client's state also while dhcp_timeout or dhcp_recv has
\* stopped the timer
DhcpCore(s) ==
    /\ s \in DhcpStates
    /\ UpLeased(s) /\ AsksNow(s)
    /\ s.d.state \in Addressed => s.d.ip \in Addrs
DhcpGood(s) == DhcpCore(s) /\ Timed(s)

\* The inductive invariant
DhcpInv == DhcpGood(StateDhcp) /\ dhcp_faults \in DhcpFaultSets

-----------------------------------------------------------------------------
(* Making messages *)

\* One struct dhcp in place of another
LEMMA NewStruct ==
    ASSUME NEW s \in DhcpStates, NEW r \in StructDhcp, NEW t, t = [s EXCEPT !.d = r]
    PROVE  t \in DhcpStates /\ t.d = r /\ t.n = s.n /\ t.q = s.q
BY DEF DhcpStates

\* dhcp_set_state changes nothing but the state, tries and request_timeout.
LEMMA SetStateFields ==
    ASSUME NEW s \in DhcpStates, NEW state \in States
    PROVE  LET t == dhcp_set_state(s, state) IN
           /\ t \in DhcpStates /\ t.d.state = state /\ t.d.ip = s.d.ip
           /\ t.n = s.n /\ t.q = s.q
           /\ s.d.state # state => t.d.tries = 0
<1> DEFINE t == dhcp_set_state(s, state)
<1>1. CASE state = s.d.state
  BY <1>1 DEF dhcp_set_state
<1>2. CASE state # s.d.state
  <2>1. PICK r : r = [s.d EXCEPT !.state = state, !.tries = 0, !.request_timeout = FALSE]
    OBVIOUS
  <2>2. t = [s EXCEPT !.d = r]
    BY <1>2, <2>1 DEF dhcp_set_state, DhcpStates
  <2>3. 0 \in 0 .. TryWrap - 1 /\ s.d \in StructDhcp
    BY DhcpAssumption DEF DhcpStates
  <2>4. r \in StructDhcp /\ r.state = state /\ r.tries = 0 /\ r.ip = s.d.ip
    BY <2>1, <2>3 DEF StructDhcp
  <2> QED
    BY <2>2, <2>4, NewStruct
<1> QED
  BY <1>1, <1>2

\* A message adds itself to those of its number; with a new number it is alone.
LEMMA SentFields ==
    ASSUME NEW s \in DhcpStates, NEW type \in {"DISCOVER", "REQUEST", "DECLINE", "RELEASE"},
           NEW t, t = Sent(s, type)
    PROVE  /\ t \in DhcpStates /\ t.d = s.d /\ t.n = s.n
           /\ \A m \in t.q : \/ m.type = type /\ m.from = s.d.state
                             \/ s.d.tries # 0 /\ m \in s.q
<1> DEFINE msg == [type |-> type, from |-> s.d.state]
<1>1. msg \in DhcpMessages /\ msg.type = type /\ msg.from = s.d.state
  BY DEF DhcpStates, StructDhcp, DhcpMessages
<1>2. t = [s EXCEPT !.q = IF s.d.tries = 0 THEN {msg} ELSE s.q \cup {msg}]
  BY DEF Sent, DhcpStates
<1>3. t \in DhcpStates /\ t.d = s.d /\ t.n = s.n
      /\ t.q = IF s.d.tries = 0 THEN {msg} ELSE s.q \cup {msg}
  BY <1>1, <1>2 DEF DhcpStates
<1> QED
  BY <1>1, <1>3

\* What the making of a message in a state leaves, apart from the retry
LEMMA CreateMsgFields ==
    ASSUME NEW s \in DhcpStates, NEW state \in States,
           NEW type \in {"DISCOVER", "REQUEST", "DECLINE", "RELEASE"},
           NEW t \in dhcp_create_msg(dhcp_set_state(s, state), type)
    PROVE  /\ t \in DhcpStates /\ t.d.state = state /\ t.d.ip = s.d.ip /\ t.n = s.n
           /\ "no_memory" \notin dhcp_faults =>
                \A m \in t.q : \/ m.type = type /\ m.from = state
                               \/ s.d.state = state /\ m \in s.q
<1> DEFINE u == dhcp_set_state(s, state)
<1>1. /\ u \in DhcpStates /\ u.d.state = state /\ u.d.ip = s.d.ip /\ u.n = s.n /\ u.q = s.q
      /\ s.d.state # state => u.d.tries = 0
  BY SetStateFields
<1> HIDE DEF u
<1>2. t = Sent(u, type) \/ (t = u /\ "no_memory" \in dhcp_faults)
  <2>1. t \in {Sent(u, type)} \cup (IF "no_memory" \in dhcp_faults THEN {u} ELSE {})
    BY Zenon DEF dhcp_create_msg, u
  <2>2. t \in (IF "no_memory" \in dhcp_faults THEN {u} ELSE {})
          => t = u /\ "no_memory" \in dhcp_faults
    BY Zenon
  <2>3. t = Sent(u, type) \/ t \in (IF "no_memory" \in dhcp_faults THEN {u} ELSE {})
    BY <2>1, Zenon
  <2> QED
    BY <2>2, <2>3, Zenon
<1>3. CASE t = Sent(u, type)
  <2>1. /\ t \in DhcpStates /\ t.d = u.d /\ t.n = u.n
        /\ \A m \in t.q : \/ m.type = type /\ m.from = u.d.state
                          \/ u.d.tries # 0 /\ m \in u.q
    BY <1>1, <1>3, SentFields, Zenon
  <2> QED
    BY <1>1, <2>1
<1>4. CASE t = u /\ "no_memory" \in dhcp_faults
  BY <1>1, <1>4
<1> QED
  BY <1>2, <1>3, <1>4

\* The retry that follows starts the timer ...
LEMMA RetryFields ==
    ASSUME NEW s \in DhcpStates, NEW t, t = Retry(s)
    PROVE  /\ t \in DhcpStates /\ t.d.state = s.d.state /\ t.d.ip = s.d.ip
           /\ t.n = s.n /\ t.q = s.q /\ t.d.request_timeout
<1> DEFINE n == (s.d.tries + 1) % TryWrap
<1>1. s.d.tries \in 0 .. TryWrap - 1 /\ s.d \in StructDhcp
  BY DEF DhcpStates, StructDhcp
<1>2. n \in 0 .. TryWrap - 1
  BY <1>1, DhcpAssumption
<1>3. t = [s EXCEPT !.d = [s.d EXCEPT !.tries = n, !.request_timeout = TRUE]]
  BY DEF Retry, DhcpStates, StructDhcp
<1> HIDE DEF n
<1>4. [s.d EXCEPT !.tries = n, !.request_timeout = TRUE] \in StructDhcp
  BY <1>1, <1>2 DEF StructDhcp
<1> QED
  BY <1>1, <1>3, <1>4 DEF DhcpStates, StructDhcp

\* ... for a renewal unless tries wraps.
LEMMA RetryRenewFields ==
    ASSUME NEW s \in DhcpStates, NEW t, t = RetryRenew(s)
    PROVE  /\ t \in DhcpStates /\ t.d.state = s.d.state /\ t.d.ip = s.d.ip
           /\ t.n = s.n /\ t.q = s.q /\ (t.d.request_timeout \/ t.d.tries = 0)
<1>1. PICK u : u = Retry(s)
  OBVIOUS
<1>2. /\ u \in DhcpStates /\ u.d.state = s.d.state /\ u.d.ip = s.d.ip
      /\ u.n = s.n /\ u.q = s.q /\ u.d.request_timeout
  BY <1>1, RetryFields
<1>3. CASE u.d.tries * 2000 > 0
  BY <1>1, <1>2, <1>3 DEF RetryRenew
<1>4. CASE ~(u.d.tries * 2000 > 0)
  <2>1. PICK r : r = [u.d EXCEPT !.request_timeout = FALSE]
    OBVIOUS
  <2>2. t = [u EXCEPT !.d = r]
    BY <1>1, <1>2, <1>4, <2>1 DEF RetryRenew, DhcpStates
  <2>3. u.d \in StructDhcp /\ u.d.tries \in 0 .. TryWrap - 1
    BY <1>2 DEF DhcpStates, StructDhcp
  <2>4. u.d.tries = 0
    BY <1>4, <2>3, DhcpAssumption
  <2>5. r \in StructDhcp /\ r.state = u.d.state /\ r.ip = u.d.ip /\ r.tries = 0
    BY <2>1, <2>3, <2>4 DEF StructDhcp
  <2> QED
    BY <1>2, <2>2, <2>5, NewStruct
<1> QED
  BY <1>3, <1>4

\* A message made in a state in which it may be made leaves the client sound.
LEMMA MadeGood ==
    ASSUME NEW s \in DhcpStates, NEW state \in States \ {"NULL", "OFF", "BOUND"},
           NEW type \in {"DISCOVER", "REQUEST", "DECLINE", "RELEASE"},
           NEW u \in dhcp_create_msg(dhcp_set_state(s, state), type),
           NEW t, t = Retry(u) \/ (t = RetryRenew(u) /\ state = "RENEWING"),
           s.n.up => state \in {"RENEWING", "REBINDING"} /\ s.n.ip = s.d.ip,
           state \in Addressed => s.d.ip \in Addrs,
           state \in Keeping => type = "REQUEST" /\ (s.d.state = state => AsksNow(s))
    PROVE  DhcpGood(t)
<1>1. /\ u \in DhcpStates /\ u.d.state = state /\ u.d.ip = s.d.ip /\ u.n = s.n
      /\ "no_memory" \notin dhcp_faults =>
           \A m \in u.q : \/ m.type = type /\ m.from = state
                          \/ s.d.state = state /\ m \in s.q
  BY CreateMsgFields
<1>2. /\ t \in DhcpStates /\ t.d.state = state /\ t.d.ip = s.d.ip /\ t.n = s.n /\ t.q = u.q
      /\ (t.d.request_timeout \/ (state = "RENEWING" /\ t.d.tries = 0))
  <2>1. CASE t = Retry(u)
    BY <1>1, <2>1, RetryFields
  <2>2. CASE t = RetryRenew(u) /\ state = "RENEWING"
    BY <1>1, <2>2, RetryRenewFields
  <2> QED
    BY <2>1, <2>2
<1>3. UpLeased(t)
  BY <1>2 DEF UpLeased
<1>4. Timed(t)
  BY <1>2 DEF Timed, Waiting
<1>5. AsksNow(t)
  BY <1>1, <1>2 DEF AsksNow
<1> QED
  BY <1>2, <1>3, <1>4, <1>5 DEF DhcpGood, DhcpCore

\* The messages of the client
LEMMA DiscoverGood ==
    ASSUME NEW s \in DhcpStates, ~s.n.up, NEW t \in dhcp_discover(s)
    PROVE  DhcpGood(t)
<1>1. PICK r : r = [s EXCEPT !.d.ip = NoAddr]
  OBVIOUS
<1>2. r \in DhcpStates /\ r.n = s.n
  <2>1. r = [s EXCEPT !.d = [s.d EXCEPT !.ip = NoAddr]]
    BY <1>1 DEF DhcpStates
  <2>2. [s.d EXCEPT !.ip = NoAddr] \in StructDhcp
    BY DEF DhcpStates, StructDhcp
  <2> QED
    BY <2>1, <2>2 DEF DhcpStates
<1>3. PICK u \in dhcp_create_msg(dhcp_set_state(r, "SELECTING"), "DISCOVER") : t = Retry(u)
  BY <1>1, Zenon DEF dhcp_discover
<1>4. "SELECTING" \in States \ {"NULL", "OFF", "BOUND"} /\ "SELECTING" \notin Addressed
      /\ "SELECTING" \notin Keeping
  BY DEF States, Addressed, Keeping
<1>5. ~r.n.up
  BY <1>2
<1> QED
  BY <1>2, <1>3, <1>4, <1>5, MadeGood

\* It begins a search.
LEMMA DiscoverSelecting ==
    ASSUME NEW s \in DhcpStates, NEW t \in dhcp_discover(s)
    PROVE  t.d.state = "SELECTING"
<1>1. PICK r : r = [s EXCEPT !.d.ip = NoAddr]
  OBVIOUS
<1>2. PICK u \in dhcp_create_msg(dhcp_set_state(r, "SELECTING"), "DISCOVER") : t = Retry(u)
  BY <1>1, Zenon DEF dhcp_discover
<1>3. r = [s EXCEPT !.d = [s.d EXCEPT !.ip = NoAddr]]
  BY <1>1 DEF DhcpStates
<1>4. r \in DhcpStates
  BY <1>3 DEF DhcpStates, StructDhcp
<1> QED
  BY <1>2, <1>4, CreateMsgFields, RetryFields DEF States

\* dhcp_select asks for an offered address, the interface being down.
LEMMA SelectGood ==
    ASSUME NEW s \in DhcpStates, ~s.n.up, s.d.ip \in Addrs, NEW t \in dhcp_select(s)
    PROVE  DhcpGood(t)
<1>1. PICK u \in dhcp_create_msg(dhcp_set_state(s, "REQUESTING"), "REQUEST") : t = Retry(u)
  BY Zenon DEF dhcp_select
<1>2. "REQUESTING" \in States \ {"NULL", "OFF", "BOUND"} /\ "REQUESTING" \notin Keeping
  BY DEF States, Keeping
<1> QED
  BY <1>1, <1>2, MadeGood

\* dhcp_renew asks to keep the address of the interface.
LEMMA RenewGood ==
    ASSUME NEW s \in DhcpStates, s.n.up => s.n.ip = s.d.ip, s.d.ip \in Addrs,
           AsksNow(s), NEW t \in dhcp_renew(s)
    PROVE  DhcpGood(t)
<1>1. PICK u \in dhcp_create_msg(dhcp_set_state(s, "RENEWING"), "REQUEST") : t = RetryRenew(u)
  BY Zenon DEF dhcp_renew
<1>2. "RENEWING" \in States \ {"NULL", "OFF", "BOUND"}
  BY DEF States
<1> QED
  BY <1>1, <1>2, MadeGood

\* dhcp_rebind asks any server to keep it.
LEMMA RebindGood ==
    ASSUME NEW s \in DhcpStates, s.n.up => s.n.ip = s.d.ip, s.d.ip \in Addrs,
           AsksNow(s), NEW t \in dhcp_rebind(s)
    PROVE  DhcpGood(t)
<1>1. PICK u \in dhcp_create_msg(dhcp_set_state(s, "REBINDING"), "REQUEST") : t = Retry(u)
  BY Zenon DEF dhcp_rebind
<1>2. "REBINDING" \in States \ {"NULL", "OFF", "BOUND"}
  BY DEF States
<1> QED
  BY <1>1, <1>2, MadeGood

\* dhcp_reboot asks for the address held before the link was lost.
LEMMA RebootGood ==
    ASSUME NEW s \in DhcpStates, ~s.n.up, s.d.ip \in Addrs, AsksNow(s), NEW t \in dhcp_reboot(s)
    PROVE  DhcpGood(t)
<1>1. PICK u \in dhcp_create_msg(dhcp_set_state(s, "REBOOTING"), "REQUEST") : t = Retry(u)
  BY Zenon DEF dhcp_reboot
<1>2. "REBOOTING" \in States \ {"NULL", "OFF", "BOUND"}
  BY DEF States
<1> QED
  BY <1>1, <1>2, MadeGood

\* dhcp_decline gives back an address another host uses.
LEMMA DeclineGood ==
    ASSUME NEW s \in DhcpStates, ~s.n.up, NEW t \in dhcp_decline(s)
    PROVE  DhcpGood(t)
<1>1. PICK u \in dhcp_create_msg(dhcp_set_state(s, "BACKING_OFF"), "DECLINE") : t = Retry(u)
  BY Zenon DEF dhcp_decline
<1>2. "BACKING_OFF" \in States \ {"NULL", "OFF", "BOUND"} /\ "BACKING_OFF" \notin Addressed
      /\ "BACKING_OFF" \notin Keeping
  BY DEF States, Addressed, Keeping
<1> QED
  BY <1>1, <1>2, MadeGood

\* dhcp_check, for an address that was offered
LEMMA CheckGood ==
    ASSUME NEW s \in DhcpStates, ~s.n.up, s.d.ip \in Addrs
    PROVE  DhcpGood(dhcp_check(s))
<1>1. PICK u : u = dhcp_set_state(s, "CHECKING")
  OBVIOUS
<1>2. u \in DhcpStates /\ u.d.state = "CHECKING" /\ u.d.ip = s.d.ip /\ u.n = s.n
  <2>1. "CHECKING" \in States
    BY DEF States
  <2> QED
    BY <1>1, <2>1, SetStateFields
<1>3. PICK t : t = Retry(u)
  OBVIOUS
<1>4. /\ t \in DhcpStates /\ t.d.state = "CHECKING" /\ t.d.ip = s.d.ip /\ t.n = s.n
      /\ t.d.request_timeout
  BY <1>2, <1>3, RetryFields
<1>5. DhcpGood(t)
  BY <1>4 DEF DhcpGood, DhcpCore, UpLeased, Timed, AsksNow, Waiting, Keeping
<1> QED
  BY <1>1, <1>3, <1>5, Zenon DEF dhcp_check

\* dhcp_release takes the interface down.
LEMMA ReleaseFields ==
    ASSUME NEW s \in DhcpStates, NEW t \in dhcp_release(s)
    PROVE  t \in DhcpStates /\ ~t.n.up
<1>1. PICK o : o = dhcp_set_state(s, "OFF")
  OBVIOUS
<1>2. o \in DhcpStates
  BY <1>1, SetStateFields DEF States
<1>3. PICK r : r = [o EXCEPT !.d.ip = NoAddr, !.d.t1 = 0, !.d.t2 = 0]
  OBVIOUS
<1>4. r \in DhcpStates
  <2>1. r = [o EXCEPT !.d = [o.d EXCEPT !.ip = NoAddr, !.t1 = 0, !.t2 = 0]]
    BY <1>2, <1>3 DEF DhcpStates
  <2>2. 0 \in Times
    BY DhcpAssumption DEF Times
  <2>3. [o.d EXCEPT !.ip = NoAddr, !.t1 = 0, !.t2 = 0] \in StructDhcp
    BY <1>2, <2>2 DEF DhcpStates, StructDhcp
  <2> QED
    BY <1>2, <2>1, <2>3 DEF DhcpStates
<1>5. PICK u \in dhcp_create_msg(r, "RELEASE") :
        t = netif_set_addr(netif_set_down(Retry(u)), NoAddr)
  BY <1>1, <1>3, Zenon DEF dhcp_release
<1>6. u \in DhcpStates
  <2>1. u = Sent(r, "RELEASE") \/ u = r
    <3>1. u \in {Sent(r, "RELEASE")} \cup (IF "no_memory" \in dhcp_faults THEN {r} ELSE {})
      BY Zenon DEF dhcp_create_msg
    <3> QED
      BY <3>1, Zenon
  <2> QED
    BY <1>4, <2>1, SentFields
<1>7. PICK v : v = Retry(u)
  OBVIOUS
<1>8. v \in DhcpStates
  BY <1>6, <1>7, RetryFields
<1>9. t = [v EXCEPT !.n = [v.n EXCEPT !.up = FALSE, !.ip = NoAddr]]
  BY <1>5, <1>7, <1>8 DEF netif_set_addr, netif_set_down, DhcpStates, StructNetif
<1> QED
  BY <1>8, <1>9 DEF DhcpStates, StructNetif

\* Giving up takes the interface down and begins a new search.
LEMMA ReleaseAndDiscoverGood ==
    ASSUME NEW s \in DhcpStates, NEW t \in ReleaseAndDiscover(s)
    PROVE  DhcpGood(t)
<1>1. PICK r \in dhcp_release(s) : t \in dhcp_discover(r)
  BY Zenon DEF ReleaseAndDiscover
<1> QED
  BY <1>1, ReleaseFields, DiscoverGood

\* The timers that dhcp_bind sets fit a u16_t.
LEMMA CountdownRange ==
    ASSUME NEW given \in Times, NEW timer \in 0 .. Wrap - 1
    PROVE  Countdown(given, timer) \in 0 .. Wrap - 1
BY DhcpAssumption DEF Countdown, Times

\* dhcp_bind takes an address into use.
LEMMA BindGood ==
    ASSUME NEW s \in DhcpStates, s.d.ip \in Addrs
    PROVE  DhcpGood(dhcp_bind(s))
<1> DEFINE a == Countdown(s.d.t1, s.d.t1_timeout)
           b == Countdown(s.d.t2, s.d.t2_timeout)
<1>1. a \in 0 .. Wrap - 1 /\ b \in 0 .. Wrap - 1
  BY CountdownRange DEF DhcpStates, StructDhcp
<1>2. PICK t : t = [s EXCEPT !.d.t1_timeout = Countdown(s.d.t1, @),
                             !.d.t2_timeout = Countdown(s.d.t2, @)]
  OBVIOUS
<1>3. t = [s EXCEPT !.d = [s.d EXCEPT !.t1_timeout = a, !.t2_timeout = b]]
  BY <1>2 DEF DhcpStates, StructDhcp
<1> HIDE DEF a, b
<1>4. t \in DhcpStates /\ t.d.ip = s.d.ip
  <2>1. [s.d EXCEPT !.t1_timeout = a, !.t2_timeout = b] \in StructDhcp
    BY <1>1 DEF DhcpStates, StructDhcp
  <2> QED
    BY <1>3, <2>1 DEF DhcpStates, StructDhcp
<1>5. PICK u : u = netif_set_up(netif_set_addr(t, t.d.ip))
  OBVIOUS
<1>6. u = [t EXCEPT !.n = [t.n EXCEPT !.up = TRUE, !.ip = t.d.ip]]
  BY <1>4, <1>5 DEF netif_set_up, netif_set_addr, DhcpStates, StructNetif
<1>7. u \in DhcpStates /\ u.d = t.d /\ u.n.ip = u.d.ip
  BY <1>4, <1>6 DEF DhcpStates, StructNetif, StructDhcp
<1>8. PICK v : v = dhcp_set_state(u, "BOUND")
  OBVIOUS
<1>9. v \in DhcpStates /\ v.d.state = "BOUND" /\ v.d.ip = u.d.ip /\ v.n = u.n
  BY <1>7, <1>8, SetStateFields DEF States
<1>10. DhcpGood(v)
  BY <1>4, <1>7, <1>9 DEF DhcpGood, DhcpCore, UpLeased, Timed, AsksNow, Waiting, Keeping
<1> QED
  BY <1>2, <1>5, <1>8, <1>10, Zenon DEF dhcp_bind

-----------------------------------------------------------------------------
(* Handlers *)

\* A field of struct dhcp that none of this is about
LEMMA TimersOnly ==
    ASSUME NEW s \in DhcpStates, NEW r \in DhcpStates, DhcpCore(s),
           r.n = s.n, r.q = s.q, r.d.state = s.d.state, r.d.ip = s.d.ip
    PROVE  DhcpCore(r)
BY DEF DhcpCore, UpLeased, AsksNow

\* The interface is down in the states in which the client has no lease.
LEMMA DownUnlessLeased ==
    ASSUME NEW s, DhcpCore(s), s.d.state \notin {"BOUND", "RENEWING", "REBINDING"}
    PROVE  ~s.n.up
BY DEF DhcpCore, UpLeased

\* dhcp_timeout, which finds the timer stopped, leaves it running in every state that waits.
LEMMA TimeoutGood ==
    ASSUME NEW s, DhcpCore(s), NEW t \in dhcp_timeout(s)
    PROVE  DhcpGood(t)
<1>1. s \in DhcpStates /\ AsksNow(s) /\ (s.n.up => s.n.ip = s.d.ip)
  BY DEF DhcpCore, UpLeased
<1>2. CASE s.d.state \in {"BACKING_OFF", "SELECTING"}
  <2>1. t \in dhcp_discover(s)
    BY <1>2 DEF dhcp_timeout
  <2> QED
    BY <1>1, <1>2, <2>1, DownUnlessLeased, DiscoverGood
<1>3. CASE s.d.state = "REQUESTING"
  <2>1. t \in dhcp_select(s) \/ t \in ReleaseAndDiscover(s)
    BY <1>3 DEF dhcp_timeout
  <2>2. ~s.n.up /\ s.d.ip \in Addrs
    BY <1>3, DownUnlessLeased DEF DhcpCore, Addressed
  <2> QED
    BY <1>1, <2>1, <2>2, SelectGood, ReleaseAndDiscoverGood
<1>4. CASE s.d.state = "CHECKING"
  <2>1. t = dhcp_check(s) \/ t = dhcp_bind(s)
    BY <1>4 DEF dhcp_timeout
  <2>2. ~s.n.up /\ s.d.ip \in Addrs
    BY <1>4, DownUnlessLeased DEF DhcpCore, Addressed
  <2> QED
    BY <1>1, <2>1, <2>2, CheckGood, BindGood
<1>5. CASE s.d.state = "RENEWING"
  <2>1. t \in dhcp_renew(s)
    BY <1>5 DEF dhcp_timeout
  <2>2. s.d.ip \in Addrs
    BY <1>5 DEF DhcpCore, Addressed
  <2> QED
    BY <1>1, <2>1, <2>2, RenewGood
<1>6. CASE s.d.state = "REBINDING"
  <2>1. t \in dhcp_rebind(s) \/ t \in ReleaseAndDiscover(s)
    BY <1>6 DEF dhcp_timeout
  <2>2. s.d.ip \in Addrs
    BY <1>6 DEF DhcpCore, Addressed
  <2> QED
    BY <1>1, <2>1, <2>2, RebindGood, ReleaseAndDiscoverGood
<1>7. CASE s.d.state = "REBOOTING"
  <2>1. t \in dhcp_reboot(s) \/ t \in dhcp_discover(s)
    BY <1>7 DEF dhcp_timeout
  <2>2. ~s.n.up /\ s.d.ip \in Addrs
    BY <1>7, DownUnlessLeased DEF DhcpCore, Addressed
  <2> QED
    BY <1>1, <2>1, <2>2, RebootGood, DiscoverGood
<1>8. CASE s.d.state \in {"NULL", "OFF", "BOUND"}
  <2>1. t = s
    BY <1>8 DEF dhcp_timeout
  <2> QED
    BY <1>8, <2>1 DEF DhcpGood, Timed, Waiting
<1> QED
  BY <1>1, <1>2, <1>3, <1>4, <1>5, <1>6, <1>7, <1>8 DEF DhcpStates, StructDhcp, States

\* dhcp_network_changed takes the interface down before it asks again.
LEMMA NetworkChangedGood ==
    ASSUME NEW s, DhcpGood(s), NEW t \in dhcp_network_changed(s)
    PROVE  DhcpGood(t)
<1>1. s \in DhcpStates /\ DhcpCore(s)
  BY DEF DhcpGood, DhcpCore
<1>2. PICK u : u = [s EXCEPT !.d.tries = 0]
  OBVIOUS
<1>3. u \in DhcpStates /\ u.n = s.n /\ u.q = s.q /\ u.d.state = s.d.state /\ u.d.ip = s.d.ip
  <2>1. u = [s EXCEPT !.d = [s.d EXCEPT !.tries = 0]]
    BY <1>1, <1>2 DEF DhcpStates
  <2>2. 0 \in 0 .. TryWrap - 1
    BY DhcpAssumption
  <2>3. [s.d EXCEPT !.tries = 0] \in StructDhcp
    BY <1>1, <2>2 DEF DhcpStates, StructDhcp
  <2> QED
    BY <1>1, <2>1, <2>3 DEF DhcpStates, StructDhcp
<1>4. DhcpCore(u)
  BY <1>1, <1>3, TimersOnly
<1>5. CASE s.d.state \in {"REBINDING", "RENEWING", "BOUND", "REBOOTING"}
  <2>1. PICK v : v = netif_set_down(u)
    OBVIOUS
  <2>2. t \in dhcp_reboot(v)
    BY <1>2, <1>5, <2>1 DEF dhcp_network_changed
  <2>3. v = [u EXCEPT !.n = [u.n EXCEPT !.up = FALSE]]
    BY <1>3, <2>1 DEF netif_set_down, DhcpStates
  <2>4. v \in DhcpStates /\ ~v.n.up /\ v.d = u.d /\ v.q = u.q
    BY <1>3, <2>3 DEF DhcpStates, StructNetif
  <2>5. v.d.ip \in Addrs /\ AsksNow(v)
    BY <1>3, <1>4, <1>5, <2>4 DEF DhcpCore, Addressed, AsksNow
  <2> QED
    BY <2>2, <2>4, <2>5, RebootGood
<1>6. CASE s.d.state \in {"NULL", "OFF"}
  <2>1. t = s
    BY <1>6 DEF dhcp_network_changed
  <2> QED
    BY <2>1
<1>7. CASE s.d.state \notin {"REBINDING", "RENEWING", "BOUND", "REBOOTING", "NULL", "OFF"}
  <2>1. t \in dhcp_discover(u)
    BY <1>2, <1>7 DEF dhcp_network_changed
  <2> QED
    BY <1>3, <1>4, <1>7, <2>1, DownUnlessLeased, DiscoverGood
<1> QED
  BY <1>5, <1>6, <1>7

\* dhcp_handle_nak takes the interface down, whatever state the refusal finds.
LEMMA NakGood ==
    ASSUME NEW s \in DhcpStates, NEW t \in dhcp_handle_nak(s)
    PROVE  DhcpGood(t)
<1>1. PICK u : u = netif_set_addr(netif_set_down(s), NoAddr)
  OBVIOUS
<1>2. u = [s EXCEPT !.n = [s.n EXCEPT !.up = FALSE, !.ip = NoAddr]]
  BY <1>1 DEF netif_set_addr, netif_set_down, DhcpStates, StructNetif
<1>3. u \in DhcpStates /\ ~u.n.up
  BY <1>2 DEF DhcpStates, StructNetif
<1>4. PICK v : v = dhcp_set_state(u, "BACKING_OFF")
  OBVIOUS
<1>5. v \in DhcpStates /\ v.n = u.n
  BY <1>3, <1>4, SetStateFields DEF States
<1>6. t \in dhcp_discover(v)
  BY <1>1, <1>4, Zenon DEF dhcp_handle_nak
<1> QED
  BY <1>3, <1>5, <1>6, DiscoverGood

\* dhcp_handle_ack takes the address and the times of the reply.
LEMMA AckFields ==
    ASSUME NEW s \in DhcpStates, NEW m \in Acks, NEW t, t = dhcp_handle_ack(s, m)
    PROVE  t \in DhcpStates /\ t.n = s.n /\ t.d.ip \in Addrs
<1> DEFINE a == IF m.lease.t1 = NotGiven THEN m.lease.t0 \div 2 ELSE m.lease.t1
           b == IF m.lease.t2 = NotGiven THEN m.lease.t0 ELSE m.lease.t2
<1>1. m.ip \in Addrs /\ m.lease \in Leases
  BY DEF Acks
<1>2. a \in Times /\ b \in Times
  BY <1>1, DhcpAssumption DEF Times, NotGiven
<1>3. t = [s EXCEPT !.d = [s.d EXCEPT !.t1 = a, !.t2 = b, !.ip = m.ip]]
  BY DEF dhcp_handle_ack, DhcpStates, StructDhcp
<1> HIDE DEF a, b
<1>4. [s.d EXCEPT !.t1 = a, !.t2 = b, !.ip = m.ip] \in StructDhcp
  BY <1>1, <1>2 DEF DhcpStates, StructDhcp
<1> QED
  BY <1>1, <1>3, <1>4 DEF DhcpStates, StructDhcp

\* dhcp_recv, for any reply in any state.
LEMMA RecvGood ==
    ASSUME NEW s, DhcpGood(s), NEW m \in Offers \cup Acks \cup Naks, NEW t \in dhcp_recv(s, m)
    PROVE  DhcpGood(t)
<1>1. s \in DhcpStates /\ DhcpCore(s)
  BY DEF DhcpGood, DhcpCore
<1>2. CASE m.type = "ACK" /\ s.d.state = "REQUESTING"
  <2>1. m \in Acks
    BY <1>2 DEF Offers, Acks, Naks
  <2>2. PICK u : u = dhcp_handle_ack(s, m)
    OBVIOUS
  <2>3. t = dhcp_check(u)
    BY <1>2, <2>2 DEF dhcp_recv
  <2> QED
    BY <1>1, <1>2, <2>1, <2>2, <2>3, AckFields, DownUnlessLeased, CheckGood
<1>3. CASE m.type = "ACK" /\ s.d.state \in {"REBOOTING", "REBINDING", "RENEWING"}
  <2>1. t = dhcp_bind(s)
    BY <1>3 DEF dhcp_recv
  <2>2. s.d.ip \in Addrs
    BY <1>1, <1>3 DEF DhcpCore, Addressed
  <2> QED
    BY <1>1, <2>1, <2>2, BindGood
<1>4. CASE m.type = "NAK" /\ s.d.state \in {"REBOOTING", "REQUESTING", "REBINDING", "RENEWING"}
  <2>1. t \in dhcp_handle_nak(s)
    BY <1>4 DEF dhcp_recv
  <2> QED
    BY <1>1, <2>1, NakGood
<1>5. CASE m.type = "OFFER" /\ s.d.state = "SELECTING"
  <2>1. m \in Offers
    BY <1>5 DEF Offers, Acks, Naks
  <2>2. PICK u : u = [s EXCEPT !.d.request_timeout = FALSE]
    OBVIOUS
  <2>3. u \in DhcpStates /\ u.n = s.n /\ u.q = s.q /\ u.d.state = s.d.state /\ u.d.ip = s.d.ip
    <3>1. u = [s EXCEPT !.d = [s.d EXCEPT !.request_timeout = FALSE]]
      BY <1>1, <2>2 DEF DhcpStates
    <3>2. [s.d EXCEPT !.request_timeout = FALSE] \in StructDhcp
      BY <1>1 DEF DhcpStates, StructDhcp
    <3> QED
      BY <1>1, <3>1, <3>2 DEF DhcpStates, StructDhcp
  <2>4. DhcpCore(u) /\ ~u.n.up
    BY <1>1, <1>5, <2>3, TimersOnly, DownUnlessLeased
  <2>5. t \in dhcp_handle_offer(u, m)
    BY <1>5, <2>2 DEF dhcp_recv
  <2>6. CASE m.server_id
    <3>1. PICK v : v = [u EXCEPT !.d.ip = m.ip]
      OBVIOUS
    <3>2. t \in dhcp_select(v)
      BY <2>5, <2>6, <3>1 DEF dhcp_handle_offer
    <3>3. v = [u EXCEPT !.d = [u.d EXCEPT !.ip = m.ip]] /\ m.ip \in Addrs
      BY <2>1, <2>3, <3>1 DEF DhcpStates, Offers
    <3>4. [u.d EXCEPT !.ip = m.ip] \in StructDhcp
      BY <2>3, <3>3 DEF DhcpStates, StructDhcp
    <3>5. v \in DhcpStates /\ v.n = u.n /\ v.d.ip \in Addrs
      BY <2>3, <3>3, <3>4 DEF DhcpStates, StructDhcp
    <3> QED
      BY <2>4, <3>2, <3>5, SelectGood
  <2>7. CASE ~m.server_id
    <3>1. t = u
      BY <2>5, <2>7 DEF dhcp_handle_offer
    <3>2. "anonymous" \in dhcp_faults
      BY <2>1, <2>7 DEF Offers
    <3> QED
      BY <1>5, <2>3, <2>4, <3>1, <3>2 DEF DhcpGood, Timed
  <2> QED
    BY <2>6, <2>7
<1>6. ASSUME t = s PROVE DhcpGood(t)
  BY <1>6
<1>7. m.type \in {"OFFER", "ACK", "NAK"}
  BY DEF Offers, Acks, Naks
<1> QED
  BY <1>2, <1>3, <1>4, <1>5, <1>6, <1>7 DEF dhcp_recv

\* dhcp_t1_timeout renews where there is something to renew.
LEMMA T1TimeoutGood ==
    ASSUME NEW s, DhcpGood(s), NEW t \in dhcp_t1_timeout(s)
    PROVE  DhcpGood(t)
<1>1. s \in DhcpStates /\ DhcpCore(s)
  BY DEF DhcpGood, DhcpCore
<1>2. CASE s.d.state \in Renewable
  <2>1. t \in dhcp_renew(s)
    BY <1>2 DEF dhcp_t1_timeout
  <2>2. s.d.ip \in Addrs /\ AsksNow(s) /\ (s.n.up => s.n.ip = s.d.ip)
    BY <1>1, <1>2 DEF DhcpCore, UpLeased, Renewable, Addressed
  <2> QED
    BY <1>1, <2>1, <2>2, RenewGood
<1> QED
  BY <1>2 DEF dhcp_t1_timeout

\* dhcp_t2_timeout rebinds where there is something to rebind.
LEMMA T2TimeoutGood ==
    ASSUME NEW s, DhcpGood(s), NEW t \in dhcp_t2_timeout(s)
    PROVE  DhcpGood(t)
<1>1. s \in DhcpStates /\ DhcpCore(s)
  BY DEF DhcpGood, DhcpCore
<1>2. CASE s.d.state \in Renewable
  <2>1. t \in dhcp_rebind(s)
    BY <1>2 DEF dhcp_t2_timeout
  <2>2. s.d.ip \in Addrs /\ AsksNow(s) /\ (s.n.up => s.n.ip = s.d.ip)
    BY <1>1, <1>2 DEF DhcpCore, UpLeased, Renewable, Addressed
  <2> QED
    BY <1>1, <2>1, <2>2, RebindGood
<1> QED
  BY <1>2 DEF dhcp_t2_timeout

-----------------------------------------------------------------------------
(* Steps *)

\* A handler that leaves a good state keeps the invariant.
LEMMA BecomesGood ==
    ASSUME NEW t, DhcpGood(t), dhcp_faults \in DhcpFaultSets, BecomesDhcp(t)
    PROVE  DhcpInv'
<1>1. t \in DhcpStates
  BY DEF DhcpGood, DhcpCore
<1>2. StateDhcp' = t
  BY <1>1 DEF StateDhcp, BecomesDhcp, DhcpStates
<1>3. dhcp_faults' = dhcp_faults
  BY DEF BecomesDhcp
<1> QED
  BY <1>2, <1>3 DEF DhcpInv, DhcpGood, DhcpCore, UpLeased, AsksNow, Timed

\* The fields of the state, and what the invariant says of it
LEMMA StateFields ==
    ASSUME DhcpInv
    PROVE  /\ DhcpGood(StateDhcp) /\ DhcpCore(StateDhcp) /\ StateDhcp \in DhcpStates
           /\ dhcp_faults \in DhcpFaultSets
           /\ StateDhcp.d = dhcp /\ StateDhcp.n = netif /\ StateDhcp.q = asked
BY DEF DhcpInv, DhcpGood, DhcpCore, StateDhcp

\* A cleared struct dhcp has the types of its fields.
LEMMA OffFields == Off \in StructDhcp
BY DhcpAssumption DEF Off, StructDhcp, States, Times

\* dhcp_start, with and without memory for the first message.
LEMMA StartStep ==
    ASSUME DhcpInv, dhcp_start
    PROVE  DhcpInv'
<1>1. PICK s : s = [StateDhcp EXCEPT !.d = Off]
  OBVIOUS
<1>2. PICK t \in dhcp_discover(s) :
        BecomesDhcp(IF t.q = {} THEN dhcp_set_state([t EXCEPT !.d.ip = NoAddr], "OFF") ELSE t)
  BY <1>1 DEF dhcp_start
<1>4. s \in DhcpStates /\ s.n = netif
  BY <1>1, OffFields, StateFields DEF DhcpStates
<1>5. ~netif.up
  <2>1. StateDhcp.d.state = "NULL"
    BY StateFields DEF dhcp_start
  <2> QED
    BY <2>1, StateFields, DownUnlessLeased
<1>6. DhcpGood(t) /\ t \in DhcpStates
  BY <1>2, <1>4, <1>5, DiscoverGood DEF DhcpGood, DhcpCore
<1>7. CASE t.q # {}
  BY <1>2, <1>6, <1>7, StateFields, BecomesGood
<1>8. CASE t.q = {}
  <2>1. PICK u : u = [t EXCEPT !.d.ip = NoAddr]
    OBVIOUS
  <2>2. PICK v : v = dhcp_set_state(u, "OFF")
    OBVIOUS
  <2>3. BecomesDhcp(v)
    BY <1>2, <1>8, <2>1, <2>2
  <2>4. u = [t EXCEPT !.d = [t.d EXCEPT !.ip = NoAddr]]
    BY <1>6, <2>1 DEF DhcpStates
  <2>5. [t.d EXCEPT !.ip = NoAddr] \in StructDhcp
    BY <1>6 DEF DhcpStates, StructDhcp
  <2>6. u \in DhcpStates /\ u.n = t.n
    BY <1>6, <2>4, <2>5 DEF DhcpStates
  <2>7. v \in DhcpStates /\ v.n = t.n /\ v.d.state = "OFF"
    BY <2>2, <2>6, SetStateFields DEF States
  <2>8. ~t.n.up
    <3>1. t.d.state \notin {"BOUND", "RENEWING", "REBINDING"}
      BY <1>2, <1>4, DiscoverSelecting
    <3> QED
      BY <1>6, <3>1, DownUnlessLeased DEF DhcpGood
  <2>9. DhcpGood(v)
    BY <2>7, <2>8 DEF DhcpGood, DhcpCore, UpLeased, AsksNow, Timed, Keeping, Addressed, Waiting
  <2> QED
    BY <2>3, <2>9, StateFields, BecomesGood
<1> QED
  BY <1>7, <1>8

\* dhcp_fine_tmr.
LEMMA FineStep ==
    ASSUME DhcpInv, FineTmr
    PROVE  DhcpInv'
<1>1. PICK s : s = [StateDhcp EXCEPT !.d.request_timeout = FALSE]
  OBVIOUS
<1>2. PICK t \in dhcp_timeout(s) : BecomesDhcp(t)
  BY <1>1 DEF FineTmr
<1>3. s = [StateDhcp EXCEPT !.d = [dhcp EXCEPT !.request_timeout = FALSE]]
  BY <1>1, StateFields DEF DhcpStates
<1>4. [dhcp EXCEPT !.request_timeout = FALSE] \in StructDhcp
  BY StateFields DEF DhcpStates, StructDhcp
<1>5. s \in DhcpStates /\ s.n = netif /\ s.q = asked /\ s.d.state = dhcp.state /\ s.d.ip = dhcp.ip
  BY <1>3, <1>4, StateFields DEF DhcpStates, StructDhcp
<1>6. DhcpCore(s)
  BY <1>5, StateFields, TimersOnly
<1> QED
  BY <1>2, <1>6, StateFields, TimeoutGood, BecomesGood

\* The minute's countdown leaves a good state good.
LEMMA CountGood ==
    ASSUME NEW s, DhcpGood(s), NEW a \in 0 .. Wrap - 1, NEW b \in 0 .. Wrap - 1,
           NEW t, t = [s EXCEPT !.d = [s.d EXCEPT !.t1_timeout = a, !.t2_timeout = b]]
    PROVE  DhcpGood(t)
<1>1. s \in DhcpStates /\ DhcpCore(s)
  BY DEF DhcpGood, DhcpCore
<1>2. [s.d EXCEPT !.t1_timeout = a, !.t2_timeout = b] \in StructDhcp
  BY <1>1 DEF DhcpStates, StructDhcp
<1>3. /\ t \in DhcpStates /\ t.n = s.n /\ t.q = s.q /\ t.d.state = s.d.state /\ t.d.ip = s.d.ip
      /\ t.d.tries = s.d.tries /\ t.d.request_timeout = s.d.request_timeout
  BY <1>1, <1>2 DEF DhcpStates, StructDhcp
<1> QED
  BY <1>1, <1>3, TimersOnly DEF DhcpGood, Timed

\* A u16_t counter stays one when it is decremented, past 0 too.
LEMMA DecrementedRange ==
    ASSUME NEW timer \in 0 .. Wrap - 1
    PROVE  Decremented(timer) \in 0 .. Wrap - 1
BY DhcpAssumption DEF Decremented

\* dhcp_coarse_tmr.
LEMMA CoarseStep ==
    ASSUME DhcpInv, CoarseTmr
    PROVE  DhcpInv'
<1>1. PICK s : s = [StateDhcp EXCEPT !.d.t2_timeout = Decremented(@)]
  OBVIOUS
<1>2. PICK t : t = [s EXCEPT !.d.t1_timeout = Decremented(@)]
  OBVIOUS
<1>3. PICK u \in IF dhcp.t2_timeout = 1 THEN dhcp_t2_timeout(s)
                 ELSE IF dhcp.t1_timeout = 1 THEN dhcp_t1_timeout(t) ELSE {t} : BecomesDhcp(u)
  BY <1>1, <1>2 DEF CoarseTmr
<1>4. PICK a : a = Decremented(dhcp.t1_timeout)
  OBVIOUS
<1>5. PICK b : b = Decremented(dhcp.t2_timeout)
  OBVIOUS
<1>6. dhcp \in StructDhcp /\ dhcp.t1_timeout \in 0 .. Wrap - 1 /\ dhcp.t2_timeout \in 0 .. Wrap - 1
  BY StateFields DEF DhcpStates, StructDhcp
<1>7. a \in 0 .. Wrap - 1 /\ b \in 0 .. Wrap - 1
  BY <1>4, <1>5, <1>6, DecrementedRange
<1>8. s = [StateDhcp EXCEPT !.d = [dhcp EXCEPT !.t1_timeout = dhcp.t1_timeout, !.t2_timeout = b]]
  BY <1>1, <1>5, <1>6, StateFields DEF DhcpStates, StructDhcp
<1>9. t = [StateDhcp EXCEPT !.d = [dhcp EXCEPT !.t1_timeout = a, !.t2_timeout = b]]
  <2>1. PICK r : r = [dhcp EXCEPT !.t1_timeout = dhcp.t1_timeout, !.t2_timeout = b]
    OBVIOUS
  <2>2. r \in StructDhcp /\ r.t1_timeout = dhcp.t1_timeout
    BY <1>6, <1>7, <2>1 DEF StructDhcp
  <2>3. s \in DhcpStates /\ s.d = r /\ s.n = StateDhcp.n /\ s.q = StateDhcp.q
    BY <1>8, <2>1, <2>2, StateFields, NewStruct
  <2>4. t = [s EXCEPT !.d = [r EXCEPT !.t1_timeout = a]]
    BY <1>2, <1>4, <2>2, <2>3 DEF DhcpStates
  <2>5. [r EXCEPT !.t1_timeout = a] = [dhcp EXCEPT !.t1_timeout = a, !.t2_timeout = b]
    BY <1>6, <2>1 DEF StructDhcp
  <2> QED
    BY <1>8, <2>1, <2>4, <2>5, StateFields DEF DhcpStates
<1>10. DhcpGood(s) /\ DhcpGood(t)
  BY <1>6, <1>7, <1>8, <1>9, StateFields, CountGood
<1>11. DhcpGood(u)
  BY <1>3, <1>10, T1TimeoutGood, T2TimeoutGood
<1> QED
  BY <1>3, <1>11, StateFields, BecomesGood

\* The link flag is not part of the invariant.
LEMMA LinkGood ==
    ASSUME NEW s, DhcpGood(s), NEW b \in BOOLEAN, NEW t, t = [s EXCEPT !.n.link = b]
    PROVE  DhcpGood(t)
<1>1. s \in DhcpStates /\ DhcpCore(s)
  BY DEF DhcpGood, DhcpCore
<1>2. t = [s EXCEPT !.n = [s.n EXCEPT !.link = b]]
  BY <1>1 DEF DhcpStates
<1>3. [s.n EXCEPT !.link = b] \in StructNetif
  BY <1>1 DEF DhcpStates, StructNetif
<1>4. t \in DhcpStates /\ t.d = s.d /\ t.q = s.q /\ t.n.up = s.n.up /\ t.n.ip = s.n.ip
  BY <1>1, <1>2, <1>3 DEF DhcpStates, StructNetif
<1> QED
  BY <1>1, <1>4 DEF DhcpGood, DhcpCore, UpLeased, AsksNow, Timed

\* netif_set_link_up.
LEMMA LinkUpStep ==
    ASSUME DhcpInv, LinkUp
    PROVE  DhcpInv'
<1>1. PICK s : s = [StateDhcp EXCEPT !.n.link = TRUE]
  OBVIOUS
<1>2. PICK t \in dhcp_network_changed(s) : BecomesDhcp(t)
  BY <1>1 DEF LinkUp
<1>3. DhcpGood(s)
  BY <1>1, StateFields, LinkGood
<1> QED
  BY <1>2, <1>3, StateFields, NetworkChangedGood, BecomesGood

\* netif_set_link_down.
LEMMA LinkDownStep ==
    ASSUME DhcpInv, LinkDown
    PROVE  DhcpInv'
<1>1. PICK s : s = [StateDhcp EXCEPT !.n.link = FALSE]
  OBVIOUS
<1>2. BecomesDhcp(s)
  BY <1>1 DEF LinkDown
<1>3. DhcpGood(s)
  BY <1>1, StateFields, LinkGood
<1> QED
  BY <1>2, <1>3, StateFields, BecomesGood

\* A reply from a server.
LEMMA ReplyStep ==
    ASSUME DhcpInv, RecvOffer \/ RecvAck \/ RecvNak
    PROVE  DhcpInv'
<1>1. PICK m \in Offers \cup Acks \cup Naks : \E s \in dhcp_recv(StateDhcp, m) : BecomesDhcp(s)
  BY Zenon DEF RecvOffer, RecvAck, RecvNak, RecvReply
<1>2. PICK t \in dhcp_recv(StateDhcp, m) : BecomesDhcp(t)
  BY <1>1
<1> QED
  BY <1>2, StateFields, RecvGood, BecomesGood

\* dhcp_arp_reply, when another host uses the address.
LEMMA ArpReplyStep ==
    ASSUME DhcpInv, ArpReply
    PROVE  DhcpInv'
<1>1. PICK t \in dhcp_decline(StateDhcp) : BecomesDhcp(t)
  BY DEF ArpReply
<1>2. StateDhcp.d.state = "CHECKING"
  BY StateFields DEF ArpReply
<1> QED
  BY <1>1, <1>2, StateFields, DownUnlessLeased, DeclineGood, BecomesGood

\* A step that changes nothing.
LEMMA StutterStep ==
    ASSUME DhcpInv, UNCHANGED varsDhcp
    PROVE  DhcpInv'
<1>1. BecomesDhcp(StateDhcp)
  BY DEF BecomesDhcp, varsDhcp, StateDhcp
<1> QED
  BY <1>1, StateFields, BecomesGood

\* After netif_add.
LEMMA DhcpInitially ==
    ASSUME InitDhcp
    PROVE  DhcpInv
<1>1. dhcp \in StructDhcp /\ dhcp.state = "NULL"
  BY OffFields DEF InitDhcp, StructDhcp, States
<1>2. netif \in StructNetif /\ ~netif.up
  BY DEF InitDhcp, StructNetif
<1>3. StateDhcp \in DhcpStates
  BY <1>1, <1>2 DEF InitDhcp, StateDhcp, DhcpStates
<1>4. StateDhcp.d.state = "NULL" /\ ~StateDhcp.n.up
  BY <1>1, <1>2 DEF StateDhcp
<1>5. DhcpGood(StateDhcp)
  BY <1>3, <1>4 DEF DhcpGood, DhcpCore, UpLeased, AsksNow, Timed, Keeping, Addressed, Waiting
<1> QED
  BY <1>5 DEF DhcpInv, InitDhcp

-----------------------------------------------------------------------------
(* Results *)

\* The inductive invariant of the client holds in every reachable state, with
\* any addresses and lease times and any of the faults.
THEOREM DhcpInvariance == SpecDhcp => []DhcpInv
<1>1. InitDhcp => DhcpInv
  BY DhcpInitially
<1>2. DhcpInv /\ [NextDhcp]_varsDhcp => DhcpInv'
  <2> SUFFICES ASSUME DhcpInv, [NextDhcp]_varsDhcp PROVE DhcpInv'
    OBVIOUS
  <2>1. CASE dhcp_start
    BY <2>1, StartStep
  <2>2. CASE FineTmr
    BY <2>2, FineStep
  <2>3. CASE CoarseTmr
    BY <2>3, CoarseStep
  <2>4. CASE LinkUp
    BY <2>4, LinkUpStep
  <2>5. CASE LinkDown
    BY <2>5, LinkDownStep
  <2>6. CASE RecvOffer \/ RecvAck \/ RecvNak
    BY <2>6, ReplyStep
  <2>7. CASE ArpReply
    BY <2>7, ArpReplyStep
  <2>8. CASE UNCHANGED varsDhcp
    BY <2>8, StutterStep
  <2> QED
    BY <2>1, <2>2, <2>3, <2>4, <2>5, <2>6, <2>7, <2>8, Zenon DEF NextDhcp
<1> QED
  BY <1>1, <1>2, PTL DEF SpecDhcp

\* Whatever order replies, timeouts and link changes come in, every field keeps
\* its C type, the interface is up only with the address that is leased to it,
\* and a client that waits for an answer has dhcp_fine_tmr's timer running.
THEOREM DhcpClientSound == SpecDhcp => []DhcpSound
<1>1. DhcpInv => DhcpSound
  <2> SUFFICES ASSUME DhcpInv PROVE DhcpSound
    OBVIOUS
  <2>1. DhcpTypeOK
    BY StateFields DEF DhcpTypeOK, DhcpStates, StructDhcp, StructNetif
  <2>2. UpMeansLeased
    BY StateFields DEF DhcpCore, UpLeased, Addressed, UpMeansLeased
  <2>3. WaitingIsTimed
    BY StateFields DEF DhcpGood, Timed, WaitingIsTimed
  <2> QED
    BY <2>1, <2>2, <2>3 DEF DhcpSound
<1> QED
  BY <1>1, DhcpInvariance, PTL

\* While pbuf_alloc finds memory, the only requests under the transaction number
\* dhcp_recv compares with, when it binds a kept address, are those the present
\* state has made.
THEOREM BoundByItsAnswer == SpecDhcp => BoundByAnswer
<1> DEFINE A == \A q \in asked :
          /\ "no_memory" \notin dhcp_faults
          /\ dhcp'.state = "BOUND" /\ dhcp.state \in {"RENEWING", "REBINDING", "REBOOTING"}
          => q.type = "REQUEST" /\ q.from = dhcp.state
<1>1. DhcpInv => A
  BY StateFields DEF DhcpCore, AsksNow, Keeping
<1>2. DhcpInv /\ [NextDhcp]_varsDhcp => [A]_varsDhcp
  BY <1>1
<1> QED
  BY <1>2, DhcpInvariance, PTL DEF SpecDhcp, BoundByAnswer
=============================================================================
