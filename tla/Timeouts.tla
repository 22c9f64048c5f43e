------------------------------ MODULE Timeouts ------------------------------
(***************************************************************************)
(* lwIP's timeouts, src/lwip/core/timers.c: one list in which each entry   *)
(* holds the time after the entry before it, polled by net_service.        *)
(*                                                                         *)
(* Some handlers start themselves again (ARP, DHCP, DNS, reassembly), the  *)
(* handler of TCP does so while there are connections, and others are      *)
(* started and stopped by their users (SNTP), who may have several entries *)
(* of one handler in the list: sntp_cleanup leaves sntp_request pending    *)
(* and sntp_init adds another.  The ghost fields of an entry measure it    *)
(* against the clock.                                                      *)
(*                                                                         *)
(* When the pool of entries is empty the assertion of sys_timeout stops    *)
(* the program (LWIP_PLATFORM_ASSERT), so there is no step.                *)
(***************************************************************************)
EXTENDS Integers, Sequences, SequencesExt, FiniteSets

CONSTANTS
    Period,     \* handlers that start themselves again |-> their interval
    TcpPeriod,  \* TCP_TMR_INTERVAL
    Single,     \* handlers started by their users
    Delays,     \* the times asked for those
    PoolSize,   \* MEMP_NUM_SYS_TIMEOUT
    U32,        \* 2^32, the modulus of sys_now()
    MaxPause    \* bound: milliseconds between two calls of sys_check_timeouts

ASSUME TimeoutsAssumption ==
    /\ \A h \in DOMAIN Period : Period[h] \in Nat \ {0}
    /\ TcpPeriod \in Nat \ {0} /\ Delays \subseteq Nat \ {0}
    /\ PoolSize \in Nat /\ PoolSize >= Cardinality(DOMAIN Period \cup Single) + 1
    /\ U32 \in Nat /\ MaxPause \in Nat
    /\ \A d \in Delays \cup {TcpPeriod} \cup {Period[h] : h \in DOMAIN Period} : d + MaxPause + 1 < U32

VARIABLES
    next_timeout,             \* the list: [h, time] and the ghosts below
    timeouts_last_time,
    now,                      \* sys_now()
    pause,                    \* ghost: milliseconds since sys_check_timeouts was called
    tcp_pcbs,                 \* tcp_active_pcbs || tcp_tw_pcbs
    tcpip_tcp_timer_active,
    crashed                   \* sys_check_timeouts followed a null next_timeout

varsTimeouts == <<next_timeout, timeouts_last_time, now, pause, tcp_pcbs,
                  tcpip_tcp_timer_active, crashed>>

LWIP_U32_DIFF(a, b) == (a - b) % U32

\* An entry of handler h.  left: milliseconds until the time asked for; off: how
\* much later than that it is due, which is less than 0 while timeouts_last_time
\* is behind the clock and grows by what sys_check_timeouts drops.
TimeoutEntry(h, msecs, lag) == [h |-> h, time |-> msecs, left |-> msecs, off |-> -lag]

\* The time of the entries up to position n.
Due(list, n) == LET sum[k \in 0 .. n] == IF k = 0 THEN 0 ELSE sum[k - 1] + list[k].time
                IN  sum[n]

-----------------------------------------------------------------------------
\* The list after sys_timeout: the new entry goes behind those due no later, and
\* the one that follows it is put relative to it.
sys_timeout(list, h, msecs, lag) ==
    LET n       == 1 + Cardinality({k \in DOMAIN list : Due(list, k) <= msecs})
        entry   == [TimeoutEntry(h, msecs, lag) EXCEPT !.time = msecs - Due(list, n - 1)]
        shifted == IF n > Len(list) THEN list ELSE [list EXCEPT ![n].time = @ - entry.time]
    IN  InsertAt(shifted, n, entry)

\* Mutant: the time of the entry removed is not added to the next.
sys_untimeout_drops(list, h) ==
    IF ~ \E n \in DOMAIN list : list[n].h = h THEN list
    ELSE LET n == CHOOSE k \in DOMAIN list : list[k].h = h /\ \A j \in 1 .. k - 1 : list[j].h # h
         IN  RemoveAt(list, n)
\* The list after sys_untimeout, which removes the first entry of the handler: "add
\* time of this one back to next".
sys_untimeout(list, h) ==
    IF ~ \E n \in DOMAIN list : list[n].h = h THEN list
    ELSE LET n == CHOOSE k \in DOMAIN list : list[k].h = h /\ \A j \in 1 .. k - 1 : list[j].h # h
             s == IF n = Len(list) THEN list ELSE [list EXCEPT ![n + 1].time = @ + list[n].time]
         IN  RemoveAt(s, n)

\* What handler h may do with the list; diff: the part of the elapsed time that
\* sys_check_timeouts has not used up.  Its own entry is back in the pool by then,
\* so there is one for the entry it adds.
Handled(s, h) ==
    LET Started(g, msecs) == [s EXCEPT !.list = sys_timeout(@, g, msecs, s.diff)]
    IN  IF h \in DOMAIN Period THEN {Started(h, Period[h])}
        ELSE IF h \in Single THEN {s} \cup {Started(g, msecs) : g \in Single, msecs \in Delays}
        ELSE IF tcp_pcbs THEN {Started(h, TcpPeriod)}
        ELSE {[s EXCEPT !.active = FALSE]}

\* The body of the loop of sys_check_timeouts, for an entry that has expired.
Expire(s) == LET e == Head(s.list)
             IN  Handled([s EXCEPT !.list = Tail(@), !.diff = @ - e.time, !.fired = TRUE], e.h)

\* "repeat until all expired timers have been called": the outcomes of that
RECURSIVE Loop(_)
Loop(s) ==
    IF s.list = <<>> THEN {[s EXCEPT !.crashed = TRUE]}
    ELSE IF Head(s.list).time <= s.diff THEN UNION {Loop(t) : t \in Expire(s)}
    ELSE {s}

sys_check_timeouts ==
    /\ ~crashed
    /\ IF next_timeout = <<>>
       THEN UNCHANGED <<next_timeout, timeouts_last_time, tcpip_tcp_timer_active, crashed>>
       ELSE \E s \in Loop([list |-> next_timeout, diff |-> LWIP_U32_DIFF(now, timeouts_last_time),
                           active |-> tcpip_tcp_timer_active, fired |-> FALSE, crashed |-> FALSE]) :
              /\ next_timeout' = IF ~s.fired THEN s.list
                                 ELSE [n \in DOMAIN s.list |-> [s.list[n] EXCEPT !.off = @ + s.diff]]
              /\ timeouts_last_time' = IF s.fired THEN now ELSE timeouts_last_time
              /\ tcpip_tcp_timer_active' = s.active
              /\ crashed' = s.crashed
    /\ pause' = 0
    /\ UNCHANGED <<now, tcp_pcbs>>

-----------------------------------------------------------------------------
sys_timeouts_init ==
    /\ next_timeout = FoldLeft(LAMBDA list, h : sys_timeout(list, h, Period[h], 0), <<>>,
                              SetToSeq(DOMAIN Period))
    /\ now = 0 /\ timeouts_last_time = now /\ pause = 0
    /\ tcp_pcbs = FALSE /\ tcpip_tcp_timer_active = FALSE
    /\ crashed = FALSE

Lag == LWIP_U32_DIFF(now, timeouts_last_time)

Millisecond ==
    /\ pause < MaxPause
    /\ now' = (now + 1) % U32
    /\ pause' = pause + 1
    /\ next_timeout' = [n \in DOMAIN next_timeout |-> [next_timeout[n] EXCEPT !.left = @ - 1]]
    /\ UNCHANGED <<timeouts_last_time, tcp_pcbs, tcpip_tcp_timer_active, crashed>>

StartTimeout(h, msecs) ==
    /\ Len(next_timeout) < PoolSize
    /\ next_timeout' = sys_timeout(next_timeout, h, msecs, Lag)
    /\ UNCHANGED <<timeouts_last_time, now, pause, tcp_pcbs, tcpip_tcp_timer_active, crashed>>

StopTimeout(h) ==
    /\ next_timeout' = sys_untimeout(next_timeout, h)
    /\ UNCHANGED <<timeouts_last_time, now, pause, tcp_pcbs, tcpip_tcp_timer_active, crashed>>

\* TCP_REG of a first control block, with tcp_timer_needed
Register ==
    /\ ~tcp_pcbs /\ (Len(next_timeout) < PoolSize \/ tcpip_tcp_timer_active)
    /\ tcp_pcbs' = TRUE
    /\ tcpip_tcp_timer_active' = TRUE
    /\ next_timeout' = IF tcpip_tcp_timer_active THEN next_timeout
                       ELSE sys_timeout(next_timeout, "tcp", TcpPeriod, Lag)
    /\ UNCHANGED <<timeouts_last_time, now, pause, crashed>>

Unregister ==
    /\ tcp_pcbs
    /\ tcp_pcbs' = FALSE
    /\ UNCHANGED <<next_timeout, timeouts_last_time, now, pause, tcpip_tcp_timer_active, crashed>>

NextTimeouts ==
    \/ sys_check_timeouts \/ Millisecond \/ Register \/ Unregister
    \/ \E h \in Single : StopTimeout(h) \/ \E msecs \in Delays : StartTimeout(h, msecs)

SpecTimeouts == sys_timeouts_init /\ [][NextTimeouts]_varsTimeouts

-----------------------------------------------------------------------------
Entries(h) == {n \in DOMAIN next_timeout : next_timeout[n].h = h}

\* The times in the list add up, for every entry, to what was asked for, less
\* what the list was behind the clock when it was started, plus what
\* sys_check_timeouts has dropped since: inserting, removing and expiring other
\* timeouts, and the clock's wraparound, do not move it.
TimesAddUp ==
    \A n \in DOMAIN next_timeout :
      LET e == next_timeout[n]
      IN  Due(next_timeout, n) - Lag = e.left + e.off

\* Whatever users start and stop, and however often each, every handler that
\* starts itself again is in the list exactly once, TCP's is whenever there are
\* connections, and the loop of sys_check_timeouts never follows a null pointer.
TimersArmed ==
    /\ ~crashed
    /\ \A h \in DOMAIN Period : Cardinality(Entries(h)) = 1
    /\ Cardinality(Entries("tcp")) = IF tcpip_tcp_timer_active THEN 1 ELSE 0
    /\ tcp_pcbs => tcpip_tcp_timer_active

\* sys_timeout counts from timeouts_last_time, not from now: a timeout comes
\* early, but by less than the shortest interval and the longest pause.
EarlyBounded ==
    \A n \in DOMAIN next_timeout, h \in DOMAIN Period :
      next_timeout[n].off >= -(Period[h] + MaxPause)

\* What sys_timeout, sys_untimeout and sys_check_timeouts keep true of the list.
TimersSound == TimesAddUp /\ TimersArmed /\ EarlyBounded
=============================================================================
