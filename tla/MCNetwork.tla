------------------------------ MODULE MCNetwork ------------------------------
(***************************************************************************)
(* The parts of the network stack below TCP for TLC: the two halves of the *)
(* Ethernet driver, the supervision of the PHY, the ARP cache, the heap,   *)
(* the timeouts, the DHCP client and the SNTP client with the resolver.    *)
(* A behaviour is one of a single part, chosen at the start; the others    *)
(* keep their initial state.  They share no variables, so interleaving     *)
(* them shows nothing more.                                                *)
(***************************************************************************)
EXTENDS EmacRx, EmacTx, Phy, Etharp, Heap, Timeouts, Dhcp, Sntp

CONSTANT Parts   \* the parts to check

VARIABLE part

vars == <<part, rxvars, txvars, phyvars, arpvars, varsHeap, varsTimeouts, varsDhcp, varsSntp>>

(* Constants *)

MCPeriod == [h \in {"dhcp_fine", "arp"} |-> IF h = "arp" THEN 2 ELSE 1]

\* Nothing goes wrong; memory is short; replies and hosts are awkward; the link
\* comes and goes as well.
MCDhcpFaults == {{}, {"no_memory"}, {"nak", "conflict"}, DhcpFaultKinds \ {"no_memory"}}
MCSntpFaults == {{"down"}, {"no_memory"}, {"dns_error", "bad_answer"}}

\* A short lease with the default times; one longer than the timers count; one
\* without end, renewed after a minute.
MCLeases == {[t0 |-> 1, t1 |-> NotGiven, t2 |-> NotGiven],
             [t0 |-> Wrap + 1, t1 |-> NotGiven, t2 |-> NotGiven],
             [t0 |-> Forever, t1 |-> 1, t2 |-> NotGiven]}

(* Steps *)

MCInit ==
    /\ part \in Parts
    /\ InitRx /\ InitTx /\ InitPhy /\ InitArp /\ mem_init /\ sys_timeouts_init
    /\ InitDhcp /\ InitSntp
    /\ part # "phy" => phy = mac /\ mac = [link |-> TRUE, fast |-> TRUE, full |-> TRUE]
    /\ part # "dhcp" => dhcp_faults = {"no_memory"} /\ ~netif.link
    /\ part # "sntp" => sntp_faults = {"down"}

\* A step of part p alone
Only(p) ==
    /\ part = p /\ UNCHANGED part
    /\ (p # "rx" => UNCHANGED rxvars) /\ (p # "tx" => UNCHANGED txvars)
    /\ (p # "phy" => UNCHANGED phyvars) /\ (p # "arp" => UNCHANGED arpvars)
    /\ (p # "heap" => UNCHANGED varsHeap) /\ (p # "timeouts" => UNCHANGED varsTimeouts)
    /\ (p # "dhcp" => UNCHANGED varsDhcp) /\ (p # "sntp" => UNCHANGED varsSntp)

MCNext ==
    \/ Only("rx") /\ NextRx
    \/ Only("tx") /\ NextTx
    \/ Only("phy") /\ NextPhy
    \/ Only("arp") /\ NextArp
    \/ Only("heap") /\ NextHeap
    \/ Only("timeouts") /\ NextTimeouts
    \/ Only("dhcp") /\ NextDhcp
    \/ Only("sntp") /\ NextSntp

MCSpec == MCInit /\ [][MCNext]_vars

\* net_service runs every 500 us: it queues a pbuf once the stack has freed one,
\* takes frames, handles timeouts and runs the timers that re-arm themselves.
\* The EMAC goes on sending, reads over the management interface end, and a cable
\* is put in.  Of the answers to requests made again and again one arrives.
\* Steps of different parts share a condition, since a behaviour has but one.
Fairness ==
    /\ WF_vars(\/ (Only("rx") /\ Stack /\ StackFree) \/ (Only("tx") /\ HwTransmit)
               \/ (Only("phy") /\ StsSm) \/ (Only("arp") /\ ArpTmr)
               \/ (Only("dhcp") /\ dhcp_start) \/ (Only("sntp") /\ InterfaceUp))
    /\ WF_vars(\/ (Only("rx") /\ Input) \/ (Only("tx") /\ OutputQueue)
               \/ (Only("phy") /\ MiiDone)
               \/ (Only("dhcp") /\ FineTmr) \/ (Only("sntp") /\ RequestTimeout))
    /\ WF_vars(\/ (Only("rx") /\ InputOverrun)
               \/ (Only("dhcp") /\ CoarseTmr) \/ (Only("sntp") /\ RetryExpires))
    /\ WF_vars((Only("dhcp") /\ LinkUp) \/ (Only("sntp") /\ DnsTmr))
    /\ SF_vars(\/ (Only("rx") /\ RxQueue)
               \/ (Only("dhcp") /\ RecvOffer) \/ (Only("sntp") /\ DnsAnswer))
    /\ SF_vars((Only("dhcp") /\ RecvAck) \/ (Only("sntp") /\ Answer))

MCFairSpec == MCSpec /\ Fairness

\* Frames are taken and sent, the MAC follows the cable, and no packet waits for
\* ever for an Ethernet address.
LinkProgress == FramesTaken /\ OutputEnds /\ MacFollowsPhy /\ WaitingEndsArp
=============================================================================
