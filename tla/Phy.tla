--------------------------------- MODULE Phy ---------------------------------
(***************************************************************************)
(* The supervision of the LAN8720, src/lwip/netif/lpc_phy_lan8720.c:       *)
(* net_service calls lpc_phy_sts_sm, which reads the status register, then *)
(* the speed register, over the management interface without waiting, and  *)
(* brings the MAC and the interface in line with what they said.           *)
(*                                                                         *)
(* The PHY and the management interface are external: a read that was      *)
(* started ends some time later with the value of that moment.             *)
(***************************************************************************)
EXTENDS Naturals

CONSTANT MaxChanges   \* bound on the changes of the PHY's status

ASSUME PhyAssumption == MaxChanges \in Nat

VARIABLES
    changes,     \* how often the PHY's status has changed
    phy,         \* the PHY's link and speed mode
    mii,         \* the management interface: register being read, data
    phyustate, sts,
    olddphysts,  \* the status last acted upon
    mac          \* SUPP, MAC2 and IPGT, and the interface's link flag

phyvars == <<changes, phy, mii, phyustate, sts, olddphysts, mac>>

Status == [link : BOOLEAN, fast : BOOLEAN, full : BOOLEAN]

\* lpc_phy_init has read both registers and lpc_update_phy_sts has acted on them.
InitPhy ==
    /\ changes = 0 /\ phy \in Status
    /\ mac \in Status /\ olddphysts = mac
    /\ mii = [busy |-> FALSE, data |-> phy]
    /\ phyustate = 0 /\ sts = phy.link

-----------------------------------------------------------------------------
\* A cable is put in or taken out, or the partner negotiates another mode.
PhyChanges ==
    /\ changes < MaxChanges /\ changes' = changes + 1
    /\ phy' \in Status \ {phy}
    /\ UNCHANGED <<mii, phyustate, sts, olddphysts, mac>>

MiiDone ==
    /\ mii.busy
    /\ mii' = [busy |-> FALSE, data |-> phy]
    /\ UNCHANGED <<changes, phy, phyustate, sts, olddphysts, mac>>

\* lpc_mii_read_noblock
ReadNoblock == mii' = [mii EXCEPT !.busy = TRUE]

\* Mutant: what was acted upon is remembered only when the link changes
lpc_update_phy_sts_forgets(now) ==
    /\ mac' = [k \in DOMAIN mac |-> IF now[k] # olddphysts[k] THEN now[k] ELSE mac[k]]
    /\ olddphysts' = IF now.link # olddphysts.link THEN now ELSE olddphysts
\* lpc_update_phy_sts: each of the three is set where it differs from the last
lpc_update_phy_sts(now) ==
    /\ mac' = [k \in DOMAIN mac |-> IF now[k] # olddphysts[k] THEN now[k] ELSE mac[k]]
    /\ olddphysts' = now

\* lpc_phy_sts_sm
StsSm0 ==
    /\ phyustate = 0 /\ phyustate' = 1
    /\ ReadNoblock
    /\ UNCHANGED <<changes, phy, sts, olddphysts, mac>>
StsSm1 ==
    /\ phyustate = 1 /\ ~mii.busy /\ phyustate' = 2
    /\ sts' = mii.data.link
    /\ ReadNoblock
    /\ UNCHANGED <<changes, phy, olddphysts, mac>>
StsSm2 ==
    /\ phyustate = 2 /\ ~mii.busy /\ phyustate' = 0
    /\ lpc_update_phy_sts([mii.data EXCEPT !.link = sts])
    /\ UNCHANGED <<changes, phy, mii, sts>>
StsSm == StsSm0 \/ StsSm1 \/ StsSm2

NextPhy == PhyChanges \/ MiiDone \/ StsSm
SpecPhy == InitPhy /\ [][NextPhy]_phyvars

-----------------------------------------------------------------------------
(* Properties *)

\* What the MAC and the interface were told is what the driver thinks it told
\* them, so that a change is never taken for none; and a register is being read
\* only while a step waits for it.
MacAsRemembered ==
    /\ mac = olddphysts
    /\ mii.busy => phyustate \in {1, 2}

\* When the PHY settles, speed, duplex and link settle to what it says.
MacFollowsPhy == <>[](mac = phy)
=============================================================================
