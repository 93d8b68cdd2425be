------------------------------ MODULE MCNetwork ------------------------------
(***************************************************************************)
(* How phones find each other: Networks, AddressWalk and the stun tool.    *)
(* Each behaviour is of one of them (part), and the others rest in an      *)
(* initial state: they share no state. The constants of the cfg have two   *)
(* Wi-Fi interfaces and another one; networks of 8 in an address of 5      *)
(* bits, with any own address; and, for the part "table" of Stun, senders  *)
(* on two ports, more than the table has slots for. A reply has room for   *)
(* two peers, and there are three to tell of.                              *)
(***************************************************************************)
EXTENDS Stun, AddressWalk, Networks

VARIABLE part

all == <<part, vars, networkVars, walkVars>>

(* Senders on one port, over a longer time, and some on both.              *)
Longer == INSTANCE Stun WITH MaxTime <- 4
OnePort == Longer!Tick \/ \E a \in Addresses : Longer!Receive(<<a, 7>>) \/ Longer!Overrun(<<a, 7>>)
TwoPorts == Tick \/ \E s \in Senders : s \in {<<1, 7>>, <<2, 7>>, <<3, 7>>, <<1, 8>>, <<2, 8>>} /\ Receive(s)

ASSUME ConstantsFit ==
    /\ StunAssumption /\ 7 \in Ports /\ Longer!StunAssumption
    /\ NetworksAssumption /\ WalkAssumption

NetworkInit ==
    /\ part \in {"networks", "table", "one port", "walk"}
    /\ Init
    /\ NetworksInit /\ (part # "networks" => kernel = {})
    /\ WalkInit /\ (part # "walk" => address = 2)

NetworkNext ==
    /\ part' = part
    /\ \/ part = "networks" /\ NetworksNext /\ UNCHANGED <<vars, walkVars>>
       \/ part = "table" /\ TwoPorts /\ UNCHANGED <<networkVars, walkVars>>
       \/ part = "one port" /\ OnePort /\ UNCHANGED <<networkVars, walkVars>>
       \/ part = "walk" /\ Probe /\ UNCHANGED <<vars, networkVars>>

NetworkSpec == NetworkInit /\ [][NetworkNext]_all /\ WF_walkVars(part = "walk" /\ Probe)

-----------------------------------------------------------------------------
(* Every other host of the network is probed again and again.              *)
WalkProbes == part = "walk" => AllProbed
=============================================================================
