---------------------------- MODULE AddressWalk ----------------------------
(***************************************************************************)
(* IPInterface.java: with every heartbeat a phone probes the next address  *)
(* of its network, going down.  An address is a number of Bits bits, 32 in *)
(* the code, kept as bytes that decr decreases with borrow; the network is *)
(* the Hosts numbers from Hosts * net on, with the network address first   *)
(* and the broadcast address last.                                         *)
(***************************************************************************)
EXTENDS Integers

CONSTANTS Bits, Hosts

WalkAssumption ==
    /\ Bits \in Nat /\ 2 ^ Bits \in Nat \ {0}
    /\ Hosts \in Nat /\ Hosts > 3 /\ (2 ^ Bits) % Hosts = 0

VARIABLES address, nextAddr

walkVars == <<address, nextAddr>>

firstAddr == (address \div Hosts) * Hosts
broadcastAddr == firstAddr + Hosts - 1

decr(a) == (a - 1 + 2 ^ Bits) % (2 ^ Bits)

nextAddress_bugOwn ==
    LET down == decr(nextAddr)
    IN IF down = firstAddr THEN decr(broadcastAddr) ELSE down
nextAddress_bugTwice ==
    LET down == decr(nextAddr)
        turned == IF down = firstAddr THEN decr(decr(broadcastAddr)) ELSE down
    IN IF turned = address THEN decr(turned) ELSE turned
\* At the network address the walk goes on from the broadcast address.  The phone's own
\* address is passed over last.
nextAddress ==
    LET down == decr(nextAddr)
        turned == IF down = firstAddr THEN decr(broadcastAddr) ELSE down
    IN IF turned = address THEN decr(turned) ELSE turned

isInSubnet(a) == a \div Hosts = address \div Hosts

WalkInit ==
    /\ \E net \in 0 .. (2 ^ Bits \div Hosts) - 1, own \in 1 .. (Hosts - 2) : address = Hosts * net + own
    /\ nextAddr = address

Probe == nextAddr' = nextAddress /\ UNCHANGED address

\* Heartbeats go on while the network is up.
WalkSpec == WalkInit /\ [][Probe]_walkVars /\ WF_walkVars(Probe)

-----------------------------------------------------------------------------
Probeable(a) == isInSubnet(a) /\ a \notin {firstAddr, broadcastAddr, address}

(***************************************************************************)
(* "walk the address range of each interface", Networks.java: every        *)
(* address that is probed is a host of the network, and none is the phone  *)
(* itself.  Not so for a phone that has the first address of its network:  *)
(* passing over itself it probes the network address and then leaves the   *)
(* network, and comes back after all the addresses there are.              *)
(***************************************************************************)
First == address = firstAddr + 1
InRange == [][First \/ Probeable(nextAddr')]_walkVars

\* Every other host of the network is probed again and again.
AllProbed ==
    \A h \in 1 .. (Hosts - 2) : (h = address % Hosts) \/ []<>(nextAddr = firstAddr + h)
=============================================================================
