------------------------------ MODULE Networks ------------------------------
(***************************************************************************)
(* The network interfaces of a phone: networks.cpp listens on a netlink    *)
(* socket, Networks.java keeps the Wi-Fi interfaces and sends heartbeats   *)
(* on them while there are any.  The callbacks of the socket and of the    *)
(* alarm run on one background thread; the kernel changes addresses at any *)
(* time.                                                                   *)
(*                                                                         *)
(* A message of the socket has the label of the interface and the address; *)
(* loopback addresses and messages without a label, which are passed over, *)
(* are left out.                                                           *)
(***************************************************************************)
EXTENDS Integers, Sequences, FiniteSets, SequencesExt

CONSTANTS Wifi, Other,   \* labels of interfaces
          Addrs,
          MaxChanges     \* bound: addresses that the kernel adds or removes

NetworksAssumption == Wifi \cap Other = {} /\ MaxChanges \in Nat

VARIABLES
    kernel,      \* addresses of the interfaces
    pc,          \* where jni_networks_poll is
    sock,        \* datagrams of the netlink socket
    networks,    \* Networks.networks
    alarm,       \* the heartbeat alarm is set
    reached,     \* interfaces that got a whole packet with the last heartbeat
    changes

networkVars == <<kernel, pc, sock, networks, alarm, reached, changes>>

Names == Wifi \cup Other
Address == Names \X Addrs

RTM_NEWADDR(x) == [type |-> "NEWADDR", name |-> x[1], addr |-> x[2]]
RTM_DELADDR(x) == [type |-> "DELADDR", name |-> x[1], addr |-> x[2]]
NLMSG_DONE == [type |-> "DONE", name |-> "none", addr |-> 0]

-----------------------------------------------------------------------------
\* The kernel tells everybody who is bound to the group.
Tells(msg) == IF pc = "start" THEN UNCHANGED sock ELSE sock' = Append(sock, <<msg>>)

AddAddress(x) ==
    /\ x \notin kernel /\ changes < MaxChanges
    /\ kernel' = kernel \cup {x} /\ changes' = changes + 1
    /\ Tells(RTM_NEWADDR(x))
    /\ UNCHANGED <<pc, networks, alarm, reached>>

DelAddress(x) ==
    /\ x \in kernel /\ changes < MaxChanges
    /\ kernel' = kernel \ {x} /\ changes' = changes + 1
    /\ Tells(RTM_DELADDR(x))
    /\ UNCHANGED <<pc, networks, alarm, reached>>

netlink_socket ==
    /\ pc = "start"
    /\ pc' = "bound"
    /\ UNCHANGED <<kernel, sock, networks, alarm, reached, changes>>

\* The kernel answers with all the addresses it has.
request_addresses ==
    /\ pc = "bound"
    /\ pc' = "polling"
    /\ \E order \in SetToSeqs(kernel) :
          sock' = Append(sock, [i \in DOMAIN order |-> RTM_NEWADDR(order[i])] \o <<NLMSG_DONE>>)
    /\ UNCHANGED <<kernel, networks, alarm, reached, changes>>

-----------------------------------------------------------------------------
\* s has the networks and the alarm.  setAlarm does nothing without a network.
SetAlarm(s) == [s EXCEPT !.alarm = @ \/ DOMAIN s.networks # {}]

onAdd(s, name, addr) ==
    IF name \notin Wifi THEN s
    ELSE SetAlarm([s EXCEPT !.networks = [n \in DOMAIN @ \cup {name} |-> IF n = name THEN addr ELSE @[n]]])

onRemove_bugNoCheck(s, name) ==
    [networks |-> [n \in DOMAIN s.networks \ {name} |-> s.networks[n]], alarm |-> FALSE]
onRemove(s, name) ==
    LET left == [n \in DOMAIN s.networks \ {name} |-> s.networks[n]]
    IN IF name \notin DOMAIN s.networks THEN s
       ELSE [networks |-> left, alarm |-> s.alarm /\ DOMAIN left # {}]

Handle(s, msg) ==
    CASE msg.type = "NEWADDR" -> onAdd(s, msg.name, msg.addr)
      [] msg.type = "DELADDR" -> onRemove(s, msg.name)
      [] OTHER -> s

\* The messages of one datagram; NLMSG_DONE, where the loop stops, is the last of the answer.
read_addresses ==
    LET msgs == Head(sock)
        loop[i \in 0 .. Len(msgs)] ==
            IF i = 0 THEN [networks |-> networks, alarm |-> alarm] ELSE Handle(loop[i - 1], msgs[i])
        s == loop[Len(msgs)]
    IN /\ pc = "polling" /\ sock # << >>
       /\ sock' = Tail(sock)
       /\ networks' = s.networks /\ alarm' = s.alarm
       /\ UNCHANGED <<kernel, pc, reached, changes>>

\* The heartbeat goes to the broadcast address of each interface.  send() leaves nothing
\* in the buffer, so all but the first get an empty packet.
onAlarm ==
    /\ alarm
    /\ IF DOMAIN networks = {} THEN alarm' = FALSE /\ UNCHANGED reached
       ELSE alarm' = TRUE /\ \E first \in DOMAIN networks : reached' = {first}
    /\ UNCHANGED <<kernel, pc, sock, networks, changes>>

NetworksInit ==
    /\ kernel \in {{}} \cup {{x} : x \in Address}
    /\ pc = "start" /\ sock = << >>
    /\ networks = << >> /\ alarm = FALSE /\ reached = {} /\ changes = 0

NetworksNext ==
    \/ \E x \in Address : AddAddress(x) \/ DelAddress(x)
    \/ netlink_socket \/ request_addresses \/ read_addresses
    \/ onAlarm

NetworksSpec == NetworksInit /\ [][NetworksNext]_networkVars

-----------------------------------------------------------------------------
\* The state has the shape that the code gives it.
NetworksTypeOK ==
    /\ kernel \subseteq Address
    /\ DOMAIN networks \subseteq Wifi /\ \A n \in DOMAIN networks : networks[n] \in Addrs
    /\ alarm \in BOOLEAN /\ reached \subseteq Wifi
    /\ pc \in {"start", "bound", "polling"}

UpToDate == pc = "polling" /\ sock = << >>

\* When all messages of the kernel have been read, every address that is used for
\* heartbeats and probes is one that its interface has, in whatever order addresses came
\* and went before, during and after the first request.
NeverStale == UpToDate => \A n \in DOMAIN networks : <<n, networks[n]>> \in kernel

\* An interface that is alone and keeps its address is found, also when it came up between
\* opening the socket and asking for the addresses.
LoneFound ==
    UpToDate /\ changes <= 1 =>
        \A n \in Wifi : (\E a \in Addrs : <<n, a>> \in kernel) => n \in DOMAIN networks

\* While there is a network there will be another heartbeat.
HeartbeatsGoOn == DOMAIN networks # {} => alarm

\* What is kept of the interfaces is right: types, and the three above.
InterfacesRight == NetworksTypeOK /\ NeverStale /\ LoneFound /\ HeartbeatsGoOn

\* "Once a network connection has been established, additional team members should be
\* able to discover and join the team", README.md: an interface with an address is used.
InterfaceUsed ==
    UpToDate => \A x \in kernel : x[1] \in Wifi => x[1] \in DOMAIN networks

\* The same, of the heartbeats: they reach every network.
HeartbeatEverywhere == [][reached' # reached => reached' = DOMAIN networks]_networkVars
=============================================================================
