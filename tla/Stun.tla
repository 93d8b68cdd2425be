-------------------------------- MODULE Stun --------------------------------
(***************************************************************************)
(* stun.c, the command line tool that tells the sender of a broadcast      *)
(* packet of the other peers it has heard on the same source port.         *)
(*                                                                         *)
(* A sender is an address and a port.  The length field of a reply is      *)
(* computed from the number of addresses as in the code, with Entry bytes  *)
(* per address and bytes of Byte values.  A reply of more than Buffer      *)
(* bytes is written past the end of buff, which nothing checks: what the   *)
(* tool does from then on is not known, and the model ends there.          *)
(***************************************************************************)
EXTENDS Integers, FiniteSets, SequencesExt

CONSTANTS Addresses, Ports,
          STUN_ADDRS,  \* slots of the table
          Recent,      \* how long a peer is told about, in clock ticks
          Header, Entry, \* bytes of a reply before the addresses, and of each of them
          Buffer,      \* bytes of buff
          Byte,        \* values of a byte
          MaxTime      \* bound: ticks of the clock

\* No packet comes from port 0, which marks a slot that is free.
StunAssumption ==
    /\ STUN_ADDRS \in Nat \ {0} /\ Recent \in Nat /\ 0 \notin Ports
    /\ Header \in Nat /\ Entry \in Nat /\ Buffer \in Nat /\ Byte \in Nat \ {0} /\ MaxTime \in Nat

VARIABLES heard,    \* the table: who was heard and when, per slot
          now,      \* gettimeofday
          reply,    \* the last reply: addresses and length field, and whom it answers
          overrun,  \* whether a reply was written past the end of buff
          last      \* history: when each sender was last heard

vars == <<heard, now, reply, overrun, last>>

Senders == Addresses \X Ports
Slots == 1 .. STUN_ADDRS
Never == -1

Free == [addr |-> 0, port |-> 0, time |-> Never]
NoReply == [to |-> Free, addrs |-> <<>>, length |-> 0]

Init ==
    /\ heard = [i \in Slots |-> Free]
    /\ now = 0
    /\ reply = NoReply
    /\ overrun = FALSE
    /\ last = [s \in Senders |-> Never]

Matches(i, s) == heard[i].addr = s[1] /\ heard[i].port = s[2]

Copied_young(i, s) == ~Matches(i, s) /\ heard[i].port = s[2] /\ now - heard[i].time < Recent
\* A slot that is copied into the packet: same port, heard within ten seconds.
Copied(i, s) == ~Matches(i, s) /\ heard[i].port = s[2] /\ now - heard[i].time <= Recent

\* The slots that are copied do not fit buff.
Overruns(s) == Header + Entry * Cardinality({i \in Slots : Copied(i, s)}) > Buffer

\* The slots in the packet, in the order of the loop over the table.
Told(s) ==
    LET told[i \in 0 .. STUN_ADDRS] ==
            IF i = 0 THEN << >> ELSE IF Copied(i, s) THEN Append(told[i - 1], i) ELSE told[i - 1]
    IN told[STUN_ADDRS]

SlotFor_first(s) ==
    LET spare == {i \in Slots : ~Copied(i, s)}
    IN {i \in spare : \A j \in spare : i <= j}
(***************************************************************************)
(* found: the sender's own slot (the last of them, were there several), or *)
(* else the first slot that is not copied into the packet.                 *)
(***************************************************************************)
SlotFor(s) ==
    LET own == {i \in Slots : Matches(i, s)}
        spare == {i \in Slots : ~Matches(i, s) /\ ~Copied(i, s)}
    IN IF own # {} THEN {i \in own : \A j \in own : j <= i}
       ELSE {i \in spare : \A j \in spare : i <= j}

\* buff[1]=(len << 8) & 0xFF, buff[2]=len & 0xFF, read as a big endian number
LengthField(n) == (((n * Byte) % Byte) * Byte) + (n % Byte)

\* One turn of the loop of main: a packet from s that is not a reply itself.
Receive(s) ==
    LET told == Told(s)
        addrs == [k \in DOMAIN told |-> heard[told[k]].addr]
        here == [addr |-> s[1], port |-> s[2], time |-> now]
    IN /\ ~overrun /\ ~Overruns(s)
       /\ heard' = [i \in Slots |-> IF i \in SlotFor(s) THEN here ELSE heard[i]]
       /\ reply' = IF addrs = <<>> THEN NoReply
                   ELSE [to |-> here, addrs |-> addrs, length |-> LengthField(Entry * Len(addrs))]
       /\ last' = [last EXCEPT ![s] = now]
       /\ UNCHANGED <<now, overrun>>

\* The same with more peers than buff has room for.
Overrun(s) ==
    /\ ~overrun /\ Overruns(s)
    /\ overrun' = TRUE
    /\ UNCHANGED <<heard, now, reply, last>>

Tick ==
    /\ now < MaxTime
    /\ now' = now + 1
    /\ UNCHANGED <<heard, reply, overrun, last>>

Next == Tick \/ \E s \in Senders : Receive(s) \/ Overrun(s)

Spec == Init /\ [][Next]_vars

-----------------------------------------------------------------------------
\* The state has the shape that the code gives it.
TypeOK ==
    /\ heard \in [Slots -> {Free} \cup [addr : Addresses, port : Ports, time : 0 .. now]]
    /\ now \in Nat /\ overrun \in BOOLEAN /\ last \in [Senders -> Never .. now]
    /\ ToSet(reply.addrs) \subseteq Addresses

(***************************************************************************)
(* No sender has two slots, so that no address is told twice, and what a   *)
(* slot says of a sender is the last that was heard of it.                 *)
(***************************************************************************)
OneSlotEach ==
    \A i, j \in Slots, s \in Senders :
       Matches(i, s) => /\ heard[i].time = last[s]
                        /\ Matches(j, s) => i = j

Heard == {s \in Senders : last[s] # Never}

\* buff is written past its end only after more peers were heard than it holds, 204.
FewFit == overrun => Header + Entry * Cardinality(Heard) > Buffer

(***************************************************************************)
(* The table is right: types, one slot each, and no reply is too long      *)
(* before that many peers were heard.                                      *)
(***************************************************************************)
TableRight == TypeOK /\ OneSlotEach /\ FewFit

\* The senders on the port of s, other than s, that were heard within ten seconds.
Known(s) == {a \in Addresses \ {s[1]} : last[<<a, s[2]>>] # Never /\ now - last[<<a, s[2]>>] <= Recent}

\* There is a slot for everybody who was ever heard, and all use one port.
Roomy == Cardinality(Heard) <= STUN_ADDRS /\ \A s, t \in Heard : s[2] = t[2]

(***************************************************************************)
(* A reply names only peers that were heard on the same port within ten    *)
(* seconds, and never the one that asks; and all of them while there is a  *)
(* slot for everybody, all use one port and the reply fits buff, which     *)
(* Receive requires (a table of 255 slots may hold 51 more than it does).  *)
(***************************************************************************)
RepliesRight ==
    [][/\ reply' # reply =>
             ToSet(reply'.addrs) \subseteq (IF reply' = NoReply THEN {}
                                            ELSE Known(<<reply'.to.addr, reply'.to.port>>))
       /\ Roomy => \A s \in Senders : Receive(s) => Known(s) \subseteq ToSet(reply'.addrs)]_vars

(***************************************************************************)
(* "replies with the address of other peers that have sent a broadcast     *)
(* packet from the same source port within the last 10 seconds": every     *)
(* packet is answered with all of them.                                    *)
(***************************************************************************)
RepliesComplete ==
    [][\A s \in Senders : Receive(s) => Known(s) \subseteq ToSet(reply'.addrs)]_vars

\* "[ 2 byte, big endian length ]": the length field is the length of what follows.
LengthTold == reply.length = Entry * Len(reply.addrs)
=============================================================================
