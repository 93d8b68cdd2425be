------------------------------ MODULE PackUint ------------------------------
(***************************************************************************)
(* pack_uint and unpack_uint of storage.cpp, with which a phone tells the  *)
(* version and the length of a file: groups of Group bits, the lowest      *)
(* first, with a flag on all but the last.  unpack_uint shifts a group as  *)
(* an int of Width bits and then widens it to 64 bits, so a group that     *)
(* reaches the sign bit comes out with all higher bits set.  The code has  *)
(* Group = 7, Width = 32 and a variable of 64 bits; here that has Wide     *)
(* bits.  The message has Room bytes for each of the two numbers.          *)
(***************************************************************************)
EXTENDS Integers, Sequences

CONSTANTS Group, Width, Wide, Room,
          MaxValue    \* bound: the numbers that are packed

PackAssumption ==
    /\ {Group, Width, Wide, Room, MaxValue} \subseteq Nat \ {0}
    /\ Group < Width /\ Width < Wide

VARIABLES v, out

Base == 2 ^ Group

\* A byte is its value and whether another one follows.
RECURSIVE pack_uint(_)
pack_uint(n) ==
    IF n < Base THEN <<[bits |-> n, more |-> FALSE]>>
    ELSE <<[bits |-> n % Base, more |-> TRUE]>> \o pack_uint(n \div Base)

\* bits << (i * Group) as an int, then as an unsigned number of Wide bits.
Shifted(bits, i) ==
    LET int == (bits * 2 ^ (i * Group)) % (2 ^ Width)
    IN IF int < 2 ^ (Width - 1) THEN int ELSE (2 ^ Wide - 2 ^ Width) + int

\* The bits of two numbers that share none add up.
RECURSIVE unpack_uint(_, _)
unpack_uint(buffer, i) ==
    IF i > Len(buffer) THEN [used |-> 0 - 1, v |-> 0]
    ELSE LET here == Shifted(buffer[i].bits, i - 1)
             rest == unpack_uint(buffer, i + 1)
         IN IF ~buffer[i].more THEN [used |-> i, v |-> here]
            ELSE [used |-> rest.used, v |-> here + rest.v]

Init == v \in 0 .. MaxValue /\ out = << >>

\* What follows in the message is not read.
Next == out = << >> /\ out' = unpack_uint(pack_uint(v) \o <<[bits |-> 1, more |-> FALSE]>>, 1) /\ UNCHANGED v

Spec == Init /\ [][Next]_<<v, out>>

\* The receiver reads the number that was sent and goes on with the byte after it, and
\* the number fits into its part of the message, for every length below the sign bit.
RoundTrip ==
    /\ Len(pack_uint(v)) <= Room
    /\ out # << >> => out.v = v /\ out.used = Len(pack_uint(v))
=============================================================================
