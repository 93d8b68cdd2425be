--------------------------- MODULE Interpolative ----------------------------
(***************************************************************************)
(* forms/gsinterpolative.c: a strictly ascending list of numbers is coded  *)
(* middle first, each number within the limits that the numbers already    *)
(* coded around it leave.  One source, included twice, is the encoder and  *)
(* the decoder; here both walk the same tree with the coder of Arithmetic. *)
(***************************************************************************)
EXTENDS Arithmetic, SequencesExt

CONSTANTS MaxLength, MaxValue   \* bounds: numbers in a list, and their size

VARIABLES list,     \* what the encoder is given
          bits,     \* its bit stream
          out,      \* what the decoder has filled in
          phase

vars == <<list, bits, out, phase>>

\* biggest_power_of_2: strictly less than v, which is 2 or more
BiggestPowerOf2(v) == 2 ^ (CHOOSE k \in 0 .. v : 2 ^ k < v /\ v <= 2 ^ (k + 1))

(***************************************************************************)
(* doc_low and doc_high for entry p (from 0) between the entries lo and    *)
(* hi, which are coded or lie outside the list.                            *)
(***************************************************************************)
Limits(l, lo, p, hi) ==
    [low |-> (IF lo > -1 THEN l[lo + 1] + 1 ELSE 0) + (p - lo - 1),
     high |-> (IF hi < Len(l) THEN l[hi + 1] - 1 ELSE MaxValue + (hi - Len(l))) - (hi - p - 1)]

\* binary_encode
BinaryEncode(c, r, v) == EncodeEquiprobable(c, (r.high - r.low) + 1, v - r.low)

RECURSIVE EncodeRecursive(_, _, _, _, _, _)
\* ic_encode_recursive_r
EncodeRecursive(l, c, lo, p, hi, step) ==
    LET here == IF p < Len(l) THEN BinaryEncode(c, Limits(l, lo, p, hi), l[p + 1]) ELSE c
        half == step \div 2
        left == EncodeRecursive(l, here, lo, p - half, p, half)
    IN IF lo >= Len(l) THEN c
       ELSE IF step <= 1 THEN here
       ELSE EncodeRecursive(l, left, p, p + half, hi, half)

RECURSIVE DecodeRecursive(_, _, _, _, _)
\* ic_decode_recursive_r, on a record of the list filled so far and the coder
DecodeRecursive(d, lo, p, hi, step) ==
    LET n == Len(d.list)
        r == Limits(d.list, lo, p, hi)
        got == DecodeEquiprobable(d.coder, (r.high - r.low) + 1)
        here == IF p < n THEN [list |-> [d.list EXCEPT ![p + 1] = got.symbol + r.low], coder |-> got.coder]
                ELSE d
        half == step \div 2
        left == DecodeRecursive(here, lo, p - half, p, half)
    IN IF lo >= n THEN d
       ELSE IF step <= 1 THEN here
       ELSE DecodeRecursive(left, p, p + half, hi, half)

\* ic_encode_recursive
Encode(l, c) ==
    LET b == BiggestPowerOf2(Len(l) + 1) IN EncodeRecursive(l, c, -1, b - 1, Len(l) + 1, b)

\* ic_decode_recursive, into n entries
Decode(n, c) ==
    LET b == BiggestPowerOf2(n + 1)
    IN DecodeRecursive([list |-> [i \in 1 .. n |-> 0], coder |-> c], -1, b - 1, n + 1, b)

-----------------------------------------------------------------------------
Init == list = <<>> /\ bits = <<>> /\ out = <<>> /\ phase = "encode"

\* The list is ascending by construction, as the code requires of its callers.
Extend(v) ==
    /\ phase = "encode"
    /\ Len(list) < MaxLength
    /\ list # <<>> => Last(list) < v
    /\ list' = Append(list, v)
    /\ UNCHANGED <<bits, out, phase>>

EncodeList ==
    /\ phase = "encode" /\ list # <<>>
    /\ bits' = Conclude(Encode(list, NewCoder)).bits
    /\ phase' = "decode"
    /\ UNCHANGED <<list, out>>

DecodeList ==
    /\ phase = "decode"
    /\ out' = Decode(Len(list), Prefetch(bits)).list
    /\ phase' = "done"
    /\ UNCHANGED <<list, bits>>

Next == (\E v \in 0 .. MaxValue : Extend(v)) \/ EncodeList \/ DecodeList

Spec == Init /\ [][Next]_vars

-----------------------------------------------------------------------------
(***************************************************************************)
(* The decoder fills in exactly the list that was encoded, whatever the    *)
(* length of the list is to the powers of two the walk is made of.         *)
(***************************************************************************)
ListRoundTrip == phase = "done" => out = list
=============================================================================
