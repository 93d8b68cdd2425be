----------------------------- MODULE RangeCoder -----------------------------
(***************************************************************************)
(* A message through the range coder of Arithmetic: symbols are encoded,   *)
(* the coder is concluded and the bits are decoded with the same models.   *)
(* Callers that ignore a return code are allowed: symbols are encoded      *)
(* after an error too.                                                     *)
(***************************************************************************)
EXTENDS Arithmetic

CONSTANTS Models,       \* cumulative frequencies, as the arguments of encode_symbol
          Alphabets,    \* sizes for encode_equiprobable
          MaxSymbols    \* bound: symbols per message

ASSUME RangeCoderAssumption ==
    /\ \A f \in Models : \A i \in 1 .. Len(f) :
          f[i] \in 1 .. MAXVALUE /\ \A j \in 1 .. i - 1 : f[j] < f[i]
    /\ Alphabets \subseteq Nat

VARIABLES enc,      \* the encoding range_coder
          told,     \* the symbols given to it, with their models
          phase,    \* "encoding", "failed", "decoding"
          dec,      \* the decoding range_coder
          heard     \* the symbols that were decoded

vars == <<enc, told, phase, dec, heard>>

-----------------------------------------------------------------------------
Init ==
    /\ enc = NewCoder
    /\ told = <<>>
    /\ phase = "encoding"
    /\ dec = NewCoder
    /\ heard = <<>>

\* The caller encodes one more symbol, whatever became of the one before.
EncodeOne ==
    /\ phase = "encoding"
    /\ Len(told) < MaxSymbols
    /\ \/ \E f \in Models : \E s \in 0 .. Len(f) :
             /\ enc' = EncodeSymbol(enc, f, s)
             /\ told' = Append(told, [freqs |-> f, size |-> 0, symbol |-> s])
       \/ \E n \in Alphabets : \E s \in {0} \cup 0 .. n - 1 :
             /\ enc' = EncodeEquiprobable(enc, n, s)
             /\ told' = Append(told, [freqs |-> <<>>, size |-> n, symbol |-> s])
    /\ UNCHANGED <<phase, dec, heard>>

\* range_conclude, and the bits are handed to a decoder if it succeeds.
ConcludeAll ==
    /\ phase = "encoding"
    /\ LET c == Conclude(enc)
       IN /\ enc' = c
          /\ phase' = IF c.ok THEN "decoding" ELSE "failed"
          /\ dec' = IF c.ok THEN Prefetch(c.bits) ELSE dec
    /\ UNCHANGED <<told, heard>>

\* The decoder knows which model comes next, and decodes one symbol.
DecodeOne ==
    /\ phase = "decoding"
    /\ Len(heard) < Len(told)
    /\ LET next == told[Len(heard) + 1]
           d == IF next.freqs # <<>> THEN DecodeSymbol(dec, next.freqs)
                ELSE DecodeEquiprobable(dec, next.size)
       IN /\ dec' = d.coder
          /\ heard' = Append(heard, d.symbol)
    /\ UNCHANGED <<enc, told, phase>>

Next == EncodeOne \/ ConcludeAll \/ DecodeOne

Spec == Init /\ [][Next]_vars

-----------------------------------------------------------------------------
TypeOK ==
    /\ {enc.low, enc.high, dec.low, dec.high, dec.value} \subseteq 0 .. Full - 1
    /\ enc.underflow \in -1 .. MaxSymbols * Width
    /\ Len(enc.bits) <= Capacity

(***************************************************************************)
(* While there is room for the bits, every encoded symbol leaves an        *)
(* interval that straddles the middle without underflow and has space for  *)
(* the next symbol, so that range_calc_new_range never reports an error.   *)
(***************************************************************************)
SpaceLeft ==
    phase = "encoding" /\ Len(enc.bits) < Capacity
        => /\ RangeSpace(enc) >= MAXVALUEPLUS1
           /\ enc.errors = 0
           /\ enc.low < Half /\ Half <= enc.high

(***************************************************************************)
(* When range_conclude succeeds the decoder gets back exactly the symbols, *)
(* although the callers ignored all return codes and although the second   *)
(* half of a split symbol hides the error of the first.                    *)
(***************************************************************************)
RoundTrip ==
    \A i \in DOMAIN heard : heard[i] = told[i].symbol

\* The assertion range_check makes of a decoder holds after every symbol.
DecoderInRange == phase = "decoding" => InRange(dec)

(***************************************************************************)
(* "Actually, apparently 2 bits is always the correct answer, because      *)
(* normalisation means that we always have 2 uncommitted bits in play":    *)
(* range_conclude needs at most two bits after the first.                  *)
(***************************************************************************)
TwoBitsConclude ==
    phase = "encoding" /\ enc.ok
        => ConcludeBits(ConcludeRange(enc).low, ConcludeRange(enc).high) <= 2
=============================================================================
