----------------------------- MODULE Arithmetic -----------------------------
(***************************************************************************)
(* forms/arithmetic.c, the range coder under all form and text             *)
(* compression, as operators on the range_coder record.                    *)
(*                                                                         *)
(* The registers have Width bits where the code has 32, probabilities Sig  *)
(* bits where it has 24, alphabets of 2^(Sig - 2) symbols or more are      *)
(* split into digits of SplitBits bits where the code uses 16.  The        *)
(* properties depend on how these relate: probabilities are two bits or    *)
(* more shorter than the registers, and the low Width - Sig bits of the    *)
(* space are masked.  Entropy counts and debug output are left out.        *)
(***************************************************************************)
EXTENDS Integers, Sequences, TLC

CONSTANTS Width, Sig, SplitBits,
          Capacity      \* bit_stream_length of an encoder

ASSUME ArithmeticAssumption ==
    /\ Sig \in Nat /\ Width \in Nat /\ SplitBits \in Nat /\ Capacity \in Nat
    /\ 3 <= Sig /\ Sig <= Width - 2 /\ SplitBits < Sig - 2

MAXVALUEPLUS1 == 2 ^ Sig
MAXVALUE == MAXVALUEPLUS1 - 1

Full == 2 ^ Width
Half == 2 ^ (Width - 1)
Quarter == 2 ^ (Width - 2)
Top(v) == v \div Half

-----------------------------------------------------------------------------
\* A range_coder after range_coder_reset; ok is the return code of the last call.
NewCoder ==
    [low |-> 0, high |-> Full - 1, value |-> 0, underflow |-> 0, errors |-> 0,
     bits |-> <<>>, used |-> 0, decoding |-> FALSE, ok |-> TRUE]

\* 0s once all bits are used
NextBit(c) == IF c.used < Len(c.bits) THEN c.bits[c.used + 1] ELSE 0

\* range_emitbit, for several bits: stops at the end of the buffer
EmitBits(c, bs) ==
    LET room == Capacity - Len(c.bits)
    IN [c EXCEPT !.bits = @ \o SubSeq(bs, 1, IF Len(bs) <= room THEN Len(bs) ELSE room),
                 !.ok = Len(bs) <= room]

Repeat(b, n) == [i \in 1 .. n |-> b]

EmitPending_same(c, msb) ==
    LET out == EmitBits(c, <<msb>> \o Repeat(msb, c.underflow))
    IN [out EXCEPT !.underflow = IF out.ok THEN 0 ELSE c.underflow]
(***************************************************************************)
(* A bit and the underflow bits it decides, which are its opposite.  The   *)
(* count of underflow bits is stepped down even by an attempt that fails.  *)
(***************************************************************************)
EmitPending(c, msb) ==
    LET out == EmitBits(c, <<msb>> \o Repeat(1 - msb, c.underflow))
    IN [out EXCEPT !.underflow = IF out.ok THEN 0
                                 ELSE c.underflow - (Capacity - Len(c.bits))]

\* The value register takes the next bit of the stream, in a decoder.
Advance(c, shifted) ==
    IF c.decoding THEN [c EXCEPT !.value = shifted + NextBit(c), !.used = @ + 1] ELSE c

RECURSIVE Rescale(_)
Rescale(c) ==
    IF c.low \div Quarter = 1 /\ c.high \div Quarter = 2
      THEN Rescale([Advance(c, (Top(c.value) * Half) + ((2 * c.value) % Half)) EXCEPT
                       !.low = (2 * @) % Half,
                       !.high = Half + ((2 * @) % Half) + 1,
                       !.underflow = @ + 1])
      ELSE c

RECURSIVE EmitStableBits(_)
EmitStableBits(c) ==
    IF Top(c.low) # Top(c.high) THEN Rescale(c)
    ELSE LET out == IF c.decoding THEN [c EXCEPT !.underflow = 0] ELSE EmitPending(c, Top(c.low))
         IN IF ~out.ok THEN out
            ELSE EmitStableBits([Advance(out, (2 * c.value) % Full) EXCEPT
                                    !.low = (2 * @) % Full,
                                    !.high = ((2 * @) % Full) + 1])

\* The low bits are masked, so that space * p keeps its exact quotient.
RangeSpace(c) == LET s == c.high - c.low IN s - (s % (2 ^ (Width - Sig)))

\* range_calc_new_range, when the space is large enough
NewRange(c, p) ==
    LET at(q) == c.low + ((q * RangeSpace(c)) \div MAXVALUEPLUS1)
    IN [low |-> at(p[1]), high |-> IF p[2] >= MAXVALUEPLUS1 THEN c.high ELSE at(p[2]) - 1]

RangeEncode(c, p) ==
    IF p[1] > p[2] \/ p[1] > MAXVALUE \/ p[2] > MAXVALUEPLUS1 THEN [c EXCEPT !.ok = FALSE]
    ELSE IF RangeSpace(c) < MAXVALUEPLUS1 THEN [c EXCEPT !.ok = FALSE, !.errors = @ + 1]
    ELSE EmitStableBits([c EXCEPT !.low = NewRange(c, p).low, !.high = NewRange(c, p).high, !.ok = TRUE])

\* The probabilities of a symbol; the frequencies are those of the symbols before.
SymbolRange(f, s) ==
    <<IF s = 0 THEN 0 ELSE f[s], IF s < Len(f) THEN f[s + 1] ELSE MAXVALUEPLUS1>>

EquiprobableRange(n, s) ==
    <<(s * MAXVALUE) \div n, IF s = n - 1 THEN MAXVALUE ELSE ((s + 1) * MAXVALUE) \div n>>

SplitFrom == 2 ^ (Sig - 2)
Digit == 2 ^ SplitBits

RECURSIVE EncodeEquiprobable(_, _, _)
EncodeEquiprobable(c, n, s) ==
    IF n >= SplitFrom
      THEN LET high == EncodeEquiprobable(c, 1 + (n \div Digit), s \div Digit)
           IN [EncodeEquiprobable(high, Digit, s % Digit) EXCEPT !.ok = TRUE]
    ELSE IF n < 1 THEN [c EXCEPT !.ok = TRUE]
    ELSE RangeEncode(c, EquiprobableRange(n, s))

EncodeSymbol(c, f, s) ==
    IF c.errors > 0 THEN [c EXCEPT !.ok = FALSE] ELSE RangeEncode(c, SymbolRange(f, s))

-----------------------------------------------------------------------------
\* The number of bits after the first that place a value in low .. high.
ConcludeBits(low, high) ==
    LET mean == low + ((high - low) \div 2)
        floor(n) == mean - (mean % (2 ^ (Width - n)))
        enough(n) == low <= floor(n) /\ floor(n) + (2 ^ (Width - n)) - 1 <= high
    IN IF low = 0 /\ high = Full - 1 THEN 0
       ELSE CHOOSE n \in 1 .. Width : enough(n) /\ \A k \in 1 .. n - 1 : ~enough(k)

\* The interval conclude looks into, once the first bit is out.
ConcludeRange(c) ==
    [low |-> (2 * c.low) % Half, high |-> Half + ((2 * c.high) % Half) + 1]

Conclude(c) ==
    LET out == EmitPending(c, Top(c.low + ((c.high - c.low) \div 2)))
        r == ConcludeRange(c)
        mean == r.low + ((r.high - r.low) \div 2)
    IN IF ~out.ok THEN out
       ELSE EmitBits(out, [i \in 1 .. ConcludeBits(r.low, r.high) |-> (mean \div (2 ^ (Width - i))) % 2])

-----------------------------------------------------------------------------
\* range_check of a decoder
InRange(c) == c.low < c.high /\ c.low <= c.value /\ c.value <= c.high

DecodeCommon(c, p) ==
    IF ~InRange(c) THEN [c EXCEPT !.ok = FALSE]
    ELSE IF RangeSpace(c) < MAXVALUEPLUS1 THEN [c EXCEPT !.ok = FALSE, !.errors = @ + 1]
    ELSE LET r == NewRange(c, p)
         IN IF c.value \notin r.low .. r.high THEN [c EXCEPT !.ok = FALSE]
            ELSE IF r.low >= r.high THEN [c EXCEPT !.low = r.low, !.high = r.high, !.ok = FALSE]
            ELSE EmitStableBits([c EXCEPT !.low = r.low, !.high = r.high, !.ok = TRUE])

Failed == -1
Decoded(c, s) == [coder |-> c, symbol |-> IF c.ok THEN s ELSE Failed]

DecodeSymbol(c, f) ==
    LET boundary(i) == c.low + ((f[i] * RangeSpace(c)) \div MAXVALUEPLUS1)
        below == {s \in 0 .. Len(f) - 1 : c.value < boundary(s + 1)}
        s == IF below = {} THEN Len(f) ELSE CHOOSE a \in below : \A b \in below : a <= b
    IN Decoded(DecodeCommon(c, SymbolRange(f, s)), s)

RECURSIVE DecodeAmong(_, _, _, _)
\* The first of s .. last whose range holds the value.
DecodeAmong(c, n, s, last) ==
    LET d == DecodeCommon(c, EquiprobableRange(n, s))
    IN IF s > last THEN [coder |-> c, symbol |-> Failed]
       ELSE IF d.ok THEN Decoded(d, s)
       ELSE DecodeAmong(d, n, s + 1, last)

RECURSIVE DecodeEquiprobable(_, _)
DecodeEquiprobable(c, n) ==
    IF n >= SplitFrom
      THEN LET high == DecodeEquiprobable(c, 1 + (n \div Digit))
               low == DecodeEquiprobable(high.coder, Digit)
           IN [coder |-> low.coder,
               symbol |-> IF Failed \in {high.symbol, low.symbol} THEN Failed
                          ELSE (high.symbol * Digit) + low.symbol]
    ELSE IF n < 1 THEN [coder |-> c, symbol |-> 0]
    ELSE LET s == ((c.value - c.low) * n) \div RangeSpace(c)
             first == IF s > 0 THEN s - 1 ELSE 0
             last == IF s + 1 < n THEN s + 1 ELSE n - 1
         IN DecodeAmong(c, n, first, last)

RECURSIVE Prefetched(_, _)
Prefetched(c, n) == IF n = 0 THEN c ELSE Prefetched(Advance(c, (2 * c.value) % Full), n - 1)
\* range_decode_prefetch on the bits of another coder
Prefetch(bits) == Prefetched([NewCoder EXCEPT !.bits = bits, !.decoding = TRUE], Width)
=============================================================================
