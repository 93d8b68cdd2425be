----------------------------- MODULE FieldCodec -----------------------------
(***************************************************************************)
(* recipe_encode_field of forms/recipe_compress.c: how the value of one    *)
(* form field becomes symbols for the range coder.                         *)
(*                                                                         *)
(* A value is what the code has parsed out of the text of the field: a     *)
(* record of numbers, a label, a set of labels or bytes.  A text is opaque *)
(* (Smac), and has a length; stats3_compress_append takes it or not.  Two  *)
(* values of the same field are encoded and compared.                      *)
(***************************************************************************)
EXTENDS Integers, Sequences, SequencesExt

CONSTANTS Fields,       \* [type, min, max, precision, labels]
          Values(_),    \* the values to try for a field
          Uninit        \* what an uninitialised int may hold

VARIABLES field, one, two      \* the field, and two encodings [value, ok, ev]:
                               \* ev is what is given to the range coder

vars == <<field, one, two>>

Symbol(n, s) == [kind |-> "symbol", n |-> n, s |-> s]
Text(v, n) == [kind |-> "text", n |-> n, s |-> v]
Fail == [ok |-> FALSE, ev |-> <<>>]
Encoded(ev) == [ok |-> TRUE, ev |-> ev]
Bytes(b) == [i \in DOMAIN b |-> Symbol(256, b[i])]
Missing == -1000     \* a number that is not in the text

-----------------------------------------------------------------------------
(***************************************************************************)
(* A number, or the escape symbol and the text of a number that is out of  *)
(* range.  The number after the largest still passes the check, and has    *)
(* the escape symbol for its own.                                          *)
(***************************************************************************)
IntegerField(f, v) ==
    LET x == v - f.min
        top == f.max - f.min
    IN IF f.max <= f.min THEN Fail
       ELSE IF x < 0 \/ x > top + 1 THEN Encoded(<<Symbol(top + 2, top + 1), Text(v, 1)>>)
       ELSE Encoded(<<Symbol(top + 2, x)>>)

\* Sign, exponent of frexp, and three bytes of mantissa.
FloatField(v) ==
    LET e == IF v.exponent < -127 THEN -127 ELSE IF v.exponent > 127 THEN 127 ELSE v.exponent
    IN Encoded(<<Symbol(2, v.sign), Symbol(256, e + 128), Symbol(256, (v.mantissa \div 65536) % 256),
                 Symbol(256, (v.mantissa \div 256) % 256), Symbol(256, v.mantissa % 256)>>)

\* recipe_parse_boolean of the text's first character
ParseBoolean(v) == IF v.first \in {"y", "Y", "t", "T", "1"} THEN 1 ELSE 0
BooleanField(v) == Encoded(<<Symbol(2, ParseBoolean(v))>>)

\* A number of the given bits of which precision are kept.
Shifted(x, maximum, bits, precision) ==
    LET d == 2 ^ (bits - precision)
    IN IF precision = 0 \/ precision >= bits THEN Symbol(maximum + 1, x)
       ELSE Symbol((maximum \div d) + 2, x \div d)

\* hh:mm.ss, where the seconds may be missing and are then uninitialised
TimeOfDayField(f, v, u) ==
    LET s == IF v.s = Missing THEN u ELSE v.s
    IN IF v.h \notin 0 .. 23 \/ v.m \notin 0 .. 59 \/ s \notin 0 .. 59 THEN Fail
       ELSE Encoded(<<Shifted((v.h * 3600) + (v.m * 60) + s, 24 * 60 * 60, 17, f.precision)>>)

(***************************************************************************)
(* The parsed fields are checked one by one, the year against 0..2299, and *)
(* what mktime makes of them, seconds since 1970, is encoded in two        *)
(* halves: v.high (t >> 16) may be negative, or too large for 15 bits.  A  *)
(* missing fraction is uninitialised.                                      *)
(***************************************************************************)
TimeDateField(v, u) ==
    IF ~v.valid \/ (IF v.csec = Missing THEN u ELSE v.csec) > 99 THEN Fail
    ELSE Encoded(<<Symbol(32768, v.high), Symbol(65536, v.low)>>)

MagpiTimeDateField(v) ==
    IF \/ v.year \notin 0 .. 9999 \/ v.mon \notin 1 .. 12 \/ v.mday \notin 1 .. 31
       \/ v.hour \notin 0 .. 24 \/ v.min \notin 0 .. 59 \/ v.sec \notin 0 .. 61
      THEN Fail
      ELSE Encoded(<<Symbol(10000, v.year), Symbol(12, v.mon - 1), Symbol(31, v.mday - 1),
                     Symbol(25, v.hour), Symbol(60, v.min), Symbol(62, v.sec)>>)

\* Days in months of 31 and years of 31 * 31, after the kind of separator.
DateField(f, v) ==
    IF v.y \notin 1 .. 9999 \/ v.m \notin 1 .. 31 \/ v.d \notin 1 .. 31 THEN Fail
    ELSE Encoded(<<Symbol(2, IF v.sep = "/" THEN 1 ELSE 0),
                   Shifted((v.y * 31 * 31) + ((v.m - 1) * 31) + (v.d - 1), 10000 * 31 * 31, 24, f.precision)>>)

\* Degrees, or 1/112000 of a degree, as the precision says.
LatLongField(f, v) ==
    LET unit == IF f.precision = 16 THEN 1 ELSE 112000
    IN IF v.lat \notin -90 .. 90 \/ v.lon \notin -180 .. 180 \/ f.precision \notin {0, 16, 34} THEN Fail
       ELSE Encoded(<<Symbol(182 * unit, (v.lat + 90) * unit), Symbol(361 * unit, (v.lon + 180) * unit)>>)

\* One bit per label; labels that are not known are left out.
MultiSelectField(f, v) ==
    Encoded([i \in DOMAIN f.labels |-> Symbol(2, IF f.labels[i] \in v THEN 1 ELSE 0)])

EnumField(f, v) ==
    LET at == {i \in DOMAIN f.labels : f.labels[i] = v}
    IN IF at = {} THEN Fail
       ELSE Encoded(<<Symbol(Len(f.labels), (CHOOSE i \in at : \A j \in at : i <= j) - 1)>>)

TextField(f, v) ==
    IF ~v.packs THEN Fail
    ELSE Encoded(<<Text(v.text, IF f.precision > 0 /\ v.length > f.precision THEN f.precision ELSE v.length)>>)

\* 16 hex digits and the low six bytes of a time
MagpiUuidField(v) == Encoded(Bytes(v.uuid) \o Bytes(v.time))

UuidField(f, v) ==
    IF Len(v.uuid) # 16 THEN Fail
    ELSE Encoded(Bytes(SubSeq(v.uuid, 1, IF f.precision \in 1 .. 16 THEN f.precision ELSE 16)))

\* FIXEDPOINT has no code of its own and falls through to BOOLEAN.
EncodeField(f, v, u) ==
    CASE f.type = "integer" -> IntegerField(f, v)
      [] f.type = "float" -> FloatField(v)
      [] f.type \in {"fixedpoint", "boolean"} -> BooleanField(v)
      [] f.type = "timeofday" -> TimeOfDayField(f, v, u)
      [] f.type = "timestamp" -> TimeDateField(v, u)
      [] f.type = "magpitimestamp" -> MagpiTimeDateField(v)
      [] f.type = "date" -> DateField(f, v)
      [] f.type = "latlong" -> LatLongField(f, v)
      [] f.type = "multi" -> MultiSelectField(f, v)
      [] f.type = "enum" -> EnumField(f, v)
      [] f.type = "text" -> TextField(f, v)
      [] f.type = "magpiuuid" -> MagpiUuidField(v)
      [] f.type = "uuid" -> UuidField(f, v)
      [] OTHER -> Fail

-----------------------------------------------------------------------------
None == [value |-> <<>>, ok |-> FALSE, ev |-> <<>>]

Init == field \in Fields /\ one = None /\ two = None

Encode(v, u) ==
    /\ two = None
    /\ LET r == EncodeField(field, v, u)
           e == [value |-> <<v>>, ok |-> r.ok, ev |-> r.ev]
       IN IF one = None THEN one' = e /\ two' = two ELSE two' = e /\ one' = one
    /\ UNCHANGED field

Next == \E v \in Values(field), u \in Uninit : Encode(v, u)

Spec == Init /\ [][Next]_vars

-----------------------------------------------------------------------------
\* range_encode takes no symbol outside its alphabet.
InAlphabet(e) == e.kind = "symbol" => 0 <= e.s /\ e.s < e.n

\* What the coder takes of it: most callers do not look at what the coder returns.
Taken(e) == SelectSeq(e.ev, InAlphabet)

Encodings == {e \in {one, two} : e.ok}

(***************************************************************************)
(* A timestamp outside of 1970..2038, of which only the lower half is      *)
(* taken, and the number right above the maximum of its field, which has   *)
(* the symbol that announces a text.                                       *)
(***************************************************************************)
Undated(f, v) == f.type = "timestamp" /\ v.high \notin 0 .. 32767
IsEscape(f, v) == f.type = "integer" /\ v = f.max + 1
Sound(e) == e.ok /\ ~Undated(field, e.value[1]) /\ ~IsEscape(field, e.value[1])

(***************************************************************************)
(* Whatever the limits and the precision of a field are, every symbol it   *)
(* gives to the range coder is one of its alphabet: the coder refuses any  *)
(* other, which the caller does not notice, and all that follows is read   *)
(* wrong.  Only a timestamp outside of 1970..2038, which passes the checks *)
(* of the field, gives another.                                            *)
(***************************************************************************)
SymbolsInRange ==
    \A e \in Encodings : Undated(field, e.value[1]) \/ \A i \in DOMAIN e.ev : InAlphabet(e.ev[i])

(***************************************************************************)
(* A decoder that knows the field knows where its encoding ends: none is   *)
(* the beginning of another, of sound values.                              *)
(***************************************************************************)
PrefixFree ==
    Sound(one) /\ Sound(two) /\ one.ev # two.ev => ~IsPrefix(Taken(one), Taken(two))

(***************************************************************************)
(* What a field promises to keep of a value: of a float with an exponent   *)
(* that fits in a byte everything, of a larger one its sign and mantissa;  *)
(* of a timestamp the second, not the fraction; of a selection the labels  *)
(* of the field; of a Boolean, and also of a decimal, whether it begins    *)
(* like a yes; of a time of day without seconds nothing.                   *)
(***************************************************************************)
Kept(f, v) ==
    CASE f.type = "float" /\ v.exponent \notin -127 .. 127 -> [v EXCEPT !.exponent = IF @ < 0 THEN -127 ELSE 127]
      [] f.type = "timestamp" -> <<v.high, v.low>>
      [] f.type \in {"boolean", "fixedpoint"} -> ParseBoolean(v)
      [] f.type = "multi" -> v \cap Range(f.labels)
      [] OTHER -> v
Partial(f, v) == f.type = "timeofday" /\ v.s = Missing

(***************************************************************************)
(* At full precision (0 in the recipe) two sound values that differ in     *)
(* what their field keeps are encoded differently, so that the form that   *)
(* arrives is the one that was filled in.                                  *)
(***************************************************************************)
Lossless ==
    /\ field.precision = 0 /\ Sound(one) /\ Sound(two)
    /\ ~Partial(field, one.value[1]) /\ ~Partial(field, two.value[1])
    /\ Kept(field, one.value[1]) # Kept(field, two.value[1])
    => Taken(one) # Taken(two)

\* "min,max set inclusive bound": a number above the maximum is escaped.
AboveMaximumEscaped ==
    field.type = "integer" /\ one.ok /\ one.value[1] > field.max => Len(one.ev) = 2

(***************************************************************************)
(* A fixed point number "gets encoded by multiplying value,min and max by  *)
(* 10^precision, and then encoding as an integer".                         *)
(***************************************************************************)
FixedPointKept ==
    field.type = "fixedpoint" /\ one.ok /\ two.ok /\ one.value # two.value => one.ev # two.ev

\* "precision is the number of bits of the UUID"
UuidBits == field.type = "uuid" /\ one.ok => 8 * Len(one.ev) = field.precision

(***************************************************************************)
(* "precision refers to minimum number of characters to encode if we run   *)
(* short of space": with space for all, all of a text is encoded.          *)
(***************************************************************************)
TextWhole == field.type = "text" /\ one.ok => one.ev[1].n = one.value[1].length
=============================================================================
