-------------------------------- MODULE Smac --------------------------------
(***************************************************************************)
(* forms/smac.c and the layers under it (case.c, lowercasealpha.c,         *)
(* nonalpha.c, packedascii.c, unicode.c, charset.c): a short text is       *)
(* compressed with a statistical model and decompressed again.             *)
(*                                                                         *)
(* What is given to the range coder is a sequence of events, a model and a *)
(* symbol under it; Arithmetic and Interpolative show that the symbols     *)
(* come back as long as the decoder asks with the same models, so here the *)
(* decoder fails when it asks with another.                                *)
(*                                                                         *)
(* Characters are numbers: 1 a, 2 A, 3 i, 4 I, 5 space, 6 and 7 digits, 8  *)
(* a control character, 10 and more unicode in pages of 10 (0x80 in the    *)
(* code); a continuation byte carries a digit to base 5 (6 bits).          *)
(***************************************************************************)
EXTENDS Integers, Sequences, FiniteSets, SequencesExt

CONSTANTS Chars,        \* the characters texts are made of
          MaxChars,     \* bound: characters in a text
          MaxPosn,      \* the last position in a word with statistics of its own (79)
          MaxOrder,     \* maximumOrder of the statistics
          Cost(_),      \* bits an event takes, rounded
          MaxCut        \* bound: characters of a text of which only a prefix is compressed

VARIABLES text,     \* the characters of the text
          cut,      \* m_in_len, in bytes
          coded,    \* [ok, ev]: what the compressor returned
          out,      \* [ok, text, used]: what the decompressor returned
          phase

vars == <<text, cut, coded, out, phase>>

-----------------------------------------------------------------------------
\* charset.c and ctype.h
IsAlpha(c) == c \in 1 .. 4
IsUpper(c) == c \in {2, 4}
ToLower(c) == IF IsUpper(c) THEN c - 1 ELSE c
ToUpper(c) == IF c \in {1, 3} THEN c + 1 ELSE c
CharInWord(c) == c \in {1, 2, 3, 4, 6, 7}
IsUnicode(c) == c >= 10
chars == <<1, 3, 5, 6, 10>>     \* the last two stand for all digits and all unicode
\* charIdx, from 1, or 0 where the code has -1
CharIdx(c) ==
    LET folded == IF IsUnicode(c) THEN 10 ELSE IF c = 7 THEN 6 ELSE c
    IN IF \E i \in DOMAIN chars : chars[i] = folded
         THEN CHOOSE i \in DOMAIN chars : chars[i] = folded ELSE 0
PrintableCharIdx(c) == IF c \in 1 .. 7 THEN c ELSE -1

\* utf16toutf8
ByteSeq(c) ==
    IF c < 10 THEN <<[kind |-> "ascii", v |-> c]>>
    ELSE IF c < 50 THEN <<[kind |-> "lead2", v |-> c \div 5], [kind |-> "cont", v |-> c % 5]>>
    ELSE <<[kind |-> "lead3", v |-> c \div 25], [kind |-> "cont", v |-> (c \div 5) % 5],
           [kind |-> "cont", v |-> c % 5]>>
Bytes(t) == FlattenSeq([i \in DOMAIN t |-> ByteSeq(t[i])])

RECURSIVE Utf16(_, _, _, _)
(***************************************************************************)
(* utf8toutf16, from byte i of the first n of b.  The checks for a         *)
(* sequence that ends mid-way compare with one byte less than it takes.    *)
(***************************************************************************)
Utf16(b, n, i, acc) ==
    LET fail == [ok |-> FALSE, text |-> <<>>]
    IN IF i > n THEN [ok |-> TRUE, text |-> acc]
       ELSE CASE b[i].kind = "cont" -> fail
              [] b[i].kind = "ascii" -> Utf16(b, n, i + 1, Append(acc, b[i].v))
              [] b[i].kind = "lead2" -> IF (n - i) + 1 < 1 THEN fail
                     ELSE Utf16(b, n, i + 2, Append(acc, (5 * b[i].v) + b[i + 1].v))
              [] b[i].kind = "lead3" -> IF (n - i) + 1 < 2 THEN fail
                     ELSE Utf16(b, n, i + 3, Append(acc, (25 * b[i].v) + (5 * b[i + 1].v) + b[i + 2].v))

-----------------------------------------------------------------------------
\* An event, and the models the layers use.
Event(model, symbol) == [model |-> model, symbol |-> symbol]
Equiprobable(n) == <<"equiprobable", n>>
PackedASCII == <<"probPackedASCII">>
MessageLength == <<"messagelengths">>
NonAlphaFlag == <<"probNoNonAlpha">>
Positions(count, n) == <<"interpolative", count, n>>
PageModel(page, wide) == <<"unicode", page, wide>>

\* stripNonAlpha, and what encodeNonAlpha collects
IsPlain(c) == IsUnicode(c) \/ CharIdx(ToLower(c)) > 0
StripNonAlpha(t) == SelectSeq(t, IsPlain)
NonAlphaAt(t) == SelectSeq([i \in DOMAIN t |-> i], LAMBDA i : ~IsPlain(t[i]))

EncodeNonAlpha(t) ==
    LET pos == NonAlphaAt(t)
    IN IF pos = <<>> THEN <<Event(NonAlphaFlag, 0)>>
       ELSE <<Event(NonAlphaFlag, 1), Event(Equiprobable(Len(t) + 1), Len(pos)),
              Event(Positions(Len(pos), Len(t)), pos)>>
            \o [i \in DOMAIN pos |-> Event(Equiprobable(256), t[pos[i]])]

\* stripCase and mungeCase: an isolated i changes its case; the first and last character never do.
StripCase(t) == [i \in DOMAIN t |-> ToLower(t[i])]
MungeCase(t) ==
    [i \in DOMAIN t |-> IF t[i] \in {3, 4} /\ i > 1 /\ i < Len(t)
                            /\ ~IsAlpha(t[i - 1]) /\ ~IsAlpha(t[i + 1])
                          THEN IF t[i] = 3 THEN 4 ELSE 3 ELSE t[i]]

\* extractVector: the statistics of the longest context that is known, with the tree loaded
\* as open_stats does it, on both sides (PackedStats has the lookup without it)
Vector(t, o) ==
    LET n == IF o - 1 < MaxOrder THEN o - 1 ELSE MaxOrder
    IN <<"vector", [k \in 1 .. n |-> CharIdx(t[(o - n) + (k - 1)])]>>

\* What LCAlphaSpace remembers: the current code page, and whether one was set.
NoPage == [page |-> 1, first |-> TRUE]

RECURSIVE EncodeLCAlphaSpace(_, _, _)
\* encodeLCAlphaSpace from character o on
EncodeLCAlphaSpace(t, o, u) ==
    LET c == t[o]
        page == c \div 10
        switched == u.first \/ page # u.page
        head == Event(Vector(t, o), CharIdx(c))
        more == CASE c \in {6, 7} -> <<Event(Equiprobable(10), c - 6)>>
                  [] IsUnicode(c) ->
                       (IF u.first THEN <<Event(Equiprobable(511), page - 1)>>
                        ELSE IF switched THEN <<Event(PageModel(u.page, TRUE), 128 + page)>>
                        ELSE <<>>)
                       \o <<Event(PageModel(page, ~switched), c % 10)>>
                  [] OTHER -> <<>>
    IN IF o > Len(t) THEN <<>>
       ELSE <<head>> \o more
            \o EncodeLCAlphaSpace(t, o + 1, IF IsUnicode(c) THEN [page |-> page, first |-> FALSE] ELSE u)

\* What CaseModel1 remembers of the words so far.
NoWord == [word |-> 0, posn |-> -1, last |-> 0, initial |-> 0, initial2 |-> 0]

\* The state after a character that is not a letter.
NextNonLetter(w, c) == IF CharInWord(c) THEN w ELSE [w EXCEPT !.posn = -1, !.last = 0]

\* The state after a letter of the given case.
NextLetter(w, upper) ==
    LET posn == IF w.posn + 1 > MaxPosn THEN MaxPosn ELSE w.posn + 1
        start == w.posn < 0
    IN [word |-> IF start THEN w.word + 1 ELSE w.word, posn |-> posn, last |-> upper,
        initial |-> IF start THEN upper ELSE w.initial,
        initial2 |-> IF start THEN w.initial ELSE w.initial2]

\* frequencies for the case of the letter that comes next, at index i
CaseModel(w, i) ==
    IF w.posn >= 0 THEN <<"caseposn2", w.last, NextLetter(w, 0).posn>>
    ELSE IF i = 1 THEN <<"casestartofmessage">>
    ELSE IF w.word > 1 THEN <<"casestartofword3", w.initial2, w.initial>>
    ELSE IF w.word > 0 THEN <<"casestartofword2", w.initial>>
    ELSE <<"caseposn1">>

Bit(b) == IF b THEN 1 ELSE 0

RECURSIVE EncodeCaseModel1(_, _, _)
EncodeCaseModel1(t, i, w) ==
    IF i > Len(t) THEN <<>>
    ELSE IF ~IsAlpha(t[i]) THEN EncodeCaseModel1(t, i + 1, NextNonLetter(w, t[i]))
    ELSE <<Event(CaseModel(w, i), Bit(IsUpper(t[i])))>>
         \o EncodeCaseModel1(t, i + 1, NextLetter(w, Bit(IsUpper(t[i]))))

Model1Append(b, n) ==
    LET u == Utf16(b, n, 1, <<>>)
        alpha == StripNonAlpha(u.text)
    IN IF ~u.ok THEN [ok |-> FALSE, ev |-> <<>>]
       ELSE [ok |-> TRUE,
             ev |-> <<Event(Equiprobable(2), 1), Event(Equiprobable(2), 0), Event(PackedASCII, 1),
                      Event(MessageLength, Len(u.text))>>
                    \o EncodeNonAlpha(u.text)
                    \o EncodeLCAlphaSpace(StripCase(alpha), 1, NoPage)
                    \o EncodeCaseModel1(MungeCase(alpha), 1, NoWord)]

\* All of the string, to its end; fails on a character that cannot be packed.
EncodePackedASCII(b) ==
    LET v(i) == IF b[i].kind = "ascii" THEN PrintableCharIdx(b[i].v) ELSE -1
    IN [ok |-> \A i \in DOMAIN b : v(i) >= 0,
        ev |-> [i \in DOMAIN b |-> Event(Equiprobable(99), v(i))]]

\* The length is that of the prefix, the characters go on to the end of the string.
RadixAppend(b, n) ==
    LET p == EncodePackedASCII(b)
    IN [ok |-> p.ok,
        ev |-> <<Event(Equiprobable(2), 1), Event(Equiprobable(2), 0), Event(PackedASCII, 0),
                 Event(MessageLength, n)>> \o p.ev]

Bits(ev) == FoldSeq(LAMBDA e, n : Cost(e) + n, 1, ev)

(***************************************************************************)
(* stats3_compress_append: the smaller of the two encodings.  That the     *)
(* model failed is not looked at: its few bits win, and it fails again.    *)
(* The uncompressed form is priced out.                                    *)
(***************************************************************************)
CompressAppend(b, n) ==
    LET m == Model1Append(b, n)
        r == RadixAppend(b, n)
    IN IF ~r.ok \/ Bits(m.ev) < Bits(r.ev) THEN m ELSE r

(***************************************************************************)
(* The model is tried first, and for a character beyond ASCII it asks for  *)
(* the statistics of a code page, which are read with stdio: a handle of a *)
(* buffer, as open_stats makes, has no file, and the process dies.         *)
(***************************************************************************)
Dies(b, n, file) ==
    LET u == Utf16(b, n, 1, <<>>)
    IN ~file /\ u.ok /\ \E i \in DOMAIN u.text : IsUnicode(u.text[i])

-----------------------------------------------------------------------------
\* A decoder: the events, how many are used, whether all were asked for with their model.
Start(ev) == [ev |-> ev, at |-> 1, ok |-> TRUE]
Ready(d, model) == d.ok /\ d.at <= Len(d.ev) /\ d.ev[d.at].model = model
Symbol(d, model) == IF Ready(d, model) THEN d.ev[d.at].symbol ELSE 0
Advance(d, model) == [d EXCEPT !.at = @ + 1, !.ok = Ready(d, model)]

RECURSIVE DecodeMany(_, _, _)
DecodeMany(d, model, n) ==
    IF n = 0 THEN [d |-> d, out |-> <<>>]
    ELSE LET rest == DecodeMany(Advance(d, model), model, n - 1)
         IN [d |-> rest.d, out |-> <<Symbol(d, model)>> \o rest.out]

DecodeNonAlpha(d, n) ==
    LET d1 == Advance(d, NonAlphaFlag)
        count == Symbol(d1, Equiprobable(n + 1))
        d2 == Advance(d1, Equiprobable(n + 1))
        values == DecodeMany(Advance(d2, Positions(count, n)), Equiprobable(256), count)
    IN IF Symbol(d, NonAlphaFlag) = 0 THEN [d |-> d1, pos |-> <<>>, out |-> <<>>]
       ELSE [d |-> values.d, pos |-> Symbol(d2, Positions(count, n)), out |-> values.out]

\* The unicode character that comes next in decodeLCAlphaSpace.
DecodeUnicode(d, u) ==
    LET pageOf == Symbol(d, Equiprobable(511)) + 1
        d1 == Advance(d, Equiprobable(511))
        wide == Symbol(d, PageModel(u.page, TRUE))
        d2 == Advance(d, PageModel(u.page, TRUE))
    IN CASE u.first -> [d |-> Advance(d1, PageModel(pageOf, FALSE)), page |-> pageOf,
                        low |-> Symbol(d1, PageModel(pageOf, FALSE))]
         [] ~u.first /\ wide > 127 -> [d |-> Advance(d2, PageModel(wide - 128, FALSE)), page |-> wide - 128,
                                       low |-> Symbol(d2, PageModel(wide - 128, FALSE))]
         [] OTHER -> [d |-> d2, page |-> u.page, low |-> wide]

RECURSIVE DecodeLCAlphaSpace(_, _, _, _)
\* n more characters after those of t
DecodeLCAlphaSpace(d, t, u, n) ==
    LET model == Vector(Append(t, 0), Len(t) + 1)
        c == chars[IF d.ok /\ Ready(d, model) THEN Symbol(d, model) ELSE 1]
        d1 == Advance(d, model)
        digit == Symbol(d1, Equiprobable(10))
        un == DecodeUnicode(d1, u)
    IN IF n = 0 THEN [d |-> d, out |-> t]
       ELSE CASE c = 6 -> DecodeLCAlphaSpace(Advance(d1, Equiprobable(10)), Append(t, 6 + digit), u, n - 1)
              [] c = 10 -> DecodeLCAlphaSpace(un.d, Append(t, (10 * un.page) + un.low),
                                              [page |-> un.page, first |-> FALSE], n - 1)
              [] OTHER -> DecodeLCAlphaSpace(d1, Append(t, c), u, n - 1)

RECURSIVE DecodeCaseModel1(_, _, _, _)
DecodeCaseModel1(d, t, i, w) ==
    LET upper == Symbol(d, CaseModel(w, i))
    IN IF i > Len(t) THEN [d |-> d, out |-> t]
       ELSE IF ~IsAlpha(t[i]) THEN DecodeCaseModel1(d, t, i + 1, NextNonLetter(w, t[i]))
       ELSE DecodeCaseModel1(Advance(d, CaseModel(w, i)),
                             [t EXCEPT ![i] = IF upper = 1 THEN ToUpper(@) ELSE @], i + 1, NextLetter(w, upper))

RECURSIVE Reintegrate(_, _, _, _)
\* The non-alpha characters go back to their positions, among the others.
Reintegrate(i, alpha, pos, values) ==
    IF pos # <<>> /\ Head(pos) = i
      THEN <<Head(values)>> \o Reintegrate(i + 1, alpha, Tail(pos), Tail(values))
    ELSE IF alpha # <<>> THEN <<Head(alpha)>> \o Reintegrate(i + 1, Tail(alpha), pos, values)
    ELSE <<>>

\* stats3_decompress_bits of a message that is not raw
DecompressBits(ev) ==
    LET d1 == Advance(Advance(Start(ev), Equiprobable(2)), Equiprobable(2))
        packed == Symbol(d1, PackedASCII) = 0
        d2 == Advance(d1, PackedASCII)
        n == Symbol(d2, MessageLength)
        d3 == Advance(d2, MessageLength)
        ascii == DecodeMany(d3, Equiprobable(99), n)
        non == DecodeNonAlpha(d3, n)
        lc == DecodeLCAlphaSpace(non.d, <<>>, NoPage, n - Len(non.out))
        cased == DecodeCaseModel1(lc.d, lc.out, 1, NoWord)
    IN IF packed THEN [ok |-> ascii.d.ok, used |-> ascii.d.at - 1, text |-> ascii.out]
       ELSE [ok |-> cased.d.ok, used |-> cased.d.at - 1,
             text |-> Reintegrate(1, MungeCase(cased.out), non.pos, non.out)]

-----------------------------------------------------------------------------
Nothing == [ok |-> FALSE, ev |-> <<>>]
NoText == [ok |-> FALSE, used |-> 0, text |-> <<>>]

Init == text = <<>> /\ cut = 0 /\ coded = Nothing /\ out = NoText /\ phase = "typing"

Type(c) ==
    /\ phase = "typing" /\ Len(text) < MaxChars
    /\ text' = Append(text, c)
    /\ UNCHANGED <<cut, coded, out, phase>>

\* compress_string, or a text field of a form that keeps a prefix of n bytes, with
\* statistics from a file or from a buffer
Compress(n, file) ==
    /\ phase = "typing" /\ text # <<>>
    /\ IF Dies(Bytes(text), n, file) THEN phase' = "dead" /\ UNCHANGED coded
       ELSE phase' = "compressed" /\ coded' = CompressAppend(Bytes(text), n)
    /\ cut' = n
    /\ UNCHANGED <<text, out>>

Decompress ==
    /\ phase = "compressed" /\ coded.ok
    /\ out' = DecompressBits(coded.ev)
    /\ phase' = "done"
    /\ UNCHANGED <<text, cut, coded>>

Next ==
    \/ \E c \in Chars : Type(c)
    \/ \E file \in BOOLEAN : Compress(Len(Bytes(text)), file)
    \/ Len(text) <= MaxCut /\ \E n \in 1 .. Len(Bytes(text)) - 1 : Compress(n, TRUE)
    \/ Decompress

Spec == Init /\ [][Next]_vars

-----------------------------------------------------------------------------
\* How many characters begin within the first cut bytes, and the bytes of the last of them
\* that are within.
Kept == Cardinality({k \in DOMAIN text : Len(Bytes(SubSeq(text, 1, k - 1))) < cut})
InLast == cut - Len(Bytes(SubSeq(text, 1, Kept - 1)))

(***************************************************************************)
(* A text of valid characters is compressed, and the decompressor gets it  *)
(* back: letters whose case is coded apart, control characters that are    *)
(* taken out and put back, digits, and characters of several code pages.   *)
(* Of a prefix it gets the characters that begin in it, also the rest of   *)
(* the last one; only the first of its three bytes is refused.  Where the  *)
(* statistics have no file this is about texts of ASCII characters.        *)
(***************************************************************************)
TextRoundTrip ==
    /\ phase = "dead" => \E i \in DOMAIN text : IsUnicode(text[i])
    /\ phase = "compressed" => (coded.ok <=> ~(Len(ByteSeq(text[Kept])) = 3 /\ InLast = 1))
    /\ phase = "done" => out.ok /\ out.text = SubSeq(text, 1, Kept)

(***************************************************************************)
(* The decompressor asks for exactly the events of the compressor, no more *)
(* and no less: what follows the text in the same coder, the next field of *)
(* a form, is decoded from where it begins.  Not so for a prefix that is   *)
(* packed, where all characters of the text are written: a text field with *)
(* a precision (the app's recipes have none).                              *)
(***************************************************************************)
Packed == coded.ev[3].symbol = 0
InStep == phase = "done" /\ (Packed => cut = Len(Bytes(text))) => out.used = Len(coded.ev)

(***************************************************************************)
(* "string ends mid-way through a UTF8 sequence": a text that is cut       *)
(* inside a character is refused by the model.                             *)
(***************************************************************************)
MidSequenceRefused ==
    phase = "compressed" /\ coded.ok
        => \E k \in 0 .. Len(text) : Len(Bytes(SubSeq(text, 1, k))) = cut

(***************************************************************************)
(* "so never need to have a compressed message be longer than              *)
(* uncompressed, because uncompressed messages are valid in place of       *)
(* compressed messages", and the buffer of compress_string is as long as   *)
(* the text.                                                               *)
(***************************************************************************)
NeverLonger ==
    phase = "compressed" /\ coded.ok => Bits(coded.ev) <= 8 * cut
=============================================================================
