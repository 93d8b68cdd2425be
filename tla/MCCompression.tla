---------------------------- MODULE MCCompression ----------------------------
(***************************************************************************)
(* The layers of text compression and the two digests: the range coder     *)
(* (RangeCoder, extended), lists, texts and statistics on top of it, and   *)
(* SHA-256 and MD5.  A behaviour is of one of them (which); the others     *)
(* rest in their initial state.                                            *)
(***************************************************************************)
EXTENDS RangeCoder

VARIABLES which,
          list, listBits, listOut, listPhase,                       \* Interpolative
          typed, cutAt, packed, unpacked, textPhase,                \* Smac
          mode, tree, bitmap, pages, asked, got, vector, crashed,   \* PackedStats
          sent, sha, md5, final                                     \* Digest

coding == <<enc, told, phase, dec, heard>>
listing == <<list, listBits, listOut, listPhase>>
typing == <<typed, cutAt, packed, unpacked, textPhase>>
looking == <<mode, tree, bitmap, pages, asked, got, vector, crashed>>
hashing == <<sent, sha, md5, final>>
everything == <<which, coding, listing, typing, looking, hashing>>

\* A skewed model with minimal probabilities at both ends, and a flat one.
TwoModels == {<<1, 40, 63>>, <<32>>}

\* Lists of up to 10 numbers below 12, on a coder with room for their bits.
Lists == INSTANCE Interpolative WITH
    Capacity <- 100, MaxLength <- 10, MaxValue <- 11,
    bits <- listBits, out <- listOut, phase <- listPhase

(***************************************************************************)
(* Bits of an event, rounded: common letters are cheap, everything else    *)
(* costs as much as its alphabet.                                          *)
(***************************************************************************)
BitsOf(e) ==
    CASE e.model[1] = "equiprobable" -> (CASE e.model[2] = 2 -> 1 [] e.model[2] = 10 -> 3
                                           [] e.model[2] = 99 -> 7 [] e.model[2] = 256 -> 8 [] OTHER -> 4)
      [] e.model[1] = "probPackedASCII" -> IF e.symbol = 0 THEN 4 ELSE 0
      [] e.model[1] = "messagelengths" -> 6
      [] e.model[1] = "vector" -> IF e.symbol \in {1, 3} THEN 2 ELSE 10
      [] e.model[1] = "unicode" -> 6
      [] OTHER -> 1

\* Texts of up to 5 of 8 characters, of every kind and of three code pages, and prefixes of
\* up to 3.
Text == INSTANCE Smac WITH
    Chars <- {2, 3, 4, 5, 7, 8, 11, 55}, MaxChars <- 5, MaxPosn <- 2, MaxOrder <- 2,
    Cost <- BitsOf, MaxCut <- 3,
    text <- typed, cut <- cutAt, coded <- packed, out <- unpacked, phase <- textPhase

\* Contexts of two orders, not all of them present; character 4 is another digit as 2 is.
SomeContexts == {<<>>, <<1>>, <<2>>, <<1, 2>>, <<2, 1>>, <<2, 3>>, <<2, 3, 1>>}
SomeCounts ==
    [c \in SomeContexts |->
        CASE c = <<>> -> <<20, 5, 0>> [] c = <<1>> -> <<0, 0, 0>> [] c = <<2>> -> <<1, 0, 30>>
          [] OTHER -> <<Len(c), 0, 1>>]
SomePages == [p \in 1 .. 3 |-> IF p = 2 THEN <<>> ELSE <<1, 3, 4, 9>>]
MadeUpPage == <<4, 8, 9, 10>>
Stats == INSTANCE PackedStats WITH
    CHARCOUNT <- 3, Folded <- <<1, 2, 3, 2>>, Contexts <- SomeContexts, Counts <- SomeCounts, MaximumOrder <- 3, MAXVALUE <- 63,
    Pages <- {1, 2, 3}, PageCounts <- SomePages, MadeUp <- MadeUpPage, MaxLen <- 4,
    Modes <- {"mapped", "mmap"}

\* Blocks of 5 bytes, a lower counter of 10, messages of up to 26 bytes in pieces of any size.
Digests == INSTANCE Digest WITH
    Block <- 5, LenBytes <- 2, LoMod <- 10, Sizes <- 0 .. 26, MaxBytes <- 26

ASSUME ConstantsFit == Stats!PackedStatsAssumption /\ Digests!DigestAssumption

CompressionInit ==
    /\ which \in {"coder", "lists", "text", "stats", "digests"}
    /\ Init /\ Lists!Init /\ Text!Init /\ Stats!Init /\ Digests!Init

CompressionNext ==
    /\ which' = which
    /\ \/ which = "coder" /\ Next /\ UNCHANGED <<listing, typing, looking, hashing>>
       \/ which = "lists" /\ Lists!Next /\ UNCHANGED <<coding, typing, looking, hashing>>
       \/ which = "text" /\ Text!Next /\ UNCHANGED <<coding, listing, looking, hashing>>
       \/ which = "stats" /\ Stats!Next /\ UNCHANGED <<coding, listing, typing, hashing>>
       \/ which = "digests" /\ Digests!Next /\ UNCHANGED <<coding, listing, typing, looking>>

CompressionSpec == CompressionInit /\ [][CompressionNext]_everything

-----------------------------------------------------------------------------
(***************************************************************************)
(* The decoder of a list fills in exactly the list that was encoded,       *)
(* whatever its length is to the powers of two the walk is made of.        *)
(***************************************************************************)
ListRoundTrip == Lists!ListRoundTrip

\* A text of valid characters is compressed, and the decompressor gets it back.
TextRoundTrip == Text!TextRoundTrip

\* The decompressor asks for exactly the events of the compressor, so that the next field is in step.
InStep == Text!InStep

\* A lookup finds the longest end of the string, folded for the loaded tree, that the
\* statistics have.
LongestContext == Stats!LongestContext

(***************************************************************************)
(* Every character and code page has a range of its own in the statistics  *)
(* that are looked up, below the largest probability of the coder.         *)
(***************************************************************************)
VectorUsable == Stats!VectorUsable /\ Stats!PagesUsable

\* The SHA-256 of a message is that of its bytes, however they were cut into pieces.
ShaOfBytes == Digests!ShaOfBytes

\* The same of MD5, past the limit of its lower counter too.
Md5OfBytes == Digests!Md5OfBytes
(***************************************************************************)
(* What was coded comes back: symbols, lists and texts, with statistics    *)
(* that the coder can use, under digests of exactly their bytes.           *)
(***************************************************************************)
CodedBack ==
    /\ TypeOK /\ SpaceLeft /\ RoundTrip /\ DecoderInRange
    /\ ListRoundTrip
    /\ TextRoundTrip /\ InStep
    /\ LongestContext /\ VectorUsable
    /\ ShaOfBytes /\ Md5OfBytes
=============================================================================
