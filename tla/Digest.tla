------------------------------- MODULE Digest -------------------------------
(***************************************************************************)
(* The streaming half of the two digests: SHA-256 of hash.c, which names   *)
(* the files of the store, and MD5 of forms/md5.c, which names recipes.    *)
(* Bytes come in pieces of any size and are compressed block by block; a   *)
(* padding with the length ends the last block.                            *)
(*                                                                         *)
(* The compression function is taken to tell all sequences of blocks       *)
(* apart: a state is the sequence of the blocks it was given.  Byte k of   *)
(* the message is the number k, so that a byte that is lost, repeated or   *)
(* stale shows.  Block and length sizes are parameters (64 and 8 in both). *)
(***************************************************************************)
EXTENDS Integers, Sequences, SequencesExt

CONSTANTS Block,     \* bytes in a block
          LenBytes,  \* bytes of the length at the end
          LoMod,     \* bytes that MD5's lower counter can count: 2^29
          Sizes,     \* sizes of pieces
          MaxBytes   \* bound: length of the message

\* How the sizes relate in both digests.
DigestAssumption ==
    /\ Block \in Nat \ {0} /\ LenBytes \in 1 .. Block - 1
    /\ LoMod \in Nat \ {0} /\ LoMod % Block = 0

VARIABLES sent,   \* bytes of the message so far
          sha,    \* [count, buf, blocks]
          md5,    \* [lo, hi, buf, blocks]
          final   \* the blocks of the finished digests, or <<>>

vars == <<sent, sha, md5, final>>

Index == 0 .. Block - 1
Mark == -1        \* the byte 0x80
Zero == 0
Length(n) == -2 - n    \* each byte of the length n

Content(b) == [i \in 1 .. Block |-> b[i - 1]]
\* Bytes copied into a buffer from position r on
Copied(buf, r, from, n) == [i \in Index |-> IF i >= r /\ i < r + n THEN from + i - r ELSE buf[i]]
\* The block at byte `from' of the piece itself
Direct(from) == [i \in 1 .. Block |-> from + i - 1]

-----------------------------------------------------------------------------
\* SHA256_Transform
Transform(s, block) == [s EXCEPT !.blocks = Append(@, block)]

ShaInit == [count |-> 0, buf |-> [i \in Index |-> Zero], blocks |-> <<>>]

RECURSIVE ShaBlocks(_, _, _)
\* Whole blocks straight from the piece, and the rest to the start of the buffer
ShaBlocks(s, from, n) ==
    IF n >= Block THEN ShaBlocks(Transform(s, Direct(from)), from + Block, n - Block)
    ELSE [s EXCEPT !.buf = Copied(@, 0, from, n)]

\* crypto_hash_sha256_update with n bytes from number `from' on
ShaUpdate(s, from, n) ==
    LET r == s.count % Block
        counted == [s EXCEPT !.count = @ + n]
        filled == [counted EXCEPT !.buf = Copied(@, r, from, Block - r)]
    IN IF n = 0 THEN s
       ELSE IF n < Block - r THEN [counted EXCEPT !.buf = Copied(@, r, from, n)]
       ELSE ShaBlocks(Transform(filled, Content(filled.buf)), from + Block - r, n - (Block - r))

\* PAD from position r on, n bytes of it
Padded(buf, r, n) == [i \in Index |-> IF i = r /\ n > 0 THEN Mark
                                      ELSE IF i > r /\ i < r + n THEN Zero ELSE buf[i]]
WithLength(buf, n) == [i \in Index |-> IF i >= Block - LenBytes THEN Length(n) ELSE buf[i]]

\* SHA256_Pad and crypto_hash_sha256_final
ShaFinal(s) ==
    LET r == s.count % Block
        room == Block - LenBytes
        one == Padded(s.buf, r, room - r)
        two == Transform(s, Content(Padded(s.buf, r, Block - r)))
        zeros == [i \in Index |-> Zero]
    IN IF r < room THEN Transform(s, Content(WithLength(one, s.count))).blocks
       ELSE Transform(two, Content(WithLength(zeros, s.count))).blocks

-----------------------------------------------------------------------------
Md5Init == [lo |-> 0, hi |-> 0, buf |-> [i \in Index |-> Zero], blocks |-> <<>>]

RECURSIVE Body(_, _, _)
\* body: one or more blocks straight from the piece
Body(s, from, n) == IF n = 0 THEN s ELSE Body(Transform(s, Direct(from)), from + Block, n - Block)

\* The byte counter of MD5_Update, in two words
Counted(s, n) ==
    LET lo == (s.lo + n) % LoMod
    IN [s EXCEPT !.lo = lo, !.hi = @ + (IF lo < s.lo THEN 1 ELSE 0) + n \div LoMod]

Md5Update(s, from, n) ==
    LET used == s.lo % Block
        available == Block - used
        counted == Counted(s, n)
        filled == [counted EXCEPT !.buf = Copied(@, used, from, available)]
        first == Transform(filled, Content(filled.buf))
        Rest(t, at, left) ==
            LET whole == left - (left % Block)
                b == Body(t, at, whole)
            IN [b EXCEPT !.buf = Copied(@, 0, at + whole, left % Block)]
    IN IF used = 0 THEN Rest(counted, from, n)
       ELSE IF n < available THEN [counted EXCEPT !.buf = Copied(@, used, from, n)]
       ELSE Rest(first, from + available, n - available)

Md5Final(s) ==
    LET used == (s.lo % Block) + 1
        available == Block - used
        marked == [s.buf EXCEPT ![used - 1] = Mark]
        zeros == [i \in Index |-> IF i < used THEN marked[i] ELSE Zero]
        n == s.hi * LoMod + s.lo
    IN IF available < LenBytes
         THEN Transform(Transform(s, Content(zeros)), Content(WithLength([i \in Index |-> Zero], n))).blocks
         ELSE Transform(s, Content(WithLength(zeros, n))).blocks

-----------------------------------------------------------------------------
Init == sent = 0 /\ sha = ShaInit /\ md5 = Md5Init /\ final = <<>>

Update(n) ==
    /\ final = <<>> /\ sent + n <= MaxBytes
    /\ sent' = sent + n
    /\ sha' = ShaUpdate(sha, sent + 1, n)
    /\ md5' = Md5Update(md5, sent + 1, n)
    /\ UNCHANGED final

Final ==
    /\ final = <<>>
    /\ final' = <<ShaFinal(sha), Md5Final(md5)>>
    /\ UNCHANGED <<sent, sha, md5>>

Next == (\E n \in Sizes : Update(n)) \/ Final

Spec == Init /\ [][Next]_vars

-----------------------------------------------------------------------------
(***************************************************************************)
(* The blocks of a message of n bytes, as both standards define them: the  *)
(* bytes, the mark, as few zeros as there can be and the length.           *)
(***************************************************************************)
Reference(n) ==
    LET zeros == CHOOSE z \in 0 .. Block - 1 : (n + 1 + z + LenBytes) % Block = 0
        all == [i \in 1 .. n |-> i] \o <<Mark>> \o [i \in 1 .. zeros |-> Zero]
                 \o [i \in 1 .. LenBytes |-> Length(n)]
    IN [b \in 1 .. Len(all) \div Block |-> SubSeq(all, (b - 1) * Block + 1, b * Block)]

(***************************************************************************)
(* The SHA-256 of a message is that of its bytes, however they were cut    *)
(* into pieces: the digest kept while a file grows equals the digest of    *)
(* the whole file that another device computes.                            *)
(***************************************************************************)
ShaOfBytes == final # <<>> => final[1] = Reference(sent)

\* The same of MD5, past the limit of the lower counter too.
Md5OfBytes == final # <<>> => final[2] = Reference(sent)

(***************************************************************************)
(* Between updates whole blocks were compressed and the rest, less than a  *)
(* block, waits in the buffer.                                             *)
(***************************************************************************)
NothingWaits ==
    final = <<>> => /\ Len(sha.blocks) = sent \div Block
                    /\ Len(md5.blocks) = sent \div Block
                    /\ \A i \in 0 .. (sent % Block) - 1 :
                          sha.buf[i] = (sent - (sent % Block)) + 1 + i /\ md5.buf[i] = sha.buf[i]
=============================================================================
