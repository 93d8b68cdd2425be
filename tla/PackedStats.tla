----------------------------- MODULE PackedStats ----------------------------
(***************************************************************************)
(* forms/packed_stats.c: the statistics file behind the text compressor. A *)
(* handle maps a buffer, maps a file or reads a file block by block; nodes *)
(* are looked up in the file, or in the tree once it is loaded.            *)
(*                                                                         *)
(* A node is named by its context, the characters before the one it        *)
(* predicts, nearest first.  Probabilities are out of MAXVALUE (0xffffff). *)
(* How a node's numbers are coded is in Arithmetic and Interpolative.      *)
(***************************************************************************)
EXTENDS Integers, Sequences, SequencesExt

CONSTANTS CHARCOUNT,    \* entries of chars
          Folded,       \* charIdx, per character: the digits share an entry, and all of unicode
          Contexts,     \* the nodes of the file, with every prefix of a context
          Counts,       \* per context: how often each character follows
          MaximumOrder, \* as the header says
          MAXVALUE,
          Pages,        \* code pages, from 1; the last is as for 511
          PageCounts,   \* per page: cumulative counts, <<>> where the file has none
          MadeUp,       \* the counts of a page without statistics
          MaxLen,       \* bound: characters of a context that is looked up
          Modes         \* how a handle may be opened

\* What the file guarantees of its contexts.
PackedStatsAssumption ==
    /\ 1 .. CHARCOUNT \subseteq DOMAIN Folded /\ \A c \in 1 .. CHARCOUNT : Folded[c] = c
    /\ <<>> \in Contexts
    /\ \A c \in Contexts : Len(c) <= MaximumOrder /\ (c # <<>> => Front(c) \in Contexts)

VARIABLES mode,     \* "closed", "mapped" (a buffer), "mmap", "file"
          tree,     \* whether h->tree is loaded
          bitmap,   \* bufferBitmap with what was read: per block of a file read
          pages,    \* unicode_pages
          asked,    \* history: the string of the last lookup, as it was compared
          got,      \* the node it returned
          vector,   \* h->vector
          crashed

vars == <<mode, tree, bitmap, pages, asked, got, vector, crashed>>

Symbols == 1 .. CHARCOUNT
NoVector == [i \in Symbols |-> 0]
NoNode == <<0>>
Characters == DOMAIN Folded       \* those of chars come first
Strings == UNION {[1 .. n -> Characters] : n \in 0 .. MaxLen}
Blocks == 1 .. 2            \* header and nodes of a file read by blocks
Garbage == 0

-----------------------------------------------------------------------------
RECURSIVE ExtractNodeAt(_, _, _)
\* Looks for the child of the character before, and stays when there is none.  The character
\* itself is compared with chars: 1 to 9, and unicode, have no child here.
ExtractNodeAt(s, len, ctx) ==
    IF len > 0 /\ Append(ctx, s[len]) \in Contexts
      THEN ExtractNodeAt(s, len - 1, Append(ctx, s[len]))
      ELSE ctx

\* All nodes of the file, down to the maximum order.
LoadedTree == {c \in Contexts : Len(c) <= MaximumOrder}

RECURSIVE DescendTree(_, _, _)
DescendTree(s, i, ctx) ==
    IF i = 0 \/ Append(ctx, Folded[s[i]]) \notin LoadedTree THEN ctx
    ELSE DescendTree(s, i - 1, Append(ctx, Folded[s[i]]))

ExtractNode(s) == IF tree THEN DescendTree(s, Len(s), <<>>) ELSE ExtractNodeAt(s, Len(s), <<>>)

Total(ctx) == FoldSeq(LAMBDA n, t : n + t, 0, Counts[ctx])
\* So that every symbol, seen or not, has a range and they all fit.
Scale(ctx) == MAXVALUE \div (Total(ctx) + CHARCOUNT)

\* Cumulative probabilities, one more than the count for each.
VectorOf(ctx) ==
    LET upTo(i) == FoldSeq(LAMBDA n, t : n + t, 0, [k \in 1 .. i |-> Counts[ctx][k] + 1])
    IN [i \in Symbols |-> upTo(i) * Scale(ctx)]

\* The counts of a page, stretched over 0 .. MAXVALUE; from a file, or made up.
Rescale(counts) == [i \in DOMAIN counts |-> (counts[i] * (MAXVALUE - 1)) \div (Last(counts) + 1)]

-----------------------------------------------------------------------------
Init ==
    /\ mode = "closed" /\ tree = FALSE
    /\ bitmap = [b \in Blocks |-> -1]
    /\ pages = [p \in Pages |-> <<>>]
    /\ asked = <<>> /\ got = NoNode /\ vector = NoVector /\ crashed = FALSE

(***************************************************************************)
(* getCompressedBytes of a file that is not mapped: the blocks that are    *)
(* missing are read from where the file stands, which is its end since     *)
(* stats_new_handle looked for its length.                                 *)
(***************************************************************************)
ReadBlock(b) == bitmap' = [bitmap EXCEPT ![b] = IF @ = -1 THEN Garbage ELSE @]

\* stats_mapped_file, or stats_new_handle with or without mmap; both load the headers.
Open(m) ==
    /\ mode = "closed"
    /\ mode' = m
    /\ IF m = "file" THEN ReadBlock(1) ELSE UNCHANGED bitmap
    /\ UNCHANGED <<tree, pages, asked, got, vector, crashed>>

\* From here on nothing is looked up in a file read by blocks, whose contents are undefined.
LoadTree ==
    /\ mode \in {"mapped", "mmap"} /\ ~crashed
    /\ tree' = TRUE
    /\ UNCHANGED <<mode, bitmap, pages, asked, got, vector, crashed>>

ExtractVector(s) ==
    /\ mode \in {"mapped", "mmap"} /\ ~crashed
    /\ asked' = IF tree THEN [i \in DOMAIN s |-> Folded[s[i]]] ELSE s
    /\ got' = ExtractNode(s)
    /\ vector' = VectorOf(ExtractNode(s))
    /\ UNCHANGED <<mode, tree, bitmap, pages, crashed>>

(***************************************************************************)
(* The addresses of the pages and the page are read with stdio: without a  *)
(* file, from a buffer, that dereferences a null pointer.  The last page's *)
(* end is read behind the table, so it may look empty or not.              *)
(***************************************************************************)
GetUnicodeStatistics(p) ==
    /\ mode \in {"mapped", "mmap"} /\ ~crashed
    /\ crashed' = (mode = "mapped")
    /\ \E known \in IF \E q \in Pages : q > p THEN {PageCounts[p] # <<>>} ELSE BOOLEAN :
          LET counts == IF known /\ PageCounts[p] # <<>> THEN PageCounts[p] ELSE MadeUp
          IN pages' = IF mode = "mapped" \/ pages[p] # <<>> THEN pages
                      ELSE [pages EXCEPT ![p] = Rescale(counts)]
    /\ UNCHANGED <<mode, tree, bitmap, asked, got, vector>>

\* stats_handle_free
Close ==
    /\ mode \notin {"closed"} /\ ~crashed
    /\ mode' = "closed" /\ tree' = FALSE
    /\ bitmap' = [b \in Blocks |-> -1]
    /\ pages' = [p \in Pages |-> <<>>]
    /\ asked' = <<>> /\ got' = NoNode /\ vector' = NoVector
    /\ UNCHANGED crashed

Next ==
    \/ \E m \in Modes : Open(m)
    \/ LoadTree \/ Close
    \/ \E s \in Strings : ExtractVector(s)
    \/ \E p \in Pages : GetUnicodeStatistics(p)

Spec == Init /\ [][Next]_vars

-----------------------------------------------------------------------------
Ends(s) == {Reverse(SubSeq(s, k, Len(s))) : k \in 1 .. Len(s) + 1}
(***************************************************************************)
(* A lookup finds the longest end of the string that the file has          *)
(* statistics for: in the loaded tree of the string with its digits and    *)
(* unicode characters folded, and in the file of the string as it is.  So  *)
(* a compressor and a decompressor of which one has loaded the tree agree  *)
(* on texts without these characters only, and on others need not.         *)
(***************************************************************************)
LongestContext ==
    got # NoNode => /\ got \in Ends(asked) \cap Contexts
                    /\ \A c \in Ends(asked) \cap Contexts : Len(c) <= Len(got)

Usable(v, top) == \A i \in DOMAIN v : v[i] > (IF i = 1 THEN 0 ELSE v[i - 1]) /\ v[i] <= top
(***************************************************************************)
(* Every character, counted or not, has a range of its own in the vector,  *)
(* and all ranges fit below the largest probability of the range coder.    *)
(***************************************************************************)
VectorUsable == got # NoNode => Usable(vector, MAXVALUE)

\* So has every character and code page in the statistics of a page.
PagesUsable == \A p \in Pages : Usable(pages[p], MAXVALUE)

(***************************************************************************)
(* "not memory mapped, so pull in the appropriate part of the file as      *)
(* required": a block that is marked as loaded holds that part.            *)
(***************************************************************************)
BlocksLoaded == \A b \in Blocks : bitmap[b] # -1 => bitmap[b] = b
=============================================================================
