----------------------------- MODULE SeqTracker -----------------------------
(***************************************************************************)
(* SeqTracker.java: the sequence numbers seen so far, kept as a linked     *)
(* list of ranges, and saved as text between runs of the app.              *)
(*                                                                         *)
(* The list is the sequence of its ranges from head to tail.  The text is  *)
(* the sequence of its comma-separated items, each one number or two with  *)
(* a dash between.  Sequence numbers count fragments from 0 and stay far   *)
(* below the 2^31 at which the code's int would wrap.                      *)
(***************************************************************************)
EXTENDS Integers, Sequences

CONSTANT MaxSeq  \* bound: the greatest sequence number

ASSUME MaxSeqNat == MaxSeq \in Nat

VARIABLES
    ranges,   \* the list, from head to tail
    isNew,    \* the last answer of received()
    missing   \* the last answer of nextMissing()

vars == <<ranges, isNew, missing>>

Seqs == 0..MaxSeq
SeqRange == [first : Seqs, last : Seqs]
Single(s) == [first |-> s, last |-> s]
Within(s, r) == r.first <= s /\ s <= r.last

Init == ranges = <<>> /\ isNew = FALSE /\ missing = 0

(* insert(seq, prev, next): a new range in front of the k-th.               *)
Insert(rs, k, r) ==
    [i \in 1..(Len(rs) + 1) |-> IF i < k THEN rs[i] ELSE IF i = k THEN r ELSE rs[i - 1]]

(* merge(prev, next) of the k-th range and the one after it: nothing unless *)
(* both exist and they touch.                                               *)
Merge_never(rs, k) == rs
Merge(rs, k) ==
    IF k < 1 \/ k >= Len(rs) \/ rs[k].last + 1 # rs[k + 1].first
    THEN rs
    ELSE [i \in 1..(Len(rs) - 1) |->
             IF i < k THEN rs[i]
             ELSE IF i = k THEN [first |-> rs[k].first, last |-> rs[k + 1].last]
             ELSE rs[i + 1]]

(* received(seq) walks from the head until a range holds or touches seq, or *)
(* lies beyond it: there it grows the range, or inserts one in front; past  *)
(* the tail it inserts one at the end.                                      *)
Reaches(rs, s, k) ==
    /\ k \in 1..Len(rs)
    /\ s <= rs[k].last + 1
    /\ \A j \in 1..(k - 1) : s > rs[j].last + 1

GrowFirst(rs, k) ==
    Merge([rs EXCEPT ![k] = [first |-> rs[k].first - 1, last |-> rs[k].last]], k - 1)
GrowLast(rs, k) ==
    Merge([rs EXCEPT ![k] = [first |-> rs[k].first, last |-> rs[k].last + 1]], k)

Received(s) ==
    /\ \/ \E k \in 1..Len(ranges) :
            /\ Reaches(ranges, s, k)
            /\ \/ /\ Within(s, ranges[k])
                  /\ isNew' = FALSE
                  /\ ranges' = ranges
               \/ /\ s = ranges[k].first - 1
                  /\ isNew' = TRUE
                  /\ ranges' = GrowFirst(ranges, k)
               \/ /\ s < ranges[k].first - 1
                  /\ isNew' = TRUE
                  /\ ranges' = Insert(ranges, k, Single(s))
               \/ /\ s = ranges[k].last + 1
                  /\ isNew' = TRUE
                  /\ ranges' = GrowLast(ranges, k)
       \/ /\ \A k \in 1..Len(ranges) : s > ranges[k].last + 1
          /\ isNew' = TRUE
          /\ ranges' = Insert(ranges, Len(ranges) + 1, Single(s))
    /\ UNCHANGED missing

(* nextMissing(): what follows the first range if that starts at 0.         *)
LeastMissing_anyHead(rs) == IF rs = <<>> THEN 0 ELSE rs[1].last + 1
LeastMissing(rs) == IF rs = <<>> \/ rs[1].first # 0 THEN 0 ELSE rs[1].last + 1

NextMissing ==
    /\ missing' = LeastMissing(ranges)
    /\ UNCHANGED <<ranges, isNew>>

(* toString(), and the constructor that parses what it wrote.               *)
ToText(rs) == [i \in 1..Len(rs) |-> IF rs[i].first = rs[i].last THEN <<rs[i].first>>
                                    ELSE <<rs[i].first, rs[i].last>>]
Parse(text) == [i \in 1..Len(text) |-> [first |-> text[i][1], last |-> text[i][Len(text[i])]]]

(* The app restarts and reads what it saved.                                *)
Reload ==
    /\ ranges' = Parse(ToText(ranges))
    /\ UNCHANGED <<isNew, missing>>

Next == (\E s \in Seqs : Received(s)) \/ NextMissing \/ Reload

Spec == Init /\ [][Next]_vars

-----------------------------------------------------------------------------
(* Types.                                                                   *)
TypeOK == ranges \in Seq(SeqRange) /\ isNew \in BOOLEAN /\ missing \in 0..(MaxSeq + 1)

(* Canonical: from head to tail the ranges are not empty, ascend and never   *)
(* touch, in whatever order numbers arrive: every set of numbers has one     *)
(* list, so the saved text and nextMissing, which looks at the head only,    *)
(* depend on the set alone (received, insert, merge).                        *)
Ascending(rs) ==
    /\ \A i \in 1..Len(rs) : rs[i].first <= rs[i].last
    /\ \A i, j \in 1..Len(rs) : i < j => rs[i].last + 1 < rs[j].first
Canonical == Ascending(ranges)

(* TracksSet: the list answers as the set of the received numbers would:     *)
(* received() is true exactly for a number that was not given before, and    *)
(* nextMissing() is the least number that was not (received, nextMissing,    *)
(* toString and the parsing constructor).                                    *)
Covered(rs) == {s \in Seqs : \E i \in 1..Len(rs) : Within(s, rs[i])}
Set == INSTANCE SeqSet WITH seen <- Covered(ranges)
TracksSet == Set!Spec
=============================================================================
