-------------------------- MODULE SeqTrackerProofs --------------------------
(***************************************************************************)
(* For every MaxSeq: the ranges of a SeqTracker stay canonical, and it     *)
(* answers as the set of the numbers it was given would.                   *)
(*                                                                         *)
(* The inductive invariant is TrackerInv: received() is right only about   *)
(* an ascending list, and leaves one.  Growing a range may make it touch   *)
(* its neighbour (Nearly), which merge then repairs (MergeFacts).          *)
(***************************************************************************)
EXTENDS SeqTracker, SequenceTheorems, TLAPS

TrackerInv == TypeOK /\ Canonical

(* Ascending, except that the k-th and the next range may touch.            *)
Nearly(rs, k) ==
    /\ \A i \in 1..Len(rs) : rs[i].first <= rs[i].last
    /\ \A i, j \in 1..Len(rs) : i < j =>
          \/ rs[i].last + 1 < rs[j].first
          \/ i = k /\ j = k + 1 /\ rs[i].last + 1 = rs[j].first

(* A function on 1..n into a set is a sequence of length n over it.         *)
LEMMA FunctionIsSeq ==
    ASSUME NEW S, NEW n \in Nat, NEW f, f \in [1..n -> S]
    PROVE  f \in Seq(S) /\ Len(f) = n
  <1>1. f \in Seq(S)
    BY SeqDef
  <1>2. DOMAIN f = 1..Len(f) /\ Len(f) \in Nat
    BY <1>1, LenProperties
  <1>3. 1..Len(f) = 1..n
    BY <1>2
  <1> QED BY <1>1, <1>2, <1>3

(* The elements of a list of ranges are pairs of integers.                  *)
LEMMA RangeFacts ==
    ASSUME NEW rs \in Seq(SeqRange)
    PROVE  /\ Len(rs) \in Nat
           /\ \A i \in 1..Len(rs) :
                 /\ rs[i] \in SeqRange
                 /\ rs[i].first \in Int /\ rs[i].last \in Int
                 /\ rs[i].first \in Seqs /\ rs[i].last \in Seqs
  <1>1. Len(rs) \in Nat /\ \A i \in 1..Len(rs) : rs[i] \in SeqRange
    OBVIOUS
  <1>2. \A r \in SeqRange : r.first \in Seqs /\ r.last \in Seqs
    BY DEF SeqRange
  <1>3. \A x \in Seqs : x \in Int
    BY MaxSeqNat DEF Seqs
  <1> QED BY <1>1, <1>2, <1>3

(* insert() between a range below seq and one above it, none touching seq,  *)
(* keeps the list ascending and adds exactly seq.                           *)
LEMMA InsertFacts ==
    ASSUME NEW rs \in Seq(SeqRange), Ascending(rs), NEW s \in Seqs,
           NEW k \in 1..(Len(rs) + 1),
           k <= Len(rs) => s < rs[k].first - 1,
           \A j \in 1..(k - 1) : s > rs[j].last + 1
    PROVE  /\ Insert(rs, k, Single(s)) \in Seq(SeqRange)
           /\ Ascending(Insert(rs, k, Single(s)))
           /\ s \notin Covered(rs)
           /\ Covered(Insert(rs, k, Single(s))) = Covered(rs) \cup {s}
  <1> DEFINE t == Insert(rs, k, Single(s))
             n == Len(rs)
  <1>1. n \in Nat /\ \A i \in 1..n : rs[i] \in SeqRange /\ rs[i].first \in Int /\ rs[i].last \in Int
    BY RangeFacts
  <1>2. Single(s) \in SeqRange /\ Single(s).first = s /\ Single(s).last = s /\ s \in Int
    BY MaxSeqNat DEF Single, SeqRange, Seqs
  <1>3. t \in [1..(n + 1) -> SeqRange]
    BY <1>1, <1>2 DEF Insert
  <1>4. t \in Seq(SeqRange) /\ Len(t) = n + 1
    BY <1>1, <1>3, FunctionIsSeq
  <1>5. \A i \in 1..(n + 1) : /\ i < k => t[i] = rs[i] /\ i \in 1..n
                              /\ i = k => t[i] = Single(s)
                              /\ i > k => t[i] = rs[i - 1] /\ (i - 1) \in 1..n /\ i - 1 >= k
    BY <1>1 DEF Insert
  <1> HIDE DEF t
  <1>6. \A i \in 1..n : i >= k => s < rs[i].first - 1
    <2> SUFFICES ASSUME NEW i \in 1..n, i >= k PROVE s < rs[i].first - 1
      OBVIOUS
    <2>1. k \in 1..n /\ s < rs[k].first - 1 /\ rs[k].first \in Int /\ rs[k].last \in Int
      BY <1>1
    <2>2. CASE i = k
      BY <2>1, <2>2
    <2>3. CASE i > k
      <3>1. rs[k].first <= rs[k].last /\ rs[k].last + 1 < rs[i].first /\ rs[i].first \in Int
        BY <1>1, <2>1, <2>3 DEF Ascending
      <3> QED BY <1>2, <2>1, <3>1
    <2> QED BY <1>1, <2>2, <2>3
  <1>7. Ascending(t)
    <2>1. ASSUME NEW i \in 1..(n + 1) PROVE t[i].first <= t[i].last
      <3>1. CASE i < k
        BY <1>5, <3>1 DEF Ascending
      <3>2. CASE i = k
        BY <1>2, <1>5, <3>2
      <3>3. CASE i > k
        <4>1. t[i] = rs[i - 1] /\ (i - 1) \in 1..n
          BY <1>5, <3>3
        <4> QED BY <4>1 DEF Ascending
      <3> QED BY <1>1, <3>1, <3>2, <3>3
    <2>2. ASSUME NEW i \in 1..(n + 1), NEW j \in 1..(n + 1), i < j
          PROVE  t[i].last + 1 < t[j].first
      <3>1. CASE j < k
        BY <1>1, <1>5, <2>2, <3>1 DEF Ascending
      <3>2. CASE j = k
        <4>1. t[j].first = s
          BY <1>2, <1>5, <3>2
        <4>2. t[i] = rs[i] /\ i \in 1..n /\ i \in 1..(k - 1)
          BY <1>5, <2>2, <3>2
        <4>3. s > rs[i].last + 1 /\ rs[i].last \in Int
          BY <1>1, <4>2
        <4> QED BY <1>2, <4>1, <4>2, <4>3
      <3>3. CASE j > k
        <4>1. t[j] = rs[j - 1] /\ (j - 1) \in 1..n /\ j - 1 >= k
          BY <1>5, <3>3
        <4>2. CASE i < k
          <5>1. t[i] = rs[i] /\ i \in 1..n /\ i < j - 1
            BY <1>5, <4>1, <4>2
          <5> QED BY <4>1, <5>1 DEF Ascending
        <4>3. CASE i = k
          <5>1. t[i].last = s
            BY <1>2, <1>5, <4>3
          <5>2. s < rs[j - 1].first - 1 /\ rs[j - 1].first \in Int
            BY <1>1, <1>6, <4>1
          <5> QED BY <1>2, <4>1, <5>1, <5>2
        <4>4. CASE i > k
          <5>1. t[i] = rs[i - 1] /\ (i - 1) \in 1..n /\ i - 1 < j - 1
            BY <1>1, <1>5, <2>2, <4>4
          <5> QED BY <4>1, <5>1 DEF Ascending
        <4> QED BY <1>1, <4>2, <4>3, <4>4
      <3> QED BY <1>1, <3>1, <3>2, <3>3
    <2> QED BY <1>4, <2>1, <2>2 DEF Ascending
  <1>8. \A i \in 1..n : ~Within(s, rs[i])
    BY <1>1, <1>2, <1>6 DEF Within
  <1>9. Covered(t) = Covered(rs) \cup {s}
    <2>1. ASSUME NEW x \in Seqs, NEW i \in 1..(n + 1), Within(x, t[i])
          PROVE  x = s \/ \E j \in 1..n : Within(x, rs[j])
      <3>1. CASE i = k
        BY <1>2, <1>5, <2>1, <3>1 DEF Within, Seqs
      <3>2. CASE i < k
        BY <1>5, <2>1, <3>2
      <3>3. CASE i > k
        <4>1. t[i] = rs[i - 1] /\ (i - 1) \in 1..n
          BY <1>5, <3>3
        <4> QED BY <2>1, <4>1
      <3> QED BY <1>1, <3>1, <3>2, <3>3
    <2>2. ASSUME NEW x \in Seqs, NEW i \in 1..n, Within(x, rs[i])
          PROVE  \E j \in 1..(n + 1) : Within(x, t[j])
      <3>1. CASE i < k
        <4>1. t[i] = rs[i] /\ i \in 1..(n + 1)
          BY <1>1, <1>5, <3>1
        <4> QED BY <2>2, <4>1
      <3>2. CASE i >= k
        <4>1. (i + 1) \in 1..(n + 1) /\ t[i + 1] = rs[i]
          <5>1. (i + 1) \in 1..(n + 1) /\ i + 1 > k
            BY <1>1, <3>2
          <5>2. t[i + 1] = rs[(i + 1) - 1]
            BY <1>5, <5>1
          <5> QED BY <5>1, <5>2
        <4> QED BY <2>2, <4>1
      <3>3. i < k \/ i >= k
        BY <1>1
      <3> QED BY <3>1, <3>2, <3>3
    <2>3. Within(s, t[k])
      BY <1>2, <1>5 DEF Within
    <2> QED BY <1>4, <2>1, <2>2, <2>3 DEF Covered
  <1> QED BY <1>4, <1>7, <1>8, <1>9 DEF Covered, t

(* merge() makes a list ascend whose k-th range may touch the next one, and *)
(* leaves what it covers alone.                                             *)
LEMMA MergeFacts ==
    ASSUME NEW rs \in Seq(SeqRange), NEW k \in 0..Len(rs), Nearly(rs, k)
    PROVE  /\ Merge(rs, k) \in Seq(SeqRange)
           /\ Ascending(Merge(rs, k))
           /\ Covered(Merge(rs, k)) = Covered(rs)
  <1> DEFINE t == Merge(rs, k)
             n == Len(rs)
  <1>1. n \in Nat /\ \A i \in 1..n : rs[i] \in SeqRange /\ rs[i].first \in Int /\ rs[i].last \in Int
    BY RangeFacts
  <1>2. CASE k < 1 \/ k >= n \/ rs[k].last + 1 # rs[k + 1].first
    <2>1. t = rs
      BY <1>2 DEF Merge
    <2>2. Ascending(rs)
      <3>1. ASSUME NEW i \in 1..n, NEW j \in 1..n, i < j PROVE rs[i].last + 1 < rs[j].first
        BY <1>1, <1>2, <3>1 DEF Nearly
      <3> QED BY <3>1 DEF Ascending, Nearly
    <2> QED BY <2>1, <2>2
  <1>3. CASE k >= 1 /\ k < n /\ rs[k].last + 1 = rs[k + 1].first
    <2> DEFINE m == [first |-> rs[k].first, last |-> rs[k + 1].last]
    <2>1. k \in 1..n /\ (k + 1) \in 1..n /\ n - 1 \in Nat
      BY <1>1, <1>3
    <2>2. m \in SeqRange /\ m.first = rs[k].first /\ m.last = rs[k + 1].last
      BY <1>1, <2>1 DEF SeqRange
    <2>3. t = [i \in 1..(n - 1) |-> IF i < k THEN rs[i] ELSE IF i = k THEN m ELSE rs[i + 1]]
      BY <1>1, <1>3 DEF Merge
    <2> HIDE DEF m, t
    <2>4. t \in [1..(n - 1) -> SeqRange]
      BY <1>1, <2>2, <2>3
    <2>5. t \in Seq(SeqRange) /\ Len(t) = n - 1
      BY <2>1, <2>4, FunctionIsSeq
    <2>6. \A i \in 1..(n - 1) : /\ i < k => t[i] = rs[i] /\ i \in 1..n
                                /\ i = k => t[i] = m
                                /\ i > k => t[i] = rs[i + 1] /\ (i + 1) \in 1..n /\ i + 1 > k + 1
      BY <1>1, <2>3
    <2>7. Ascending(t)
      <3>1. ASSUME NEW i \in 1..(n - 1) PROVE t[i].first <= t[i].last
        <4>1. CASE i < k
          BY <2>6, <4>1 DEF Nearly
        <4>2. CASE i = k
          <5>1. t[i] = m
            BY <2>6, <4>2
          <5>2. rs[k].first <= rs[k].last /\ rs[k + 1].first <= rs[k + 1].last
            BY <2>1 DEF Nearly
          <5>3. /\ rs[k].first \in Int /\ rs[k].last \in Int
                /\ rs[k + 1].first \in Int /\ rs[k + 1].last \in Int
            BY <1>1, <2>1
          <5> QED BY <1>3, <2>2, <5>1, <5>2, <5>3
        <4>3. CASE i > k
          <5>1. t[i] = rs[i + 1] /\ (i + 1) \in 1..n
            BY <2>6, <4>3
          <5> QED BY <5>1 DEF Nearly
        <4> QED BY <2>1, <4>1, <4>2, <4>3
      <3>2. ASSUME NEW i \in 1..(n - 1), NEW j \in 1..(n - 1), i < j
            PROVE  t[i].last + 1 < t[j].first
        <4>1. CASE j < k
          <5>1. t[i] = rs[i] /\ t[j] = rs[j] /\ i \in 1..n /\ j \in 1..n /\ j # k + 1
            BY <2>1, <2>6, <3>2, <4>1
          <5>2. i # k
            BY <2>1, <3>2, <4>1
          <5> QED BY <3>2, <5>1, <5>2 DEF Nearly
        <4>2. CASE j = k
          <5>1. t[i] = rs[i] /\ i \in 1..n /\ i < k /\ i # k
            BY <2>1, <2>6, <3>2, <4>2
          <5>2. t[j].first = rs[k].first
            BY <2>2, <2>6, <4>2
          <5>3. rs[i].last + 1 < rs[k].first
            BY <2>1, <5>1 DEF Nearly
          <5> QED BY <5>1, <5>2, <5>3
        <4>3. CASE j > k
          <5>1. t[j] = rs[j + 1] /\ (j + 1) \in 1..n /\ j + 1 > k + 1
            BY <2>6, <4>3
          <5>2. CASE i < k
            <6>1. t[i] = rs[i] /\ i \in 1..n /\ i < j + 1 /\ i # k
              BY <2>1, <2>6, <5>1, <5>2
            <6> QED BY <5>1, <6>1 DEF Nearly
          <5>3. CASE i = k
            BY <1>1, <2>1, <2>2, <2>6, <5>1, <5>3 DEF Nearly
          <5>4. CASE i > k
            <6>1. t[i] = rs[i + 1] /\ (i + 1) \in 1..n /\ i + 1 < j + 1 /\ i + 1 # k
              BY <2>1, <2>6, <3>2, <5>4
            <6> QED BY <5>1, <6>1 DEF Nearly
          <5> QED BY <2>1, <5>2, <5>3, <5>4
        <4> QED BY <2>1, <4>1, <4>2, <4>3
      <3> QED BY <2>5, <3>1, <3>2 DEF Ascending
    <2>8. ASSUME NEW x \in Seqs
          PROVE  (\E i \in 1..(n - 1) : Within(x, t[i])) <=> (\E i \in 1..n : Within(x, rs[i]))
      <3>1. x \in Int
        BY DEF Seqs
      <3>2. Within(x, m) <=> Within(x, rs[k]) \/ Within(x, rs[k + 1])
        BY <1>1, <1>3, <2>1, <2>2, <3>1 DEF Within, Nearly
      <3>3. ASSUME NEW i \in 1..(n - 1), Within(x, t[i])
            PROVE  \E j \in 1..n : Within(x, rs[j])
        <4>1. CASE i = k
          BY <2>1, <2>6, <3>2, <3>3, <4>1
        <4>2. CASE i < k
          BY <2>6, <3>3, <4>2
        <4>3. CASE i > k
          <5>1. t[i] = rs[i + 1] /\ (i + 1) \in 1..n
            BY <2>6, <4>3
          <5> QED BY <3>3, <5>1
        <4> QED BY <2>1, <4>1, <4>2, <4>3
      <3>4. ASSUME NEW i \in 1..n, Within(x, rs[i])
            PROVE  \E j \in 1..(n - 1) : Within(x, t[j])
        <4>1. CASE i < k
          <5>1. i \in 1..(n - 1) /\ t[i] = rs[i]
            BY <1>1, <2>1, <2>3, <4>1
          <5> QED BY <3>4, <5>1
        <4>2. CASE i = k \/ i = k + 1
          <5>1. k \in 1..(n - 1) /\ t[k] = m
            BY <1>1, <2>1, <2>3
          <5> QED BY <3>2, <3>4, <4>2, <5>1
        <4>3. CASE i > k + 1
          <5>1. (i - 1) \in 1..(n - 1) /\ t[i - 1] = rs[i]
            BY <1>1, <2>1, <2>3, <4>3
          <5> QED BY <3>4, <5>1
        <4> QED BY <2>1, <4>1, <4>2, <4>3
      <3> QED BY <3>3, <3>4
    <2>9. Covered(t) = Covered(rs)
      BY <2>5, <2>8 DEF Covered
    <2> QED BY <2>5, <2>7, <2>9 DEF t
  <1> QED BY <1>1, <1>2, <1>3

(* Putting a new range in place of the k-th.                                *)
LEMMA ReplaceFacts ==
    ASSUME NEW rs \in Seq(SeqRange), NEW k \in 1..Len(rs), NEW r \in SeqRange
    PROVE  LET t == [rs EXCEPT ![k] = r]
           IN  /\ t \in Seq(SeqRange) /\ Len(t) = Len(rs)
               /\ t[k] = r
               /\ \A i \in 1..Len(rs) : i # k => t[i] = rs[i]
  OBVIOUS

(* received() of the number just below a range: the range grows by it.      *)
LEMMA GrowFirstFacts ==
    ASSUME NEW rs \in Seq(SeqRange), Ascending(rs), NEW s \in Seqs, NEW k \in 1..Len(rs),
           s = rs[k].first - 1,
           \A j \in 1..(k - 1) : s > rs[j].last + 1
    PROVE  /\ GrowFirst(rs, k) \in Seq(SeqRange)
           /\ Ascending(GrowFirst(rs, k))
           /\ s \notin Covered(rs)
           /\ Covered(GrowFirst(rs, k)) = Covered(rs) \cup {s}
  <1> DEFINE r == [first |-> s, last |-> rs[k].last]
             t == [rs EXCEPT ![k] = r]
             n == Len(rs)
  <1>1. n \in Nat /\ \A i \in 1..n : /\ rs[i] \in SeqRange
                                     /\ rs[i].first \in Int /\ rs[i].last \in Int
                                     /\ rs[i].first \in Seqs /\ rs[i].last \in Seqs
    BY RangeFacts
  <1>2. r \in SeqRange /\ r.first = s /\ r.last = rs[k].last /\ s \in Int
    BY <1>1, MaxSeqNat DEF SeqRange, Seqs
  <1>3. GrowFirst(rs, k) = Merge(t, k - 1)
    BY DEF GrowFirst
  <1>4. t \in Seq(SeqRange) /\ Len(t) = n /\ t[k] = r /\ \A i \in 1..n : i # k => t[i] = rs[i]
    BY <1>2, ReplaceFacts
  <1> HIDE DEF t, r
  <1>5. Nearly(t, k - 1)
    <2>1. ASSUME NEW i \in 1..n PROVE t[i].first <= t[i].last
      BY <1>1, <1>2, <1>4 DEF Ascending
    <2>2. ASSUME NEW i \in 1..n, NEW j \in 1..n, i < j PROVE t[i].last + 1 < t[j].first
      <3>1. CASE i = k
        BY <1>1, <1>2, <1>4, <2>2, <3>1 DEF Ascending
      <3>2. CASE j = k
        BY <1>1, <1>2, <1>4, <2>2, <3>2 DEF Ascending
      <3>3. CASE i # k /\ j # k
        BY <1>1, <1>4, <2>2, <3>3 DEF Ascending
      <3> QED BY <3>1, <3>2, <3>3
    <2> QED BY <1>4, <2>1, <2>2 DEF Nearly
  <1>6. \A i \in 1..n : ~Within(s, rs[i])
    <2> SUFFICES ASSUME NEW i \in 1..n PROVE ~Within(s, rs[i])
      OBVIOUS
    <2>1. CASE i < k
      BY <1>1, <1>2, <2>1 DEF Within
    <2>2. CASE i = k
      BY <1>1, <2>2 DEF Within
    <2>3. CASE i > k
      BY <1>1, <1>2, <2>3 DEF Within, Ascending
    <2> QED BY <1>1, <2>1, <2>2, <2>3
  <1>7. Covered(t) = Covered(rs) \cup {s}
    <2>1. ASSUME NEW x \in Seqs PROVE Within(x, r) <=> x = s \/ Within(x, rs[k])
      <3>1. x \in Int
        BY MaxSeqNat DEF Seqs
      <3>2. rs[k].first <= rs[k].last /\ rs[k].first \in Int /\ rs[k].last \in Int
        BY <1>1 DEF Ascending
      <3> QED BY <1>2, <3>1, <3>2 DEF Within
    <2> QED BY <1>4, <2>1 DEF Covered
  <1>8. /\ Merge(t, k - 1) \in Seq(SeqRange)
        /\ Ascending(Merge(t, k - 1))
        /\ Covered(Merge(t, k - 1)) = Covered(t)
    <2>1. (k - 1) \in 0..Len(t)
      BY <1>1, <1>4
    <2> QED BY <1>4, <1>5, <2>1, MergeFacts
  <1> QED BY <1>3, <1>6, <1>7, <1>8 DEF Covered

(* received() of the number just above a range: the range grows by it, and  *)
(* may reach the next one.                                                  *)
LEMMA GrowLastFacts ==
    ASSUME NEW rs \in Seq(SeqRange), Ascending(rs), NEW s \in Seqs, NEW k \in 1..Len(rs),
           s = rs[k].last + 1
    PROVE  /\ GrowLast(rs, k) \in Seq(SeqRange)
           /\ Ascending(GrowLast(rs, k))
           /\ s \notin Covered(rs)
           /\ Covered(GrowLast(rs, k)) = Covered(rs) \cup {s}
  <1> DEFINE r == [first |-> rs[k].first, last |-> s]
             t == [rs EXCEPT ![k] = r]
             n == Len(rs)
  <1>1. n \in Nat /\ \A i \in 1..n : /\ rs[i] \in SeqRange
                                     /\ rs[i].first \in Int /\ rs[i].last \in Int
                                     /\ rs[i].first \in Seqs /\ rs[i].last \in Seqs
    BY RangeFacts
  <1>2. r \in SeqRange /\ r.first = rs[k].first /\ r.last = s /\ s \in Int
    BY <1>1, MaxSeqNat DEF SeqRange, Seqs
  <1>3. GrowLast(rs, k) = Merge(t, k)
    BY DEF GrowLast
  <1>4. t \in Seq(SeqRange) /\ Len(t) = n /\ t[k] = r /\ \A i \in 1..n : i # k => t[i] = rs[i]
    BY <1>2, ReplaceFacts
  <1> HIDE DEF t, r
  <1>5. Nearly(t, k)
    <2>1. ASSUME NEW i \in 1..n PROVE t[i].first <= t[i].last
      BY <1>1, <1>2, <1>4 DEF Ascending
    <2>2. ASSUME NEW i \in 1..n, NEW j \in 1..n, i < j
          PROVE  \/ t[i].last + 1 < t[j].first
                 \/ i = k /\ j = k + 1 /\ t[i].last + 1 = t[j].first
      <3>1. CASE i = k /\ j = k + 1
        <4>1. rs[k].last + 1 < rs[j].first
          BY <2>2, <3>1 DEF Ascending
        <4>2. t[i].last = s /\ t[j] = rs[j] /\ rs[j].first \in Int
          BY <1>1, <1>2, <1>4, <3>1
        <4> QED BY <1>2, <3>1, <4>1, <4>2
      <3>2. CASE i = k /\ j > k + 1
        <4>1. (k + 1) \in 1..n /\ k < k + 1 /\ k + 1 < j
          BY <1>1, <3>2
        <4>2. rs[k].last + 1 < rs[k + 1].first /\ rs[k + 1].first <= rs[k + 1].last
              /\ rs[k + 1].last + 1 < rs[j].first
          BY <4>1 DEF Ascending
        <4>3. t[i].last = s /\ t[j] = rs[j]
          BY <1>2, <1>4, <3>2, <4>1
        <4>4. rs[k + 1].first \in Int /\ rs[k + 1].last \in Int /\ rs[j].first \in Int
          BY <1>1, <4>1
        <4>5. s < rs[k + 1].last
          BY <1>2, <4>2, <4>4
        <4>6. s + 1 < rs[j].first
          BY <1>2, <4>2, <4>4, <4>5
        <4> QED BY <4>3, <4>6
      <3>3. CASE j = k
        BY <1>1, <1>2, <1>4, <2>2, <3>3 DEF Ascending
      <3>4. CASE i # k /\ j # k
        BY <1>1, <1>4, <2>2, <3>4 DEF Ascending
      <3> QED BY <1>1, <2>2, <3>1, <3>2, <3>3, <3>4
    <2> QED BY <1>4, <2>1, <2>2 DEF Nearly
  <1>6. \A i \in 1..n : ~Within(s, rs[i])
    <2> SUFFICES ASSUME NEW i \in 1..n PROVE ~Within(s, rs[i])
      OBVIOUS
    <2>1. CASE i < k
      BY <1>1, <1>2, <2>1 DEF Within, Ascending
    <2>2. CASE i = k
      BY <1>1, <2>2 DEF Within
    <2>3. CASE i > k
      BY <1>1, <1>2, <2>3 DEF Within, Ascending
    <2> QED BY <1>1, <2>1, <2>2, <2>3
  <1>7. Covered(t) = Covered(rs) \cup {s}
    <2>1. ASSUME NEW x \in Seqs PROVE Within(x, r) <=> x = s \/ Within(x, rs[k])
      <3>1. x \in Int /\ rs[k].first \in Int /\ rs[k].last \in Int
        BY <1>1 DEF Seqs
      <3>2. rs[k].first <= rs[k].last
        BY DEF Ascending
      <3> QED BY <1>2, <3>1, <3>2 DEF Within
    <2> QED BY <1>4, <2>1 DEF Covered
  <1>8. /\ Merge(t, k) \in Seq(SeqRange)
        /\ Ascending(Merge(t, k))
        /\ Covered(Merge(t, k)) = Covered(t)
    <2>1. k \in 0..Len(t)
      BY <1>1, <1>4
    <2> QED BY <1>4, <1>5, <2>1, MergeFacts
  <1> QED BY <1>3, <1>6, <1>7, <1>8 DEF Covered

(* received() keeps the list canonical and answers as the set does.         *)
LEMMA ReceivedStep ==
    ASSUME TrackerInv, NEW s \in Seqs, Received(s)
    PROVE  TrackerInv' /\ Set!Received(s)
  <1>1. ranges \in Seq(SeqRange) /\ Ascending(ranges)
    BY DEF TrackerInv, TypeOK, Canonical
  <1>2. SUFFICES /\ ranges' \in Seq(SeqRange) /\ Ascending(ranges')
                 /\ isNew' = (s \notin Covered(ranges))
                 /\ Covered(ranges') = Covered(ranges) \cup {s}
    BY DEF TrackerInv, TypeOK, Canonical, Received, Set!Received
  <1>3. CASE \A k \in 1..Len(ranges) : s > ranges[k].last + 1
    <2>1. ranges' = Insert(ranges, Len(ranges) + 1, Single(s)) /\ isNew' = TRUE
      <3>1. \A k \in 1..Len(ranges) : ~Reaches(ranges, s, k)
        BY <1>1, <1>3, RangeFacts, MaxSeqNat DEF Reaches, Seqs
      <3> QED BY <3>1 DEF Received
    <2>2. /\ (Len(ranges) + 1) \in 1..(Len(ranges) + 1)
          /\ ~(Len(ranges) + 1 <= Len(ranges))
          /\ \A j \in 1..(Len(ranges) + 1 - 1) : s > ranges[j].last + 1
      BY <1>1, <1>3, RangeFacts
    <2> DEFINE k == Len(ranges) + 1
    <2>3. k \in 1..(Len(ranges) + 1) /\ (k <= Len(ranges) => s < ranges[k].first - 1)
          /\ \A j \in 1..(k - 1) : s > ranges[j].last + 1
      BY <2>2
    <2>4. ranges' = Insert(ranges, k, Single(s))
      BY <2>1
    <2> HIDE DEF k
    <2>5. /\ Insert(ranges, k, Single(s)) \in Seq(SeqRange)
          /\ Ascending(Insert(ranges, k, Single(s)))
          /\ s \notin Covered(ranges)
          /\ Covered(Insert(ranges, k, Single(s))) = Covered(ranges) \cup {s}
      BY <1>1, <2>3, InsertFacts
    <2> QED BY <2>1, <2>4, <2>5
  <1>4. CASE ~(\A k \in 1..Len(ranges) : s > ranges[k].last + 1)
    <2>1. PICK k \in 1..Len(ranges) :
            /\ Reaches(ranges, s, k)
            /\ \/ /\ Within(s, ranges[k])
                  /\ isNew' = FALSE
                  /\ ranges' = ranges
               \/ /\ s = ranges[k].first - 1
                  /\ isNew' = TRUE
                  /\ ranges' = GrowFirst(ranges, k)
               \/ /\ s < ranges[k].first - 1
                  /\ isNew' = TRUE
                  /\ ranges' = Insert(ranges, k, Single(s))
               \/ /\ s = ranges[k].last + 1
                  /\ isNew' = TRUE
                  /\ ranges' = GrowLast(ranges, k)
      BY <1>4 DEF Received
    <2>2. \A j \in 1..(k - 1) : s > ranges[j].last + 1
      BY <2>1 DEF Reaches
    <2>3. CASE Within(s, ranges[k]) /\ isNew' = FALSE /\ ranges' = ranges
      BY <1>1, <2>3 DEF Covered
    <2>4. CASE s = ranges[k].first - 1 /\ isNew' = TRUE /\ ranges' = GrowFirst(ranges, k)
      BY <1>1, <2>2, <2>4, GrowFirstFacts
    <2>5. CASE s < ranges[k].first - 1 /\ isNew' = TRUE /\ ranges' = Insert(ranges, k, Single(s))
      <3>1. k \in 1..(Len(ranges) + 1)
        BY <1>1, RangeFacts
      <3> QED BY <1>1, <2>2, <2>5, <3>1, InsertFacts
    <2>6. CASE s = ranges[k].last + 1 /\ isNew' = TRUE /\ ranges' = GrowLast(ranges, k)
      BY <1>1, <2>6, GrowLastFacts
    <2> QED BY <2>1, <2>3, <2>4, <2>5, <2>6
  <1> QED BY <1>3, <1>4

(* nextMissing() looks at the head only, and is right.                      *)
LEMMA NextMissingStep ==
    ASSUME TrackerInv, NextMissing
    PROVE  TrackerInv' /\ Set!NextMissing
  <1> DEFINE n == LeastMissing(ranges)
  <1>1. ranges \in Seq(SeqRange) /\ Ascending(ranges)
    BY DEF TrackerInv, TypeOK, Canonical
  <1>2. Len(ranges) \in Nat /\ \A i \in 1..Len(ranges) :
            /\ ranges[i].first \in Int /\ ranges[i].last \in Int
            /\ ranges[i].first \in Seqs /\ ranges[i].last \in Seqs
    BY <1>1, RangeFacts
  <1>3. n \in 0..(MaxSeq + 1) /\ n \notin Covered(ranges) /\ \A m \in 0..(n - 1) : m \in Covered(ranges)
    <2>1. CASE ranges = <<>>
      BY <2>1, MaxSeqNat DEF LeastMissing, Covered
    <2>2. CASE ranges # <<>> /\ ranges[1].first # 0
      <3>1. n = 0 /\ 1 \in 1..Len(ranges)
        BY <1>1, <1>2, <2>2 DEF LeastMissing
      <3>2. \A i \in 1..Len(ranges) : 0 < ranges[i].first
        BY <1>1, <1>2, <2>2, <3>1, MaxSeqNat DEF Ascending, Seqs
      <3> QED BY <1>2, <3>1, <3>2, MaxSeqNat DEF Covered, Within
    <2>3. CASE ranges # <<>> /\ ranges[1].first = 0
      <3>1. n = ranges[1].last + 1 /\ 1 \in 1..Len(ranges)
        BY <1>1, <1>2, <2>3 DEF LeastMissing
      <3>2. \A i \in 1..Len(ranges) : ~Within(n, ranges[i])
        BY <1>1, <1>2, <3>1 DEF Ascending, Within
      <3>3. ASSUME NEW m \in 0..(n - 1) PROVE m \in Covered(ranges)
        <4>1. m \in Seqs
          BY <1>2, <3>1, MaxSeqNat DEF Seqs
        <4>2. Within(m, ranges[1])
          BY <1>2, <2>3, <3>1 DEF Within
        <4> QED BY <3>1, <4>1, <4>2 DEF Covered
      <3>4. n \in 0..(MaxSeq + 1)
        BY <1>2, <3>1, MaxSeqNat DEF Seqs
      <3> QED BY <3>2, <3>3, <3>4 DEF Covered
    <2> QED BY <2>1, <2>2, <2>3
  <1>4. ranges' = ranges /\ isNew' = isNew /\ missing' = n
    BY DEF NextMissing
  <1>5. Covered(ranges') = Covered(ranges)
    BY <1>4
  <1> HIDE DEF n
  <1>6. TrackerInv'
    BY <1>3, <1>4 DEF TrackerInv, TypeOK, Canonical
  <1> QED BY <1>3, <1>4, <1>5, <1>6 DEF Set!NextMissing, Set!IsLeastMissing

(* Parsing what toString() wrote gives the same list.                       *)
LEMMA ReloadStep ==
    ASSUME TrackerInv, Reload
    PROVE  ranges' = ranges /\ isNew' = isNew /\ missing' = missing
  <1>1. ranges \in Seq(SeqRange)
    BY DEF TrackerInv, TypeOK
  <1>2. Len(ranges) \in Nat /\ \A i \in 1..Len(ranges) : ranges[i] \in SeqRange
    BY <1>1, RangeFacts
  <1> DEFINE text == ToText(ranges)
             item(i) == IF ranges[i].first = ranges[i].last THEN <<ranges[i].first>>
                        ELSE <<ranges[i].first, ranges[i].last>>
  <1>3. text = [i \in 1..Len(ranges) |-> item(i)]
    BY DEF ToText
  <1>4. \A i \in 1..Len(ranges) : text[i] = item(i)
    BY <1>3
  <1>5. Len(text) = Len(ranges)
    <2>1. text \in [1..Len(ranges) -> {item(i) : i \in 1..Len(ranges)}]
      BY <1>3
    <2> QED BY <1>2, <2>1, FunctionIsSeq
  <1>6. \A i \in 1..Len(ranges) : [first |-> item(i)[1], last |-> item(i)[Len(item(i))]] = ranges[i]
    <2> SUFFICES ASSUME NEW i \in 1..Len(ranges)
                 PROVE  [first |-> item(i)[1], last |-> item(i)[Len(item(i))]] = ranges[i]
      OBVIOUS
    <2>1. ranges[i] = [first |-> ranges[i].first, last |-> ranges[i].last]
      BY <1>2 DEF SeqRange
    <2>2. item(i)[1] = ranges[i].first /\ item(i)[Len(item(i))] = ranges[i].last
      OBVIOUS
    <2> QED BY <2>1, <2>2
  <1> HIDE DEF text, item
  <1>7. Parse(text) = [i \in 1..Len(ranges) |-> ranges[i]]
    BY <1>4, <1>5, <1>6 DEF Parse
  <1>8. Parse(text) = ranges
    BY <1>1, <1>7
  <1> QED BY <1>8 DEF Reload, text

(* The initial list is canonical and stands for the empty set.              *)
LEMMA TrackerInit == Init => TrackerInv /\ Set!Init
  <1> SUFFICES ASSUME Init PROVE TrackerInv /\ Set!Init
    OBVIOUS
  <1>1. ranges = <<>> /\ isNew = FALSE /\ missing = 0
    BY DEF Init
  <1>2. ranges \in Seq(SeqRange) /\ Len(ranges) = 0
    BY <1>1
  <1>3. TypeOK
    <2>1. missing \in 0..(MaxSeq + 1)
      BY <1>1, MaxSeqNat
    <2> QED BY <1>1, <1>2, <2>1 DEF TypeOK
  <1>4. Canonical
    BY <1>2 DEF Canonical, Ascending
  <1>5. Covered(ranges) = {}
    BY <1>2 DEF Covered
  <1> QED BY <1>1, <1>3, <1>4, <1>5 DEF TrackerInv, Set!Init

(* Every step keeps the invariant and is a step, or none, of the set.       *)
LEMMA TrackerNext == TrackerInv /\ [Next]_vars => TrackerInv' /\ [Set!Next]_(Set!vars)
  <1> SUFFICES ASSUME TrackerInv, [Next]_vars PROVE TrackerInv' /\ [Set!Next]_(Set!vars)
    OBVIOUS
  <1>1. ASSUME NEW s \in Seqs, Received(s) PROVE TrackerInv' /\ Set!Next
    BY <1>1, ReceivedStep DEF Set!Next, Set!Seqs, Seqs
  <1>2. CASE NextMissing
    BY <1>2, NextMissingStep DEF Set!Next
  <1>3. CASE ranges' = ranges /\ isNew' = isNew /\ missing' = missing
    BY <1>3 DEF TrackerInv, TypeOK, Canonical, Set!vars
  <1>4. CASE Reload
    BY <1>3, <1>4, ReloadStep
  <1>5. CASE UNCHANGED vars
    BY <1>3, <1>5 DEF vars
  <1> QED BY <1>1, <1>2, <1>4, <1>5 DEF Next

(* TrackerCanonical: in whatever order numbers arrive, and across restarts,  *)
(* the ranges ascend and never touch.                                        *)
THEOREM TrackerCanonical == Spec => []Canonical
  <1>1. TrackerInv => Canonical
    BY DEF TrackerInv
  <1> QED BY TrackerInit, TrackerNext, <1>1, PTL DEF Spec

(* TrackerIsSet: received() and nextMissing() answer as the set of received  *)
(* numbers would, for every MaxSeq.                                          *)
THEOREM TrackerIsSet == Spec => TracksSet
  BY TrackerInit, TrackerNext, PTL DEF Spec, TracksSet, Set!Spec
=============================================================================
