------------------------- MODULE RecordStoreProofs -------------------------
(* Proofs that the storage invariants of RecordStore hold for every set of   *)
(* files, bytes, records and peer versions, and for files of every length.   *)
EXTENDS RecordStore, SequenceTheorems, FiniteSetTheorems, TLAPS

-----------------------------------------------------------------------------
(* Facts about prefixes and in-place writes.                                 *)

(* The first n bytes of a sequence at least that long are a sequence of      *)
(* length n, with the same bytes.                                            *)
LEMMA PrefixFacts ==
    ASSUME NEW c \in Contents, NEW n \in Nat, n <= Len(c)
    PROVE  /\ Prefix(c, n) \in Contents
           /\ Len(Prefix(c, n)) = n
           /\ \A i \in 1..n : Prefix(c, n)[i] = c[i]
BY SubSeqProperties DEF Prefix, Contents

(* A prefix of a prefix is a prefix.                                         *)
LEMMA PrefixOfPrefix ==
    ASSUME NEW c \in Contents, NEW n \in Nat, NEW k \in Nat, k <= n, n <= Len(c)
    PROVE  Prefix(Prefix(c, n), k) = Prefix(c, k)
<1>1. /\ Prefix(c, n) \in Contents /\ Len(Prefix(c, n)) = n
      /\ \A i \in 1..n : Prefix(c, n)[i] = c[i]
  BY PrefixFacts
<1>2. /\ Prefix(c, k) \in Contents /\ Len(Prefix(c, k)) = k
      /\ \A i \in 1..k : Prefix(c, k)[i] = c[i]
  BY PrefixFacts
<1>3. /\ Prefix(Prefix(c, n), k) \in Contents /\ Len(Prefix(Prefix(c, n), k)) = k
      /\ \A i \in 1..k : Prefix(Prefix(c, n), k)[i] = Prefix(c, n)[i]
  BY <1>1, PrefixFacts
<1>. QED  BY <1>1, <1>2, <1>3, SeqEqual DEF Contents

(* Concatenation keeps the first sequence in front.                          *)
LEMMA ConcatFacts ==
    ASSUME NEW s \in Contents, NEW t \in Contents
    PROVE  /\ s \o t \in Contents
           /\ Len(s \o t) = Len(s) + Len(t)
           /\ \A i \in 1..Len(s) : (s \o t)[i] = s[i]
BY DEF Contents

(* Writing at an offset inside the file: the bytes below the offset stay,    *)
(* and up to the end of what was written the file is the old prefix followed *)
(* by the new bytes.                                                         *)
LEMMA WriteAtFacts ==
    ASSUME NEW c \in Contents, NEW b \in Contents, NEW o \in Nat, o <= Len(c)
    PROVE  /\ WriteAt(c, o, b) \in Contents
           /\ o + Len(b) <= Len(WriteAt(c, o, b))
           /\ Prefix(WriteAt(c, o, b), o + Len(b)) = Prefix(c, o) \o b
           /\ \A k \in 0..o : Prefix(WriteAt(c, o, b), k) = Prefix(c, k)
<1> DEFINE p == Prefix(c, o)
           t == SubSeq(c, o + Len(b) + 1, Len(c))
           w == WriteAt(c, o, b)
<1>1. /\ p \in Seq(Byte) /\ Len(p) = o /\ \A i \in 1..o : p[i] = c[i]
  BY PrefixFacts DEF Contents
<1>2. t \in Seq(Byte)
  BY SubSeqProperties DEF Contents
<1> HIDE DEF p, t
<1>3. /\ p \o b \in Seq(Byte) /\ Len(p \o b) = o + Len(b)
      /\ \A i \in 1..o : (p \o b)[i] = p[i]
  BY <1>1 DEF Contents
<1>5. Len(b) \in Nat /\ Len(t) \in Nat
  BY <1>2, LenProperties DEF Contents
<1>4. /\ w = (p \o b) \o t
      /\ w \in Seq(Byte) /\ Len(w) = o + Len(b) + Len(t)
      /\ \A i \in 1..(o + Len(b)) : w[i] = (p \o b)[i]
  <2>1. w = (p \o b) \o t
    BY DEF WriteAt, p, t
  <2> DEFINE q == p \o b
  <2>2. q \in Seq(Byte) /\ Len(q) = o + Len(b)
    BY <1>3
  <2> HIDE DEF q
  <2>3. /\ q \o t \in Seq(Byte) /\ Len(q \o t) = o + Len(b) + Len(t)
        /\ \A i \in 1..(o + Len(b)) : (q \o t)[i] = q[i]
    <3>1. /\ q \o t \in Contents /\ Len(q \o t) = Len(q) + Len(t)
          /\ \A i \in 1..Len(q) : (q \o t)[i] = q[i]
      BY <1>2, <2>2, ConcatFacts DEF Contents
    <3>. QED  BY <2>2, <3>1 DEF Contents
  <2>. QED  BY <2>1, <2>3 DEF q
<1> HIDE DEF w
<1>6. w \in Contents /\ o + Len(b) <= Len(w)
  BY <1>4, <1>5 DEF Contents
<1>7. Prefix(w, o + Len(b)) = p \o b
  <2>1. /\ Prefix(w, o + Len(b)) \in Seq(Byte) /\ Len(Prefix(w, o + Len(b))) = o + Len(b)
        /\ \A i \in 1..(o + Len(b)) : Prefix(w, o + Len(b))[i] = w[i]
    <3>1. w \in Contents /\ o + Len(b) \in Nat /\ o + Len(b) <= Len(w)
      BY <1>5, <1>6
    <3>. QED  BY <3>1, PrefixFacts DEF Contents
  <2>. QED  BY <1>3, <1>4, <2>1, SeqEqual
<1>8. ASSUME NEW k \in 0..o
      PROVE  Prefix(w, k) = Prefix(c, k)
  <2>1. /\ Prefix(w, k) \in Seq(Byte) /\ Len(Prefix(w, k)) = k
        /\ \A i \in 1..k : Prefix(w, k)[i] = w[i]
    <3>1. w \in Contents /\ k \in Nat /\ k <= Len(w)
      BY <1>4, <1>5, <1>6
    <3>. QED  BY <3>1, PrefixFacts DEF Contents
  <2>2. /\ Prefix(c, k) \in Seq(Byte) /\ Len(Prefix(c, k)) = k
        /\ \A i \in 1..k : Prefix(c, k)[i] = c[i]
    BY PrefixFacts DEF Contents
  <2>3. \A i \in 1..k : w[i] = c[i]
    BY <1>1, <1>3, <1>4, <1>5
  <2>. QED  BY <2>1, <2>2, <2>3, SeqEqual
<1>. QED  BY <1>6, <1>7, <1>8 DEF p, w

-----------------------------------------------------------------------------
(* The storage invariant: types, the digest over the committed bytes, and    *)
(* the agreement of the Java, native and on-disk views of an open file.      *)
(* CommittedOnDisk is not inductive alone: that a commit's digest is over    *)
(* the bytes on disk needs AppendCoherent before the commit.                 *)
StorageInv == TypeOK /\ CommittedOnDisk /\ AppendCoherent

(* Absorbing bytes changes the append in progress and nothing committed.     *)
LEMMA AbsorbFacts ==
    ASSUME NEW m \in NativeFile, NEW r \in Contents
    PROVE  LET n == Absorb(m, r)
           IN  /\ n \in NativeFile
               /\ n.new_length = m.new_length + Len(r) /\ n.new_hash = m.new_hash \o r
               /\ n.length = m.length /\ n.hash = m.hash
               /\ n.partial_hash = m.partial_hash
<1> DEFINE h == m.new_hash \o r
           l == m.new_length + Len(r)
<1>1. h \in Contents /\ l \in Nat
  BY ConcatFacts, LenProperties DEF NativeFile, Contents
<1>2. Absorb(m, r) = [m EXCEPT !.new_length = l, !.new_hash = h]
  BY DEF Absorb
<1> HIDE DEF h, l
<1>3. /\ Absorb(m, r) \in NativeFile
      /\ Absorb(m, r).new_length = l /\ Absorb(m, r).new_hash = h
      /\ Absorb(m, r).length = m.length /\ Absorb(m, r).hash = m.hash
      /\ Absorb(m, r).partial_hash = m.partial_hash
  BY <1>1, <1>2 DEF NativeFile
<1>. QED  BY <1>3 DEF h, l

(* What an append leaves: the native state n, the bytes c and the Java       *)
(* offset a agree, and the bytes below the old end are untouched.            *)
LEMMA AppendFacts ==
    ASSUME StorageInv, NEW f \in opened, NEW r \in Contents
    PROVE  LET n == Absorb(native[f], r)
               c == WriteAt(disk[f], appendOffset[f], r)
               a == appendOffset[f] + Len(r)
           IN  /\ n \in NativeFile
               /\ c \in Contents
               /\ Persisted(n) = files[f]
               /\ n.length = EOF[f]
               /\ n.new_length = a
               /\ n.length <= a /\ a <= Len(c)
               /\ n.new_hash = Prefix(c, a)
               /\ Prefix(c, n.length) = Prefix(disk[f], n.length)
<1> DEFINE m == native[f]
           o == appendOffset[f]
<1>1. /\ f \in Files /\ m \in NativeFile /\ o \in Nat /\ disk[f] \in Contents
      /\ Len(r) \in Nat
  BY LenProperties DEF StorageInv, TypeOK, Contents
<1>2. /\ Persisted(m) = files[f] /\ EOF[f] = m.length /\ o = m.new_length
      /\ m.length <= o /\ o <= Len(disk[f]) /\ m.new_hash = Prefix(disk[f], o)
  BY <1>1 DEF StorageInv, AppendCoherent
<1> DEFINE n == Absorb(m, r)
           c == WriteAt(disk[f], o, r)
<1>3. /\ c \in Contents /\ o + Len(r) <= Len(c)
      /\ Prefix(c, o + Len(r)) = Prefix(disk[f], o) \o r
      /\ \A k \in 0..o : Prefix(c, k) = Prefix(disk[f], k)
  BY <1>1, <1>2, WriteAtFacts
<1>4. m.length \in Nat /\ m.new_hash \in Contents /\ m.new_hash \o r \in Contents
  BY <1>1, ConcatFacts DEF NativeFile
<1>5. /\ n \in NativeFile /\ n.new_length = o + Len(r) /\ n.new_hash = m.new_hash \o r
      /\ n.length = m.length /\ n.hash = m.hash /\ n.partial_hash = m.partial_hash
  <2>1. m \in NativeFile
    BY <1>1
  <2> HIDE DEF m
  <2>2. /\ n \in NativeFile /\ n.new_length = m.new_length + Len(r)
        /\ n.new_hash = m.new_hash \o r
        /\ n.length = m.length /\ n.hash = m.hash /\ n.partial_hash = m.partial_hash
    BY <2>1, AbsorbFacts
  <2>. QED  BY <1>2, <2>2
<1>6. Persisted(n) = files[f]
  BY <1>2, <1>5 DEF Persisted
<1>7. Prefix(c, n.length) = Prefix(disk[f], n.length)
  BY <1>1, <1>2, <1>3, <1>4, <1>5
<1> HIDE DEF n, c
<1>8. n.length <= o + Len(r)
  BY <1>1, <1>2, <1>4, <1>5
<1>. QED  BY <1>2, <1>3, <1>5, <1>6, <1>7, <1>8 DEF n, c

(* What file_flush can return, and when it has nothing to do.                *)
LEMMA FlushRetFacts ==
    ASSUME NEW n, NEW expected, NEW commits \in BOOLEAN
    PROVE  LET ret == FlushRet(n, expected, commits)
           IN  /\ ret \in {-1, 0, 1}
               /\ ret = 0 <=> n.length = n.new_length
               /\ ret = 1 => HashMatches(n, expected)
BY DEF FlushRet, NothingNew

(* Committing takes over the append in progress.                             *)
LEMMA AdvancedFacts ==
    ASSUME NEW n \in NativeFile
    PROVE  /\ Advanced(n) \in NativeFile
           /\ Advanced(n).length = n.new_length /\ Advanced(n).new_length = n.new_length
           /\ Advanced(n).new_hash = n.new_hash /\ Advanced(n).partial_hash = n.new_hash
           /\ Advanced(n).hash = Digest(n.new_hash)
<1> DEFINE d == Digest(n.new_hash)
<1>1. d \in SUBSET Contents
  BY DEF Digest, NativeFile
<1>2. Advanced(n) = [n EXCEPT !.length = n.new_length, !.partial_hash = n.new_hash, !.hash = d]
  BY DEF Advanced
<1> HIDE DEF d
<1>3. /\ Advanced(n) \in NativeFile
      /\ Advanced(n).length = n.new_length /\ Advanced(n).new_length = n.new_length
      /\ Advanced(n).new_hash = n.new_hash /\ Advanced(n).partial_hash = n.new_hash
      /\ Advanced(n).hash = d
  BY <1>1, <1>2 DEF NativeFile
<1>. QED  BY <1>3 DEF d

(* Rewinding forgets the append in progress.                                 *)
LEMMA RewoundFacts ==
    ASSUME NEW n \in NativeFile
    PROVE  /\ Rewound(n) \in NativeFile
           /\ Rewound(n).length = n.length /\ Rewound(n).new_length = n.length
           /\ Rewound(n).new_hash = n.partial_hash /\ Rewound(n).partial_hash = n.partial_hash
           /\ Rewound(n).hash = n.hash
BY DEF Rewound, NativeFile

(* The native state and the bytes on disk after a flush with result ret.     *)
LEMMA FlushedFacts ==
    ASSUME NEW n \in NativeFile, NEW c \in Contents, NEW a \in Nat, NEW ret \in {-1, 0, 1},
           n.new_length = a, n.length <= a, a <= Len(c), n.new_hash = Prefix(c, a),
           ret = 0 <=> n.length = n.new_length,
           n.partial_hash = Prefix(c, n.length),
           n.hash = IF n.length = 0 THEN ZeroHash ELSE Digest(Prefix(c, n.length))
    PROVE  LET n2 == CASE ret = 1 -> Advanced(n) [] ret = -1 -> Rewound(n) [] OTHER -> n
               a2 == IF ret = 0 THEN a ELSE n2.length
               c2 == IF ret = 0 THEN c ELSE Truncated(c, a, n2.length)
           IN  /\ n2 \in NativeFile /\ c2 \in Contents /\ a2 \in Nat
               /\ n2.new_length = a2 /\ n2.length <= a2 /\ a2 <= Len(c2)
               /\ n2.new_hash = Prefix(c2, a2)
               /\ n2.partial_hash = Prefix(c2, n2.length)
               /\ n2.hash = IF n2.length = 0 THEN ZeroHash
                            ELSE Digest(Prefix(c2, n2.length))
               /\ ret # 1 => n2.length = n.length /\ Persisted(n2) = Persisted(n)
               /\ n.length <= n2.length
               /\ Prefix(c2, n.length) = Prefix(c, n.length)
<1> DEFINE n2 == CASE ret = 1 -> Advanced(n) [] ret = -1 -> Rewound(n) [] OTHER -> n
           a2 == IF ret = 0 THEN a ELSE n2.length
           c2 == IF ret = 0 THEN c ELSE Truncated(c, a, n2.length)
<1>1. CASE ret = 1
  <2>1. n2 = Advanced(n)
    BY <1>1
  <2>2. /\ n2 \in NativeFile
        /\ n2.length = a /\ n2.new_length = a
        /\ n2.new_hash = n.new_hash /\ n2.partial_hash = n.new_hash
        /\ n2.hash = Digest(n.new_hash)
    BY <2>1, AdvancedFacts
  <2>3. a2 = a /\ c2 = c
    BY <1>1, <2>2 DEF Truncated
  <2>4. n.length # a /\ n.length \in Nat
    BY <1>1 DEF NativeFile
  <2>. HIDE DEF n2, a2, c2
  <2>5. a # 0 /\ n2.hash = Digest(Prefix(c, a))
    BY <2>2, <2>4
  <2>6. QED  BY <1>1, <2>2, <2>3, <2>5 DEF n2, a2, c2
<1>2. CASE ret = -1
  <2>1. n2 = Rewound(n)
    BY <1>2
  <2>2. /\ n2 \in NativeFile
        /\ n2.length = n.length /\ n2.new_length = n.length
        /\ n2.new_hash = n.partial_hash /\ n2.partial_hash = n.partial_hash
        /\ n2.hash = n.hash
    BY <2>1, RewoundFacts
  <2>3. n.length \in Nat /\ n.length # a /\ n.length < a /\ n.length <= Len(c)
    BY <1>2, LenProperties DEF NativeFile, Contents
  <2>4. a2 = n.length /\ c2 = Prefix(c, n.length)
    BY <1>2, <2>2, <2>3 DEF Truncated
  <2>5. /\ Prefix(c, n.length) \in Contents /\ Len(Prefix(c, n.length)) = n.length
        /\ Prefix(Prefix(c, n.length), n.length) = Prefix(c, n.length)
    BY <2>3, PrefixFacts, PrefixOfPrefix
  <2>6. Persisted(n2) = Persisted(n)
    BY <2>2 DEF Persisted
  <2>. HIDE DEF n2, a2, c2
  <2>7. QED  BY <1>2, <2>2, <2>3, <2>4, <2>5, <2>6 DEF n2, a2, c2
<1>3. CASE ret = 0
  <2>1. n2 = n /\ a2 = a /\ c2 = c /\ n.length = a
    BY <1>3
  <2>. QED  BY <1>3, <2>1
<1>. QED  BY <1>1, <1>2, <1>3

(* Flush keeps the digests and the views of file f in agreement.             *)
LEMMA FlushKeeps ==
    ASSUME StorageInv, NEW f \in opened, NEW r \in Contents, NEW ret \in {-1, 0, 1},
           ret = 0 <=> Absorb(native[f], r).length = Absorb(native[f], r).new_length,
           Flush(f, WriteAt(disk[f], appendOffset[f], r), appendOffset[f] + Len(r),
                 Absorb(native[f], r), ret),
           opened' = opened
    PROVE  /\ CommittedOnDisk' /\ AppendCoherent'
           /\ native' \in [Files -> NativeFile] /\ disk' \in [Files -> Contents]
           /\ appendOffset' \in [Files -> Nat] /\ files' \in [Files -> FileData]
           /\ EOF' \in [Files -> Int] /\ EOF'[f] \in Nat
           /\ \A g \in Files \ {f} : EOF'[g] = EOF[g]
<1> DEFINE n == Absorb(native[f], r)
           c == WriteAt(disk[f], appendOffset[f], r)
           a == appendOffset[f] + Len(r)
           n2 == CASE ret = 1 -> Advanced(n) [] ret = -1 -> Rewound(n) [] OTHER -> n
           a2 == IF ret = 0 THEN a ELSE n2.length
           c2 == IF ret = 0 THEN c ELSE Truncated(c, a, n2.length)
<1>1. /\ n \in NativeFile /\ c \in Contents /\ Persisted(n) = files[f]
      /\ n.length = EOF[f] /\ n.new_length = a /\ n.length <= a /\ a <= Len(c)
      /\ n.new_hash = Prefix(c, a) /\ Prefix(c, n.length) = Prefix(disk[f], n.length)
  BY AppendFacts
<1>2. /\ TypeOK /\ f \in Files /\ a \in Nat
  BY LenProperties DEF StorageInv, TypeOK, Contents
<1>3. /\ files[f].length = n.length /\ files[f].hash = n.hash
      /\ files[f].partial_hash = n.partial_hash
  BY <1>1 DEF Persisted
<1>4. /\ n.partial_hash = Prefix(c, n.length)
      /\ n.hash = IF n.length = 0 THEN ZeroHash ELSE Digest(Prefix(c, n.length))
  BY <1>1, <1>2, <1>3 DEF StorageInv, CommittedOnDisk
<1>5. /\ native' = [native EXCEPT ![f] = n2]
      /\ EOF' = IF ret = 0 THEN EOF ELSE [EOF EXCEPT ![f] = n2.length]
      /\ appendOffset' = [appendOffset EXCEPT ![f] = a2]
      /\ disk' = [disk EXCEPT ![f] = c2]
      /\ files' = IF ret = 1 THEN [files EXCEPT ![f] = Persisted(n2)] ELSE files
  BY DEF Flush
<1>5a. ret = 0 <=> n.length = n.new_length
  OBVIOUS
<1> HIDE DEF n, c, a
<1>6. /\ n2 \in NativeFile /\ c2 \in Contents /\ a2 \in Nat
      /\ n2.new_length = a2 /\ n2.length <= a2 /\ a2 <= Len(c2)
      /\ n2.new_hash = Prefix(c2, a2)
      /\ n2.partial_hash = Prefix(c2, n2.length)
      /\ n2.hash = IF n2.length = 0 THEN ZeroHash ELSE Digest(Prefix(c2, n2.length))
      /\ ret # 1 => n2.length = n.length /\ Persisted(n2) = Persisted(n)
  BY <1>1, <1>2, <1>4, <1>5a, FlushedFacts
<1> HIDE DEF n2, a2, c2
<1>7. /\ Persisted(n2) \in FileData
      /\ Persisted(n2).length = n2.length /\ Persisted(n2).hash = n2.hash
      /\ Persisted(n2).partial_hash = n2.partial_hash
  BY <1>6 DEF Persisted, NativeFile, FileData
<1>8. /\ native' \in [Files -> NativeFile] /\ disk' \in [Files -> Contents]
      /\ appendOffset' \in [Files -> Nat] /\ files' \in [Files -> FileData]
      /\ EOF' \in [Files -> Int] /\ EOF'[f] = n2.length /\ n2.length \in Nat
      /\ files'[f] = Persisted(n2) /\ native'[f] = n2
      /\ appendOffset'[f] = a2 /\ disk'[f] = c2
  BY <1>1, <1>2, <1>5, <1>6, <1>7 DEF TypeOK, NativeFile
<1>9. \A g \in Files \ {f} :
        /\ native'[g] = native[g] /\ EOF'[g] = EOF[g] /\ disk'[g] = disk[g]
        /\ appendOffset'[g] = appendOffset[g] /\ files'[g] = files[g]
  BY <1>2, <1>5 DEF TypeOK
<1>10. CommittedOnDisk'
  <2> SUFFICES ASSUME NEW g \in Files
               PROVE  /\ files'[g].length <= Len(disk'[g])
                      /\ files'[g].partial_hash = Prefix(disk'[g], files'[g].length)
                      /\ files'[g].hash = IF files'[g].length = 0 THEN ZeroHash
                                          ELSE Digest(Prefix(disk'[g], files'[g].length))
    BY DEF CommittedOnDisk
  <2>1. CASE g = f
    <3>1. n2.length <= Len(c2)
      BY <1>6, <1>8, LenProperties DEF Contents
    <3>. QED  BY <2>1, <3>1, <1>6, <1>7, <1>8
  <2>2. CASE g # f
    BY <2>2, <1>9 DEF StorageInv, CommittedOnDisk
  <2>. QED  BY <2>1, <2>2
<1>11. AppendCoherent'
  <2> SUFFICES ASSUME NEW g \in opened
               PROVE  /\ Persisted(native'[g]) = files'[g]
                      /\ EOF'[g] = native'[g].length
                      /\ appendOffset'[g] = native'[g].new_length
                      /\ native'[g].length <= native'[g].new_length
                      /\ native'[g].new_length <= Len(disk'[g])
                      /\ native'[g].new_hash = Prefix(disk'[g], native'[g].new_length)
    BY DEF AppendCoherent
  <2>1. CASE g = f
    BY <2>1, <1>6, <1>8
  <2>2. CASE g # f
    <3>1. g \in Files \ {f}
      BY <2>2, <1>2 DEF TypeOK
    <3>. QED  BY <3>1, <1>9 DEF StorageInv, AppendCoherent
  <2>. QED  BY <2>1, <2>2
<1>. QED  BY <1>8, <1>9, <1>10, <1>11

(* Flush keeps the types of the database and of its copies in memory.        *)
LEMMA FlushTypes ==
    ASSUME StorageInv, NEW f \in opened, NEW r \in Contents, NEW ret \in {-1, 0, 1},
           ret = 0 <=> Absorb(native[f], r).length = Absorb(native[f], r).new_length,
           Flush(f, WriteAt(disk[f], appendOffset[f], r), appendOffset[f] + Len(r),
                 Absorb(native[f], r), ret),
           UNCHANGED <<markFile, up, synced, opened, properties>>,
           activeTransfer' \in [Files -> Transfer \cup {NoTransfer}]
    PROVE  TypeOK'
<1> DEFINE n == Absorb(native[f], r)
<1>1. /\ native' \in [Files -> NativeFile] /\ disk' \in [Files -> Contents]
      /\ appendOffset' \in [Files -> Nat] /\ files' \in [Files -> FileData]
      /\ EOF' \in [Files -> Int] /\ EOF'[f] \in Nat
      /\ \A g \in Files \ {f} : EOF'[g] = EOF[g]
  BY FlushKeeps
<1>2. n \in NativeFile /\ f \in Files /\ TypeOK
  BY AppendFacts DEF StorageInv, TypeOK
<1> DEFINE m == CASE ret = 1 -> Advanced(n) [] ret = -1 -> Rewound(n) [] OTHER -> n
<1>3. m \in NativeFile
  BY <1>2, AdvancedFacts, RewoundFacts
<1>4. /\ index' = IF ret = 1 THEN IndexPut(index, m.partial_hash, f, m.length) ELSE index
      /\ root' = IF ret = 1 THEN NewRoot(root, n.hash, m.hash) ELSE root
      /\ rootDb' = IF ret = 1 THEN root' ELSE rootDb
      /\ state' = IF ret = 1 THEN root' ELSE state
      /\ syncKeys' = IF ret = 1 THEN SyncAdd(n, m.hash) ELSE syncKeys
  BY DEF Flush
<1> HIDE DEF n, m
<1>5. /\ m.partial_hash \in Contents /\ m.length \in Nat /\ m.hash \subseteq Contents
      /\ n.hash \subseteq Contents
  BY <1>2, <1>3 DEF NativeFile
<1>6. /\ DOMAIN index' \subseteq Contents
      /\ \A h \in DOMAIN index' : index'[h] \in IndexEntry
  <2>1. CASE ret = 1
    <3> DEFINE i2 == IndexPut(index, m.partial_hash, f, m.length)
    <3>1. /\ DOMAIN i2 = DOMAIN index \cup {m.partial_hash}
          /\ i2[m.partial_hash] = [name |-> f, length |-> m.length]
          /\ \A h \in DOMAIN index : h # m.partial_hash => i2[h] = index[h]
      BY DEF IndexPut
    <3>2. [name |-> f, length |-> m.length] \in IndexEntry
      BY <1>2, <1>5 DEF IndexEntry
    <3>3. index' = i2
      BY <2>1, <1>4
    <3> HIDE DEF i2
    <3>. QED  BY <3>1, <3>2, <3>3, <1>2, <1>5 DEF TypeOK
  <2>2. CASE ret # 1
    BY <2>2, <1>2, <1>4 DEF TypeOK
  <2>. QED  BY <2>1, <2>2
<1>7. /\ root' \subseteq Contents /\ rootDb' \subseteq Contents /\ state' \subseteq Contents
      /\ syncKeys' \subseteq Contents
  BY <1>2, <1>4, <1>5 DEF TypeOK, NewRoot, Xor, SyncAdd
<1>8. \A g \in Files : IF g \in opened' THEN up' /\ EOF'[g] \in Nat ELSE EOF'[g] = -1
  <2> TAKE g \in Files
  <2>1. IF g \in opened THEN up /\ EOF[g] \in Nat ELSE EOF[g] = -1
    BY <1>2 DEF TypeOK
  <2>2. CASE g = f
    BY <1>1, <2>1, <2>2
  <2>3. CASE g # f
    BY <1>1, <2>1, <2>3
  <2>. QED  BY <2>2, <2>3
<1>. QED  BY <1>1, <1>2, <1>6, <1>7, <1>8 DEF TypeOK

(* A block that completes no transfer: bytes are appended and not flushed.   *)
LEMMA AppendKeeps ==
    ASSUME StorageInv, NEW f \in opened, NEW r \in Contents,
           disk' = [disk EXCEPT ![f] = WriteAt(disk[f], appendOffset[f], r)],
           native' = [native EXCEPT ![f] = Absorb(native[f], r)],
           appendOffset' = [appendOffset EXCEPT ![f] = appendOffset[f] + Len(r)],
           UNCHANGED <<files, index, rootDb, root, state, syncKeys, EOF, activeTransfer>>,
           UNCHANGED <<markFile, up, synced, opened, properties>>
    PROVE  StorageInv'
<1> DEFINE n == Absorb(native[f], r)
           c == WriteAt(disk[f], appendOffset[f], r)
           a == appendOffset[f] + Len(r)
<1>1. /\ n \in NativeFile /\ c \in Contents /\ Persisted(n) = files[f]
      /\ n.length = EOF[f] /\ n.new_length = a /\ n.length <= a /\ a <= Len(c)
      /\ n.new_hash = Prefix(c, a) /\ Prefix(c, n.length) = Prefix(disk[f], n.length)
  BY AppendFacts
<1>2. /\ TypeOK /\ CommittedOnDisk /\ AppendCoherent /\ f \in Files /\ a \in Nat
  BY LenProperties DEF StorageInv, TypeOK, Contents
<1>3. files[f].length = n.length /\ n.length \in Nat /\ Len(c) \in Nat
  BY <1>1, LenProperties DEF Persisted, NativeFile, Contents
<1>4. /\ disk' = [disk EXCEPT ![f] = c] /\ native' = [native EXCEPT ![f] = n]
      /\ appendOffset' = [appendOffset EXCEPT ![f] = a]
  OBVIOUS
<1> HIDE DEF n, c, a
<1>5. TypeOK'
  BY <1>1, <1>2, <1>4 DEF TypeOK
<1>6. CommittedOnDisk'
  <2> SUFFICES ASSUME NEW g \in Files
               PROVE  /\ files[g].length <= Len(disk'[g])
                      /\ files[g].partial_hash = Prefix(disk'[g], files[g].length)
                      /\ files[g].hash = IF files[g].length = 0 THEN ZeroHash
                                         ELSE Digest(Prefix(disk'[g], files[g].length))
    BY DEF CommittedOnDisk
  <2>1. CASE g = f
    <3>1. disk'[g] = c
      BY <2>1, <1>2, <1>4 DEF TypeOK
    <3>2. files[g].length <= Len(c)
      BY <2>1, <1>1, <1>2, <1>3
    <3>. QED  BY <2>1, <3>1, <3>2, <1>1, <1>2, <1>3 DEF CommittedOnDisk
  <2>2. CASE g # f
    <3>1. disk'[g] = disk[g]
      BY <2>2, <1>2, <1>4 DEF TypeOK
    <3>. QED  BY <3>1, <1>2 DEF CommittedOnDisk
  <2>. QED  BY <2>1, <2>2
<1>7. AppendCoherent'
  <2> SUFFICES ASSUME NEW g \in opened
               PROVE  /\ Persisted(native'[g]) = files[g]
                      /\ EOF[g] = native'[g].length
                      /\ appendOffset'[g] = native'[g].new_length
                      /\ native'[g].length <= native'[g].new_length
                      /\ native'[g].new_length <= Len(disk'[g])
                      /\ native'[g].new_hash = Prefix(disk'[g], native'[g].new_length)
    BY DEF AppendCoherent
  <2>1. CASE g = f
    <3>1. disk'[g] = c /\ native'[g] = n /\ appendOffset'[g] = a
      BY <2>1, <1>2, <1>4 DEF TypeOK
    <3>. QED  BY <2>1, <3>1, <1>1
  <2>2. CASE g # f
    <3>1. disk'[g] = disk[g] /\ native'[g] = native[g] /\ appendOffset'[g] = appendOffset[g]
      BY <2>2, <1>2, <1>4 DEF TypeOK
    <3>. QED  BY <3>1, <1>2 DEF AppendCoherent
  <2>. QED  BY <2>1, <2>2
<1>. QED  BY <1>5, <1>6, <1>7 DEF StorageInv

(* A file without marks has every mark at 0.                                 *)
LEMMA NoMarksType == NoMarks \in [MarkNames -> Nat]
BY DEF NoMarks

(* Nothing is open once the process is gone.                                 *)
LEMMA GoneKeeps ==
    ASSUME StorageInv, Gone, markFile' \in [Files -> [MarkNames -> Nat]],
           disk' \in [Files -> Contents], UNCHANGED <<files, index, rootDb>>, CommittedOnDisk'
    PROVE  StorageInv'
<1>1. native' \in [Files -> NativeFile]
  <2>1. Loaded(NoFile) \in NativeFile
    BY EmptySeq DEF Loaded, NoFile, NativeFile, ZeroHash, Contents
  <2>. QED  BY <2>1 DEF Gone
<1>2. /\ DOMAIN index' \subseteq Contents
      /\ \A h \in DOMAIN index' : index'[h] \in IndexEntry
  BY DEF StorageInv, TypeOK
<1>3. /\ properties' \in [Files -> [MarkNames -> Nat]]
      /\ EOF' \in [Files -> Int] /\ \A f \in Files : EOF'[f] = -1
      /\ appendOffset' \in [Files -> Nat]
      /\ activeTransfer' \in [Files -> Transfer \cup {NoTransfer}]
      /\ up' \in BOOLEAN /\ synced' \in BOOLEAN /\ opened' = {}
      /\ root' \subseteq Contents /\ state' \subseteq Contents /\ syncKeys' \subseteq Contents
  <2>1. /\ properties' \in [Files -> [MarkNames -> Nat]]
        /\ EOF' \in [Files -> Int] /\ \A f \in Files : EOF'[f] = -1
        /\ appendOffset' \in [Files -> Nat]
    BY NoMarksType DEF Gone
  <2>2. activeTransfer' \in [Files -> Transfer \cup {NoTransfer}]
    BY DEF Gone
  <2>3. /\ up' \in BOOLEAN /\ synced' \in BOOLEAN /\ opened' = {}
        /\ root' \subseteq Contents /\ state' \subseteq Contents /\ syncKeys' \subseteq Contents
    BY DEF Gone, ZeroHash
  <2>. QED  BY <2>1, <2>2, <2>3
<1>4. files' \in [Files -> FileData] /\ rootDb' \subseteq Contents
  BY DEF StorageInv, TypeOK
<1>5. TypeOK'
  BY <1>1, <1>2, <1>3, <1>4 DEF TypeOK
<1>6. AppendCoherent'
  BY <1>3 DEF AppendCoherent
<1>. QED  BY <1>5, <1>6 DEF StorageInv

(* Nothing stored and nothing open: the invariant holds initially.           *)
LEMMA StorageInit == Init => StorageInv
<1> SUFFICES ASSUME Init PROVE StorageInv
  OBVIOUS
<1>1. /\ Loaded(NoFile) \in NativeFile /\ NoFile \in FileData /\ <<>> \in Contents
      /\ NoFile.length = 0 /\ NoFile.hash = ZeroHash /\ NoFile.partial_hash = <<>>
  BY EmptySeq DEF Loaded, NoFile, NativeFile, FileData, ZeroHash, Contents
<1>2. TypeOK
  <2>1. /\ disk \in [Files -> Contents] /\ files \in [Files -> FileData]
        /\ native \in [Files -> NativeFile]
    BY <1>1 DEF Init
  <2>2. /\ DOMAIN index = {} /\ rootDb = {} /\ root = {} /\ state = {} /\ syncKeys = {}
        /\ opened = {} /\ up \in BOOLEAN /\ synced \in BOOLEAN
    BY DEF Init, ZeroHash
  <2>3. /\ markFile \in [Files -> [MarkNames -> Nat]]
        /\ properties \in [Files -> [MarkNames -> Nat]]
    BY NoMarksType DEF Init
  <2>4. activeTransfer \in [Files -> Transfer \cup {NoTransfer}]
    BY DEF Init
  <2>5. /\ EOF \in [Files -> Int] /\ \A f \in Files : EOF[f] = -1
        /\ appendOffset \in [Files -> Nat]
    BY DEF Init
  <2>. QED  BY <2>1, <2>2, <2>3, <2>4, <2>5 DEF TypeOK
<1>3. Prefix(<<>>, 0) = <<>>
  BY SubSeqEmpty DEF Prefix
<1>4. CommittedOnDisk
  BY <1>1, <1>3, EmptySeq DEF Init, CommittedOnDisk, Contents
<1>5. AppendCoherent
  BY DEF Init, AppendCoherent
<1>. QED  BY <1>2, <1>4, <1>5 DEF StorageInv

(* Opening the storage, with or without clearing a stale database.           *)
LEMMA OpenStorageKeeps ==
    ASSUME StorageInv, NEW stale \in BOOLEAN, OpenStorage(stale)
    PROVE  StorageInv'
<1>1. /\ NoFile \in FileData /\ <<>> \in Contents
      /\ NoFile.length = 0 /\ NoFile.hash = ZeroHash /\ NoFile.partial_hash = <<>>
  BY EmptySeq DEF NoFile, FileData, ZeroHash, Contents
<1>2. opened = {}
  BY DEF StorageInv, TypeOK, OpenStorage
<1>3. /\ files' \in [Files -> FileData] /\ rootDb' \subseteq Contents
      /\ DOMAIN index' \subseteq Contents
      /\ \A h \in DOMAIN index' : index'[h] \in IndexEntry
  BY <1>1 DEF StorageInv, TypeOK, OpenStorage, ZeroHash
<1>4. TypeOK'
  BY <1>2, <1>3 DEF StorageInv, TypeOK, OpenStorage, fileVars
<1>5. CommittedOnDisk'
  <2>1. CASE stale
    <3> SUFFICES ASSUME NEW f \in Files
                 PROVE  /\ files'[f].length <= Len(disk[f])
                        /\ files'[f].partial_hash = Prefix(disk[f], files'[f].length)
                        /\ files'[f].hash = IF files'[f].length = 0 THEN ZeroHash
                                            ELSE Digest(Prefix(disk[f], files'[f].length))
      BY DEF CommittedOnDisk, OpenStorage
    <3>1. files'[f] = NoFile
      BY <2>1 DEF OpenStorage
    <3>2. disk[f] \in Contents /\ Len(disk[f]) \in Nat
      BY LenProperties DEF StorageInv, TypeOK, Contents
    <3>3. Prefix(disk[f], 0) = <<>>
      BY <3>2, SubSeqEmpty DEF Prefix
    <3>. QED  BY <1>1, <3>1, <3>2, <3>3
  <2>2. CASE ~stale
    BY <2>2 DEF StorageInv, CommittedOnDisk, OpenStorage
  <2>. QED  BY <2>1, <2>2
<1>6. AppendCoherent'
  BY <1>2 DEF AppendCoherent, OpenStorage, fileVars
<1>. QED  BY <1>4, <1>5, <1>6 DEF StorageInv

(* Opening a file loads what is committed, with no append in progress.       *)
LEMMA OpenFileKeeps ==
    ASSUME StorageInv, NEW f \in Files, OpenFile(f)
    PROVE  StorageInv'
<1> DEFINE d == files[f]
<1>1. /\ d \in FileData /\ d.length \in Nat /\ d.length <= Len(disk[f])
      /\ d.partial_hash = Prefix(disk[f], d.length)
  BY DEF StorageInv, TypeOK, CommittedOnDisk, FileData
<1>2. /\ native' = [native EXCEPT ![f] = Loaded(d)] /\ opened' = opened \cup {f}
      /\ EOF' = [EOF EXCEPT ![f] = d.length] /\ up
      /\ appendOffset' = [appendOffset EXCEPT ![f] = d.length]
      /\ UNCHANGED <<disk, files, index, rootDb, up, root, state, syncKeys, synced, activeTransfer>>
  BY DEF OpenFile, dbVars
<1>3. /\ markFile' \in [Files -> [MarkNames -> Nat]]
      /\ properties' \in [Files -> [MarkNames -> Nat]]
  BY NoMarksType DEF OpenFile, StorageInv, TypeOK
<1> HIDE DEF d
<1>4. /\ Loaded(d) \in NativeFile /\ Persisted(Loaded(d)) = d
      /\ Loaded(d).length = d.length /\ Loaded(d).new_length = d.length
      /\ Loaded(d).new_hash = d.partial_hash
  BY <1>1 DEF Loaded, Persisted, NativeFile, FileData
<1>5. TypeOK'
  <2>1. /\ native' \in [Files -> NativeFile] /\ EOF' \in [Files -> Int]
        /\ appendOffset' \in [Files -> Nat] /\ opened' \subseteq Files
    BY <1>1, <1>2, <1>4 DEF StorageInv, TypeOK
  <2>2. \A g \in Files : IF g \in opened' THEN up' /\ EOF'[g] \in Nat ELSE EOF'[g] = -1
    BY <1>1, <1>2 DEF StorageInv, TypeOK
  <2>3. TypeOK
    BY DEF StorageInv
  <2>. QED  BY <1>2, <1>3, <2>1, <2>2, <2>3 DEF TypeOK
<1>6. CommittedOnDisk'
  BY <1>2 DEF StorageInv, CommittedOnDisk
<1>7. AppendCoherent'
  <2> SUFFICES ASSUME NEW g \in opened'
               PROVE  /\ Persisted(native'[g]) = files[g]
                      /\ EOF'[g] = native'[g].length
                      /\ appendOffset'[g] = native'[g].new_length
                      /\ native'[g].length <= native'[g].new_length
                      /\ native'[g].new_length <= Len(disk[g])
                      /\ native'[g].new_hash = Prefix(disk[g], native'[g].new_length)
    BY <1>2 DEF AppendCoherent
  <2>1. CASE g = f
    BY <2>1, <1>1, <1>2, <1>4 DEF StorageInv, TypeOK, d
  <2>2. CASE g # f
    BY <2>2, <1>2 DEF StorageInv, TypeOK, AppendCoherent
  <2>. QED  BY <2>1, <2>2
<1>. QED  BY <1>5, <1>6, <1>7 DEF StorageInv

(* The inputs of the appends are byte sequences.                             *)
LEMMA InputTypes ==
    /\ \A r \in Records : r \in Contents
    /\ \A v \in Versions : v \in Contents
    /\ \A v \in Contents, i \in Nat, j \in Nat : j <= Len(v) => SubSeq(v, i + 1, j) \in Contents
<1>1. /\ \A r \in Records : r \in Contents
      /\ \A v \in Versions : v \in Contents
  BY InputsAreBytes DEF Contents
<1>2. ASSUME NEW v \in Contents, NEW i \in Nat, NEW j \in Nat, j <= Len(v)
      PROVE  SubSeq(v, i + 1, j) \in Contents
  <2>1. \A k \in (i + 1)..j : v[k] \in Byte
    BY <1>2, ElementOfSeq, LenProperties DEF Contents
  <2>. QED  BY <2>1, SubSeqProperties DEF Contents
<1>. QED  BY <1>1, <1>2

(* appendRecord, whether its flush commits or fails.                         *)
LEMMA AppendRecordKeeps ==
    ASSUME StorageInv, NEW f \in Files, NEW r \in Contents, NEW commits \in BOOLEAN,
           AppendRecord(f, r, commits)
    PROVE  StorageInv'
<1> DEFINE n == Absorb(native[f], r)
           ret == FlushRet(n, {}, commits)
<1>1. ret \in {-1, 0, 1} /\ (ret = 0 <=> n.length = n.new_length)
  BY FlushRetFacts
<1>2. /\ f \in opened
      /\ Flush(f, WriteAt(disk[f], appendOffset[f], r), appendOffset[f] + Len(r), n, ret)
      /\ UNCHANGED <<markFile, up, synced, opened, properties>>
      /\ activeTransfer' = activeTransfer
  BY DEF AppendRecord
<1>3. activeTransfer' \in [Files -> Transfer \cup {NoTransfer}]
  BY <1>2 DEF StorageInv, TypeOK
<1> HIDE DEF ret
<1>4. CommittedOnDisk' /\ AppendCoherent'
  BY <1>1, <1>2, FlushKeeps
<1>5. TypeOK'
  BY <1>1, <1>2, <1>3, FlushTypes
<1>. QED  BY <1>4, <1>5 DEF StorageInv

(* appendAt, whether the block completes a transfer or not.                  *)
LEMMA AppendAtKeeps ==
    ASSUME StorageInv, NEW f \in Files, NEW offset \in Nat, NEW b \in Contents,
           NEW commits \in BOOLEAN, AppendAt(f, offset, b, commits)
    PROVE  StorageInv'
<1> DEFINE r == SubSeq(b, appendOffset[f] - offset + 1, Len(b))
           n == Absorb(native[f], r)
           t == activeTransfer[f]
           ret == FlushRet(n, {Digest(t.expectedHash)}, commits)
<1>1. f \in opened /\ offset <= appendOffset[f] /\ appendOffset[f] \in Nat
  BY DEF AppendAt, StorageInv, TypeOK
<1>2. r \in Contents
  <2>1. appendOffset[f] - offset \in Nat /\ Len(b) \in Nat
    BY <1>1, LenProperties DEF Contents
  <2>. QED  BY <2>1, InputTypes
<1>3. ret \in {-1, 0, 1} /\ (ret = 0 <=> n.length = n.new_length)
  BY FlushRetFacts
<1>4. UNCHANGED <<markFile, up, synced, opened, properties>>
  BY DEF AppendAt
<1>5. \/ /\ Flush(f, WriteAt(disk[f], appendOffset[f], r), appendOffset[f] + Len(r), n, ret)
         /\ activeTransfer' = IF ret = -1 THEN activeTransfer
                              ELSE [activeTransfer EXCEPT ![f] = NoTransfer]
      \/ /\ disk' = [disk EXCEPT ![f] = WriteAt(disk[f], appendOffset[f], r)]
         /\ native' = [native EXCEPT ![f] = n]
         /\ appendOffset' = [appendOffset EXCEPT ![f] = appendOffset[f] + Len(r)]
         /\ UNCHANGED <<files, index, rootDb, root, state, syncKeys, EOF, activeTransfer>>
  BY DEF AppendAt
<1> HIDE DEF r, ret
<1>6. CASE /\ Flush(f, WriteAt(disk[f], appendOffset[f], r), appendOffset[f] + Len(r), n, ret)
           /\ activeTransfer' = IF ret = -1 THEN activeTransfer
                                ELSE [activeTransfer EXCEPT ![f] = NoTransfer]
  <2>1. activeTransfer' \in [Files -> Transfer \cup {NoTransfer}]
    BY <1>6 DEF StorageInv, TypeOK
  <2>2. CommittedOnDisk' /\ AppendCoherent'
    BY <1>1, <1>2, <1>3, <1>4, <1>6, FlushKeeps
  <2>3. TypeOK'
    BY <1>1, <1>2, <1>3, <1>4, <1>6, <2>1, FlushTypes
  <2>. QED  BY <2>2, <2>3 DEF StorageInv
<1>7. CASE /\ disk' = [disk EXCEPT ![f] = WriteAt(disk[f], appendOffset[f], r)]
           /\ native' = [native EXCEPT ![f] = n]
           /\ appendOffset' = [appendOffset EXCEPT ![f] = appendOffset[f] + Len(r)]
           /\ UNCHANGED <<files, index, rootDb, root, state, syncKeys, EOF, activeTransfer>>
  BY <1>1, <1>2, <1>4, <1>7, AppendKeeps
<1>. QED  BY <1>5, <1>6, <1>7

(* Bytes written by a process that dies lie beyond the committed length.     *)
LEMMA AppendRecordDiesKeeps ==
    ASSUME StorageInv, NEW f \in Files, NEW r \in Contents, AppendRecordDies(f, r)
    PROVE  StorageInv'
<1> DEFINE c == WriteAt(disk[f], appendOffset[f], r)
<1>1. f \in opened
  BY DEF AppendRecordDies
<1>2. /\ c \in Contents /\ EOF[f] <= appendOffset[f] + Len(r)
      /\ appendOffset[f] + Len(r) <= Len(c)
      /\ files[f].length = EOF[f]
      /\ Prefix(c, files[f].length) = Prefix(disk[f], files[f].length)
  <2> DEFINE n == Absorb(native[f], r)
  <2>1. /\ c \in Contents /\ Persisted(n) = files[f] /\ n.length = EOF[f]
        /\ n.new_length = appendOffset[f] + Len(r)
        /\ n.length <= appendOffset[f] + Len(r) /\ appendOffset[f] + Len(r) <= Len(c)
        /\ Prefix(c, n.length) = Prefix(disk[f], n.length)
    BY <1>1, AppendFacts
  <2> HIDE DEF n, c
  <2>2. files[f].length = n.length
    BY <2>1 DEF Persisted
  <2>. QED  BY <2>1, <2>2
<1>3. /\ disk' = [disk EXCEPT ![f] = c] /\ Gone /\ UNCHANGED <<files, index, rootDb, markFile>>
  BY DEF AppendRecordDies
<1> HIDE DEF c
<1>4. /\ TypeOK /\ CommittedOnDisk /\ Len(c) \in Nat /\ Len(r) \in Nat
      /\ appendOffset[f] \in Nat /\ EOF[f] \in Int
  BY <1>2, LenProperties DEF StorageInv, TypeOK, Contents
<1>5. CommittedOnDisk'
  <2> SUFFICES ASSUME NEW g \in Files
               PROVE  /\ files[g].length <= Len(disk'[g])
                      /\ files[g].partial_hash = Prefix(disk'[g], files[g].length)
                      /\ files[g].hash = IF files[g].length = 0 THEN ZeroHash
                                         ELSE Digest(Prefix(disk'[g], files[g].length))
    BY <1>3 DEF CommittedOnDisk
  <2>1. CASE g = f
    <3>1. disk'[g] = c
      BY <2>1, <1>3, <1>4 DEF TypeOK
    <3>2. files[g].length <= Len(c)
      BY <2>1, <1>2, <1>4
    <3>. QED  BY <2>1, <3>1, <3>2, <1>2, <1>4 DEF CommittedOnDisk
  <2>2. CASE g # f
    BY <2>2, <1>3, <1>4 DEF CommittedOnDisk, TypeOK
  <2>. QED  BY <2>1, <2>2
<1>6. disk' \in [Files -> Contents] /\ markFile' \in [Files -> [MarkNames -> Nat]]
  BY <1>2, <1>3, <1>4 DEF TypeOK
<1>. QED  BY <1>3, <1>5, <1>6, GoneKeeps

(* The steps that touch neither bytes nor digests.                           *)
LEMMA OtherStepsKeep ==
    ASSUME StorageInv,
           \/ Close
           \/ InitSyncState
           \/ \E f \in Files :
                \/ CancelTransfer(f)
                \/ \E v \in Versions : \/ SetTransfer(f, [newLength |-> Len(v), expectedHash |-> v])
                                       \/ ReceiveMetadata(v, f)
                \/ \E m \in MarkNames : \E offset \in 0..EOF[f] :
                     SetMark(f, m, offset) \/ SetMarkDies(f, m, offset)
    PROVE  StorageInv'
<1> USE DEF StorageInv
<1>1. CASE Close
  <2>1. Gone /\ UNCHANGED <<disk, files, index, rootDb, markFile>>
    BY <1>1 DEF Close, persistent
  <2>2. CommittedOnDisk' /\ disk' \in [Files -> Contents] /\ markFile' \in [Files -> [MarkNames -> Nat]]
    BY <2>1 DEF CommittedOnDisk, TypeOK
  <2>. QED  BY <2>1, <2>2, GoneKeeps
<1>2. CASE InitSyncState
  <2>1. TypeOK'
    <3>1. UNION {files[f].hash : f \in Files} \subseteq Contents
      BY DEF TypeOK, FileData
    <3>. QED  BY <1>2, <3>1 DEF InitSyncState, TypeOK, persistent, fileVars
  <2>2. CommittedOnDisk' /\ AppendCoherent'
    BY <1>2 DEF InitSyncState, CommittedOnDisk, AppendCoherent, persistent, fileVars
  <2>. QED  BY <2>1, <2>2
<1>3. ASSUME NEW f \in Files, CancelTransfer(f)
      PROVE  StorageInv'
  BY <1>3 DEF CancelTransfer, TypeOK, CommittedOnDisk, AppendCoherent, persistent, dbVars
<1>4. ASSUME NEW f \in Files, NEW v \in Versions,
             SetTransfer(f, [newLength |-> Len(v), expectedHash |-> v])
      PROVE  StorageInv'
  <2> DEFINE t == [newLength |-> Len(v), expectedHash |-> v]
  <2>1. t \in Transfer
    BY InputTypes, LenProperties DEF Transfer, Contents
  <2> HIDE DEF t
  <2>2. SetTransfer(f, t)
    BY <1>4 DEF t
  <2>. QED  BY <2>1, <2>2 DEF SetTransfer, TypeOK, CommittedOnDisk, AppendCoherent, persistent, dbVars
<1>5. ASSUME NEW f \in Files, NEW v \in Versions, ReceiveMetadata(v, f)
      PROVE  StorageInv'
  <2>1. v \in Contents /\ Len(v) \in Nat
    BY InputTypes, LenProperties DEF Contents
  <2>2. index' = IndexPut(index, v, f, Len(v))
    BY <1>5 DEF ReceiveMetadata
  <2>3. /\ DOMAIN index' \subseteq Contents
        /\ \A h \in DOMAIN index' : index'[h] \in IndexEntry
    BY <2>1, <2>2 DEF TypeOK, IndexPut, IndexEntry
  <2>. QED  BY <1>5, <2>3 DEF ReceiveMetadata, TypeOK, CommittedOnDisk, AppendCoherent, dbVars, fileVars
<1>6. ASSUME NEW f \in Files, NEW m \in MarkNames, NEW offset \in 0..EOF[f], SetMark(f, m, offset)
      PROVE  StorageInv'
  <2>1. /\ properties' = [properties EXCEPT ![f][m] = offset]
        /\ markFile' = [markFile EXCEPT ![f] = IF EOF[f] = 0 THEN NoMarks ELSE properties'[f]]
    BY <1>6 DEF SetMark
  <2>2. offset \in Nat /\ properties \in [Files -> [MarkNames -> Nat]]
        /\ markFile \in [Files -> [MarkNames -> Nat]]
    BY DEF TypeOK
  <2>3. properties' \in [Files -> [MarkNames -> Nat]]
    BY <2>1, <2>2
  <2>4. markFile' \in [Files -> [MarkNames -> Nat]]
    BY <2>1, <2>2, <2>3, NoMarksType
  <2>. QED  BY <1>6, <2>3, <2>4 DEF SetMark, TypeOK, CommittedOnDisk, AppendCoherent, dbVars
<1>7. ASSUME NEW f \in Files, NEW m \in MarkNames, NEW offset \in 0..EOF[f], SetMarkDies(f, m, offset)
      PROVE  StorageInv'
  <2>1. /\ Gone /\ UNCHANGED <<disk, files, index, rootDb>>
        /\ markFile' = [markFile EXCEPT ![f] = NoMarks]
    BY <1>7 DEF SetMarkDies
  <2>2. CommittedOnDisk' /\ disk' \in [Files -> Contents] /\ markFile' \in [Files -> [MarkNames -> Nat]]
    BY <2>1, NoMarksType DEF CommittedOnDisk, TypeOK
  <2>. QED  BY <2>1, <2>2, GoneKeeps
<1>. QED  BY <1>1, <1>2, <1>3, <1>4, <1>5, <1>6, <1>7

(* Every step, the ones in which the process dies included, keeps the        *)
(* invariant.                                                                *)
LEMMA StorageNext == StorageInv /\ [Next]_vars => StorageInv'
<1> SUFFICES ASSUME StorageInv, [Next]_vars PROVE StorageInv'
  OBVIOUS
<1>1. ASSUME NEW stale \in BOOLEAN, OpenStorage(stale)
      PROVE  StorageInv'
  BY <1>1, OpenStorageKeeps
<1>2. ASSUME NEW f \in Files, OpenFile(f)
      PROVE  StorageInv'
  BY <1>2, OpenFileKeeps
<1>3. ASSUME NEW f \in Files, NEW r \in Records, NEW commits \in BOOLEAN,
             AppendRecord(f, r, commits)
      PROVE  StorageInv'
  <2>1. r \in Contents
    BY InputTypes
  <2>. QED  BY <1>3, <2>1, AppendRecordKeeps
<1>4. ASSUME NEW f \in Files, NEW r \in Records, AppendRecordDies(f, r)
      PROVE  StorageInv'
  <2>1. r \in Contents
    BY InputTypes
  <2>. QED  BY <1>4, <2>1, AppendRecordDiesKeeps
<1>5. ASSUME NEW f \in Files, NEW v \in Versions, NEW offset \in 0..Len(v), NEW end \in 1..Len(v),
             NEW commits \in BOOLEAN, AppendAt(f, offset, SubSeq(v, offset + 1, end), commits)
      PROVE  StorageInv'
  <2>1. v \in Contents /\ Len(v) \in Nat
    BY InputTypes, LenProperties DEF Contents
  <2>2. SubSeq(v, offset + 1, end) \in Contents /\ offset \in Nat
    BY <2>1, InputTypes
  <2>. QED  BY <1>5, <2>2, AppendAtKeeps
<1>6. CASE UNCHANGED vars
  BY <1>6 DEF vars, StorageInv, TypeOK, CommittedOnDisk, AppendCoherent
<1>. QED  BY <1>1, <1>2, <1>3, <1>4, <1>5, <1>6, OtherStepsKeep DEF Next

(* TypeOK for every instance: every value RecordStore and Storage hold stays *)
(* of its type, and only an open storage has open files.                     *)
THEOREM StorageTypes == Spec => []TypeOK
<1>1. StorageInv => TypeOK
  BY DEF StorageInv
<1>. QED  BY <1>1, StorageInit, StorageNext, PTL DEF Spec

(* The committed digest of a file is always over the bytes that are on disk  *)
(* below its committed length, through appends, rewinds, crashes in the      *)
(* middle of an append, reopening and clearing (file_flush, jniCallback).    *)
THEOREM StorageIntegrity == Spec => []CommittedOnDisk
<1>1. StorageInv => CommittedOnDisk
  BY DEF StorageInv
<1>. QED  BY <1>1, StorageInit, StorageNext, PTL DEF Spec

(* The Java, native and on-disk views of an open file always agree, so a     *)
(* flush commits exactly the bytes that were appended.                       *)
THEOREM StorageCoherence == Spec => []AppendCoherent
<1>1. StorageInv => AppendCoherent
  BY DEF StorageInv
<1>. QED  BY <1>1, StorageInit, StorageNext, PTL DEF Spec

-----------------------------------------------------------------------------
(* What a step does to the committed state.  A flush that commits is the     *)
(* only step that changes it, besides clearing the database at an upgrade.   *)

(* File f is committed with contents c: its record, the index, the root hash *)
(* and the sync keys follow, and a transfer ends only if c is its version.   *)
Commits(f, c) ==
    /\ f \in opened /\ c \in Contents
    /\ files[f].length < Len(c)
    /\ files[f].partial_hash = Prefix(c, files[f].length)
    /\ files' = [files EXCEPT ![f] = [length |-> Len(c), hash |-> {c}, partial_hash |-> c]]
    /\ index' = IndexPut(index, c, f, Len(c))
    /\ root' = NewRoot(root, files[f].hash, {c}) /\ rootDb' = root' /\ state' = root'
    /\ syncKeys' = IF synced THEN syncKeys \cup {c} ELSE syncKeys
    /\ EOF' = [EOF EXCEPT ![f] = Len(c)]
    /\ \/ activeTransfer' = activeTransfer
       \/ c = activeTransfer[f].expectedHash /\ activeTransfer' = [activeTransfer EXCEPT ![f] = NoTransfer]
    /\ UNCHANGED <<up, synced, opened, markFile, properties>>

(* The databases of another version are dropped; no file is open.            *)
Clears ==
    /\ ~up /\ up' /\ opened = {} /\ opened' = {}
    /\ files' = [f \in Files |-> NoFile] /\ index' = [h \in {} |-> NoFile]
    /\ rootDb' = ZeroHash /\ root' = ZeroHash /\ state' = ZeroHash
    /\ UNCHANGED markFile

(* The committed state and the root hash stay; the index may learn of a      *)
(* version that a peer has, and the copies in memory are those in the        *)
(* database or are given up.                                                 *)
Leaves ==
    /\ UNCHANGED <<files, rootDb>>
    /\ index' = index \/ \E c \in Versions, f \in Files : index' = IndexPut(index, c, f, Len(c))
    /\ \/ ~up'
       \/ up /\ root' = root /\ state' = state
       \/ root' = rootDb /\ state' = rootDb
    /\ \/ synced' => synced /\ syncKeys' = syncKeys
       \/ syncKeys' = UNION {files[f].hash : f \in Files}

Effect == Clears \/ Leaves \/ \E f \in opened, c \in Contents : Commits(f, c)

(* The name of a digest tells the length of its version.                     *)
LEMMA CommittedLength ==
    ASSUME StorageInv, NEW f \in Files
    PROVE  /\ files[f].length \in Nat /\ files[f].partial_hash \in Contents
           /\ Len(files[f].partial_hash) = files[f].length
           /\ files[f].hash = IF files[f].length = 0 THEN {} ELSE {files[f].partial_hash}
<1>1. /\ files[f] \in FileData /\ disk[f] \in Contents
      /\ files[f].length <= Len(disk[f])
      /\ files[f].partial_hash = Prefix(disk[f], files[f].length)
      /\ files[f].hash = IF files[f].length = 0 THEN ZeroHash ELSE Digest(Prefix(disk[f], files[f].length))
  BY DEF StorageInv, TypeOK, CommittedOnDisk
<1>2. files[f].length \in Nat /\ files[f].partial_hash \in Contents
  BY <1>1 DEF FileData
<1>3. Len(Prefix(disk[f], files[f].length)) = files[f].length
  BY <1>1, <1>2, PrefixFacts
<1>. QED  BY <1>1, <1>2, <1>3 DEF ZeroHash, Digest

(* A flush that returns 1 commits what the hash in progress has absorbed.    *)
LEMMA FlushCommits ==
    ASSUME StorageInv, NEW f \in opened, NEW r \in Contents,
           Absorb(native[f], r).length # Absorb(native[f], r).new_length,
           Flush(f, WriteAt(disk[f], appendOffset[f], r), appendOffset[f] + Len(r),
                 Absorb(native[f], r), 1),
           UNCHANGED <<up, synced, opened, markFile, properties>>,
           \/ activeTransfer' = activeTransfer
           \/ /\ Absorb(native[f], r).new_hash = activeTransfer[f].expectedHash
              /\ activeTransfer' = [activeTransfer EXCEPT ![f] = NoTransfer]
    PROVE  Commits(f, Absorb(native[f], r).new_hash)
<1> DEFINE n == Absorb(native[f], r)
           c == WriteAt(disk[f], appendOffset[f], r)
           a == appendOffset[f] + Len(r)
           h == n.new_hash
<1>1. /\ n \in NativeFile /\ c \in Contents /\ Persisted(n) = files[f]
      /\ n.length = EOF[f] /\ n.new_length = a /\ n.length <= a /\ a <= Len(c)
      /\ n.new_hash = Prefix(c, a) /\ Prefix(c, n.length) = Prefix(disk[f], n.length)
  BY AppendFacts
<1>2. f \in Files /\ a \in Nat
  BY LenProperties DEF StorageInv, TypeOK, Contents
<1>3. /\ native' = [native EXCEPT ![f] = Advanced(n)]
      /\ EOF' = [EOF EXCEPT ![f] = Advanced(n).length]
      /\ files' = [files EXCEPT ![f] = Persisted(Advanced(n))]
      /\ index' = IndexPut(index, Advanced(n).partial_hash, f, Advanced(n).length)
      /\ root' = NewRoot(root, n.hash, Advanced(n).hash)
      /\ rootDb' = root' /\ state' = root'
      /\ syncKeys' = SyncAdd(n, Advanced(n).hash)
  BY DEF Flush
<1>4. n.length # n.new_length
  OBVIOUS
<1>5. \/ activeTransfer' = activeTransfer
      \/ h = activeTransfer[f].expectedHash /\ activeTransfer' = [activeTransfer EXCEPT ![f] = NoTransfer]
  OBVIOUS
<1> HIDE DEF n, c, a
<1>6. /\ Advanced(n).length = n.new_length /\ Advanced(n).partial_hash = h
      /\ Advanced(n).hash = Digest(h)
  BY <1>1, AdvancedFacts
<1>7. h \in Contents /\ Len(h) = a
  BY <1>1, <1>2, PrefixFacts
<1>8. Persisted(Advanced(n)) = [length |-> a, hash |-> {h}, partial_hash |-> h]
  BY <1>1, <1>6 DEF Persisted, Digest
<1>9. /\ files[f].length = n.length /\ files[f].hash = n.hash
      /\ files[f].partial_hash = n.partial_hash /\ n.length \in Nat
  BY <1>1 DEF Persisted, NativeFile
<1>10. files[f].length < a
  BY <1>1, <1>2, <1>4, <1>9
<1>11. files[f].partial_hash = Prefix(h, files[f].length)
  <2>1. files[f].partial_hash = Prefix(disk[f], files[f].length)
    BY <1>2 DEF StorageInv, CommittedOnDisk
  <2>2. Prefix(Prefix(c, a), n.length) = Prefix(c, n.length)
    BY <1>1, <1>2, <1>9, PrefixOfPrefix
  <2>. QED  BY <2>1, <2>2, <1>1, <1>9
<1>12. Commits(f, h)
  BY <1>1, <1>3, <1>5, <1>6, <1>7, <1>8, <1>9, <1>10, <1>11 DEF Commits, SyncAdd, Digest
<1>. QED  BY <1>12 DEF n

(* A flush that does not return 1 leaves the committed state alone.          *)
LEMMA FlushLeaves ==
    ASSUME StorageInv, NEW f \in opened, NEW c, NEW a, NEW n, NEW ret \in {-1, 0},
           Flush(f, c, a, n, ret), UNCHANGED <<up, synced>>
    PROVE  Leaves
<1>1. up
  BY DEF StorageInv, TypeOK
<1>2. UNCHANGED <<files, index, root, rootDb, state, syncKeys>>
  BY DEF Flush
<1>. QED  BY <1>1, <1>2 DEF Leaves

(* Every step commits one file, clears the databases or leaves the committed *)
(* state alone.                                                              *)
LEMMA StepEffect ==
    ASSUME StorageInv, [Next]_vars
    PROVE  Effect
<1> USE DEF StorageInv
<1>e. /\ Clears => Effect
      /\ Leaves => Effect
      /\ \A f \in opened, c \in Contents : Commits(f, c) => Effect
  BY DEF Effect
<1>1. ASSUME NEW stale \in BOOLEAN, OpenStorage(stale)
      PROVE  Effect
  <2>1. opened = {} /\ opened' = {}
    BY <1>1 DEF OpenStorage, TypeOK, fileVars
  <2>2. CASE stale
    BY <1>1, <1>e, <2>1, <2>2 DEF OpenStorage, Clears
  <2>3. CASE ~stale
    BY <1>1, <1>e, <2>3 DEF OpenStorage, Leaves
  <2>. QED  BY <2>2, <2>3
<1>2. ASSUME Gone, UNCHANGED <<files, index, rootDb>>
      PROVE  Leaves
  BY <1>2 DEF Gone, Leaves
<1>3. ASSUME Close
      PROVE  Effect
  BY <1>e, <1>2, <1>3 DEF Close, persistent
<1>3a. ASSUME NEW f \in Files, NEW r \in Records, AppendRecordDies(f, r)
      PROVE  Effect
  BY <1>e, <1>2, <1>3a DEF AppendRecordDies
<1>3b. ASSUME NEW f \in Files, NEW m \in MarkNames, NEW offset \in 0..EOF[f], SetMarkDies(f, m, offset)
      PROVE  Effect
  BY <1>e, <1>2, <1>3b DEF SetMarkDies
<1>4. ASSUME InitSyncState
      PROVE  Effect
  BY <1>4, <1>e DEF InitSyncState, Leaves, persistent
<1>5. ASSUME NEW f \in Files, OpenFile(f) \/ CancelTransfer(f)
      PROVE  Effect
  <2>1. up /\ UNCHANGED <<files, index, rootDb, root, state, syncKeys, synced>>
    BY <1>5 DEF OpenFile, CancelTransfer, persistent, dbVars, TypeOK
  <2>. QED  BY <1>e, <2>1 DEF Leaves
<1>6. ASSUME NEW f \in Files, NEW v \in Versions,
             SetTransfer(f, [newLength |-> Len(v), expectedHash |-> v]) \/ ReceiveMetadata(v, f)
      PROVE  Effect
  <2>1. CASE SetTransfer(f, [newLength |-> Len(v), expectedHash |-> v])
    BY <1>e, <2>1 DEF SetTransfer, Leaves, persistent, dbVars, TypeOK
  <2>2. CASE ReceiveMetadata(v, f)
    BY <1>e, <2>2 DEF ReceiveMetadata, Leaves, dbVars
  <2>. QED  BY <1>6, <2>1, <2>2
<1>7. ASSUME NEW f \in Files, NEW m \in MarkNames, NEW offset \in 0..EOF[f], SetMark(f, m, offset)
      PROVE  Effect
  BY <1>e, <1>7 DEF SetMark, Leaves, dbVars, TypeOK
<1>8. ASSUME NEW f \in Files, NEW r \in Records, NEW commits \in BOOLEAN, AppendRecord(f, r, commits)
      PROVE  Effect
  <2> DEFINE n == Absorb(native[f], r)
             ret == FlushRet(n, {}, commits)
  <2>1. /\ f \in opened /\ r \in Contents
        /\ Flush(f, WriteAt(disk[f], appendOffset[f], r), appendOffset[f] + Len(r), n, ret)
        /\ UNCHANGED <<markFile, up, synced, opened, activeTransfer, properties>>
    BY <1>8, InputTypes DEF AppendRecord
  <2>2. ret \in {-1, 0, 1} /\ (ret = 0 <=> n.length = n.new_length)
    BY FlushRetFacts
  <2> HIDE DEF ret
  <2>3. CASE ret = 1
    <3>1. n.length # n.new_length
      BY <2>2, <2>3
    <3>2. Commits(f, n.new_hash)
      BY <2>1, <2>3, <3>1, FlushCommits
    <3>. QED  BY <1>e, <2>1, <3>2 DEF Commits
  <2>4. CASE ret # 1
    <3> HIDE DEF n
    <3>. QED  BY <1>e, <2>1, <2>2, <2>4, FlushLeaves
  <2>. QED  BY <2>3, <2>4
<1>9. ASSUME NEW f \in Files, NEW v \in Versions, NEW offset \in 0..Len(v), NEW end \in 1..Len(v),
             NEW commits \in BOOLEAN, AppendAt(f, offset, SubSeq(v, offset + 1, end), commits)
      PROVE  Effect
  <2> DEFINE b == SubSeq(v, offset + 1, end)
             r == SubSeq(b, appendOffset[f] - offset + 1, Len(b))
             n == Absorb(native[f], r)
             t == activeTransfer[f]
             ret == FlushRet(n, {Digest(t.expectedHash)}, commits)
  <2>1. v \in Contents /\ Len(v) \in Nat
    BY InputTypes, LenProperties DEF Contents
  <2>2. b \in Contents /\ offset \in Nat
    BY <2>1, InputTypes
  <2>3. AppendAt(f, offset, b, commits)
    BY <1>9
  <2> HIDE DEF b
  <2>4. f \in opened /\ offset <= appendOffset[f] /\ appendOffset[f] \in Nat /\ up
    BY <2>3 DEF AppendAt, TypeOK
  <2>5. r \in Contents
    <3>1. appendOffset[f] - offset \in Nat /\ Len(b) \in Nat
      BY <2>2, <2>4, LenProperties DEF Contents
    <3>. QED  BY <2>2, <3>1, InputTypes
  <2>6. /\ UNCHANGED <<markFile, up, synced, opened, properties>>
        /\ \/ /\ Flush(f, WriteAt(disk[f], appendOffset[f], r), appendOffset[f] + Len(r), n, ret)
              /\ activeTransfer' = IF ret = -1 THEN activeTransfer
                                   ELSE [activeTransfer EXCEPT ![f] = NoTransfer]
           \/ UNCHANGED <<files, index, rootDb, root, state, syncKeys>>
    BY <2>3 DEF AppendAt
  <2>7. /\ ret \in {-1, 0, 1} /\ (ret = 0 <=> n.length = n.new_length)
        /\ ret = 1 => HashMatches(n, {Digest(t.expectedHash)})
    BY FlushRetFacts
  <2> HIDE DEF r, ret
  <2>8. CASE UNCHANGED <<files, index, rootDb, root, state, syncKeys>>
    BY <1>e, <2>4, <2>6, <2>8 DEF Leaves
  <2>9. CASE /\ Flush(f, WriteAt(disk[f], appendOffset[f], r), appendOffset[f] + Len(r), n, ret)
             /\ activeTransfer' = IF ret = -1 THEN activeTransfer
                                  ELSE [activeTransfer EXCEPT ![f] = NoTransfer]
    <3>1. CASE ret = 1
      <4>1. n.length # n.new_length /\ n.new_hash = t.expectedHash
        <5> HIDE DEF n, t
        <5>1. HashMatches(n, {Digest(t.expectedHash)}) /\ n.length # n.new_length
          BY <2>7, <3>1
        <5>2. Digest(n.new_hash) = Digest(t.expectedHash)
          BY <5>1 DEF HashMatches
        <5>. QED  BY <5>1, <5>2 DEF Digest
      <4>2. Commits(f, n.new_hash)
        BY <2>4, <2>5, <2>6, <2>9, <3>1, <4>1, FlushCommits
      <4>. QED  BY <1>e, <2>4, <4>2 DEF Commits
    <3>2. CASE ret # 1
      <4> HIDE DEF n
      <4>. QED  BY <1>e, <2>4, <2>6, <2>7, <2>9, <3>2, FlushLeaves
    <3>. QED  BY <3>1, <3>2
  <2>. QED  BY <2>6, <2>8, <2>9
<1>10. CASE UNCHANGED vars
  <2>1. UNCHANGED <<files, index, rootDb, root, state, syncKeys, synced, up>>
    BY <1>10 DEF vars
  <2>. QED  BY <1>e, <2>1 DEF Leaves
<1>. QED  BY <1>1, <1>3, <1>3a, <1>3b, <1>4, <1>5, <1>6, <1>7, <1>8, <1>9, <1>10 DEF Next

-----------------------------------------------------------------------------
(* What peers can find, by the digests of the committed files.               *)
LEMMA FindableNext ==
    ASSUME StorageInv, Findable, Effect
    PROVE  Findable'
<1> USE DEF Findable, IndexResolves, SyncKeysCurrent
<1>1. CASE Clears
  BY <1>1 DEF Clears, NoFile, ZeroHash
<1>2. CASE Leaves
  <2>1. IndexResolves'
    <3>1. CASE index' = index
      BY <1>2, <3>1 DEF Leaves
    <3>2. CASE \E c \in Versions, f \in Files : index' = IndexPut(index, c, f, Len(c))
      BY <1>2, <3>2 DEF Leaves, IndexPut
    <3>. QED  BY <1>2, <3>1, <3>2 DEF Leaves
  <2>2. SyncKeysCurrent'
    BY <1>2 DEF Leaves
  <2>. QED  BY <2>1, <2>2
<1>3. ASSUME NEW f \in opened, NEW c \in Contents, Commits(f, c)
      PROVE  Findable'
  <2>1. /\ f \in Files /\ files' = [files EXCEPT ![f] = [length |-> Len(c), hash |-> {c}, partial_hash |-> c]]
        /\ index' = IndexPut(index, c, f, Len(c)) /\ synced' = synced
        /\ syncKeys' = IF synced THEN syncKeys \cup {c} ELSE syncKeys
    BY <1>3 DEF Commits, StorageInv, TypeOK
  <2>2. \A g \in Files : files'[g].hash = IF g = f THEN {c} ELSE files[g].hash
    BY <2>1 DEF StorageInv, TypeOK
  <2>3. DOMAIN index' = DOMAIN index \cup {c}
        /\ \A h \in DOMAIN index' : index'[h].length = Len(h)
    BY <2>1 DEF IndexPut
  <2>. QED  BY <2>1, <2>2, <2>3
<1>. QED  BY <1>1, <1>2, <1>3 DEF Effect

(* The digest of every committed file is in the index with its length and,  *)
(* in a sync session, among the keys: a peer can find and ask for every      *)
(* file, whichever commits, crashes, upgrades and metadata of peers came     *)
(* before (Findable).                                                        *)
THEOREM StorageFindable == Spec => []Findable
<1>1. Init => Findable
  BY DEF Init, Findable, IndexResolves, SyncKeysCurrent, NoFile, ZeroHash
<1>2. StorageInv /\ Findable /\ [Next]_vars => Findable'
  BY StepEffect, FindableNext
<1>. QED  BY <1>1, <1>2, StorageInit, StorageNext, PTL DEF Spec

-----------------------------------------------------------------------------
(* The root hash.  RootIsXor speaks of the digests in the root hash and of   *)
(* those of files; the invariant is about every digest there could be.       *)
Odd(h) == Cardinality(Having(h)) % 2 = 1
RootInv ==
    /\ \A h \in Contents : h \in rootDb <=> Odd(h)
    /\ up => root = rootDb /\ state = rootDb

LEMMA HavingFinite ==
    ASSUME NEW h
    PROVE  IsFiniteSet(Having(h)) /\ Cardinality(Having(h)) \in Nat
BY FilesFinite, FS_Subset, FS_CardinalityType DEF Having

(* A commit of contents c to file f changes the parity of two digests.       *)
LEMMA CommitParity ==
    ASSUME StorageInv, NEW f \in opened, NEW c \in Contents, Commits(f, c), NEW h \in Contents
    PROVE  /\ h = c \/ h \in files[f].hash => (Odd(h)' <=> ~Odd(h))
           /\ h # c /\ h \notin files[f].hash => (Odd(h)' <=> Odd(h))
           /\ c \notin files[f].hash
<1>1. /\ f \in Files /\ files \in [Files -> FileData]
      /\ files' = [files EXCEPT ![f] = [length |-> Len(c), hash |-> {c}, partial_hash |-> c]]
      /\ files[f].length < Len(c)
  BY DEF Commits, StorageInv, TypeOK
<1>2. /\ files[f].hash = {} \/ files[f].hash = {files[f].partial_hash}
      /\ Len(files[f].partial_hash) = files[f].length /\ files[f].length \in Nat
  BY <1>1, CommittedLength
<1>3. c \notin files[f].hash
  <2>1. c # files[f].partial_hash
    BY <1>1, <1>2
  <2>. QED  BY <1>2, <2>1
<1>4. \A g \in Files : files'[g].hash = IF g = f THEN {c} ELSE files[g].hash
  BY <1>1
<1>5. /\ IsFiniteSet(Having(h)) /\ Cardinality(Having(h)) \in Nat
      /\ f \in Having(h) <=> h \in files[f].hash
  <2>1. f \in Having(h) <=> files[f].hash = {h}
    BY <1>1 DEF Having, Digest
  <2>2. files[f].hash = {h} <=> h \in files[f].hash
    BY <1>2
  <2>. QED  BY <2>1, <2>2, HavingFinite
<1>6. CASE h = c
  <2>1. Having(h)' = Having(h) \cup {f} /\ f \notin Having(h)
    BY <1>1, <1>3, <1>4, <1>5, <1>6 DEF Having, Digest
  <2>2. Cardinality(Having(h)') = Cardinality(Having(h)) + 1
    BY <1>5, <2>1, FS_AddElement
  <2>. QED  BY <1>3, <1>5, <1>6, <2>2 DEF Odd
<1>7. CASE h \in files[f].hash
  <2>1. h # c
    BY <1>3, <1>7
  <2>2. {h} # {c}
    BY <2>1
  <2>3. Having(h)' = Having(h) \ {f} /\ f \in Having(h)
    BY <1>1, <1>4, <1>5, <1>7, <2>2 DEF Having, Digest
  <2>4. Cardinality(Having(h)') = Cardinality(Having(h)) - 1
    BY <1>5, <2>3, FS_RemoveElement
  <2>. QED  BY <1>3, <1>5, <1>7, <2>1, <2>4 DEF Odd
<1>8. CASE h # c /\ h \notin files[f].hash
  <2>1. {h} # {c}
    BY <1>8
  <2>2. Having(h)' = Having(h)
    BY <1>1, <1>4, <1>5, <1>8, <2>1 DEF Having, Digest
  <2>. QED  BY <1>3, <1>8, <2>2 DEF Odd
<1>. QED  BY <1>6, <1>7, <1>8

LEMMA RootNext ==
    ASSUME StorageInv, RootInv, Effect
    PROVE  RootInv'
<1>1. CASE Clears
  <2>1. ASSUME NEW h \in Contents
        PROVE  ~Odd(h)'
    <3>1. {} # {h}
      OBVIOUS
    <3>2. Having(h)' = {}
      BY <1>1, <3>1 DEF Clears, Having, NoFile, ZeroHash, Digest
    <3>. QED  BY <3>2, FS_EmptySet DEF Odd
  <2>. QED  BY <1>1, <2>1 DEF Clears, RootInv, ZeroHash
<1>2. CASE Leaves
  <2>1. \A h \in Contents : Odd(h)' = Odd(h)
    BY <1>2 DEF Leaves, Odd, Having
  <2>. QED  BY <1>2, <2>1 DEF Leaves, RootInv
<1>3. ASSUME NEW f \in opened, NEW c \in Contents, Commits(f, c)
      PROVE  RootInv'
  <2>1. up /\ root = rootDb
    BY DEF StorageInv, TypeOK, RootInv
  <2>2. /\ root' = NewRoot(root, files[f].hash, {c}) /\ rootDb' = root' /\ state' = root'
    BY <1>3 DEF Commits
  <2>3. ASSUME NEW h \in Contents
        PROVE  h \in rootDb' <=> Odd(h)'
    <3>1. /\ h = c \/ h \in files[f].hash => (Odd(h)' <=> ~Odd(h))
          /\ h # c /\ h \notin files[f].hash => (Odd(h)' <=> Odd(h))
          /\ c \notin files[f].hash
      BY <1>3, CommitParity
    <3>2. h \in rootDb <=> Odd(h)
      BY DEF RootInv
    <3>3. h \in rootDb' <=> h \in Xor(Xor(rootDb, {c}), files[f].hash)
      BY <2>1, <2>2 DEF NewRoot
    <3>. QED  BY <3>1, <3>2, <3>3 DEF Xor
  <2>. QED  BY <2>2, <2>3 DEF RootInv
<1>. QED  BY <1>1, <1>2, <1>3 DEF Effect

(* The root hash, which is updated incrementally at every commit, is the     *)
(* exclusive or of the current digests of all files, in the database and in  *)
(* memory, for any number of files and any history (RootIsXor).              *)
THEOREM StorageRoot == Spec => []RootIsXor
<1>1. Init => RootInv
  <2>1. SUFFICES ASSUME Init
                 PROVE  RootInv
    OBVIOUS
  <2>2. ASSUME NEW h \in Contents
        PROVE  ~Odd(h)
    <3>1. {} # {h}
      OBVIOUS
    <3>2. Having(h) = {}
      BY <2>1, <3>1 DEF Init, Having, NoFile, ZeroHash, Digest
    <3>. QED  BY <3>2, FS_EmptySet DEF Odd
  <2>. QED  BY <2>1, <2>2 DEF Init, RootInv, ZeroHash
<1>2. StorageInv /\ RootInv /\ [Next]_vars => RootInv'
  BY StepEffect, RootNext
<1>3. StorageInv /\ RootInv => RootIsXor
  BY DEF StorageInv, TypeOK, RootInv, RootIsXor, Odd, FileData
<1>. QED  BY <1>1, <1>2, <1>3, StorageInit, StorageNext, PTL DEF Spec

-----------------------------------------------------------------------------
(* Marks.  Once a file is open its saved marks are in range too, so that a   *)
(* first commit to an empty file leaves no old mark behind.                  *)
MarksInv ==
    /\ MarksInRange
    /\ \A f \in opened, m \in MarkNames : markFile[f][m] <= EOF[f]

(* What a step does to marks: nothing, empties one marks file and ends the   *)
(* process, reads them when a file is opened, or sets one.                   *)
MarkStep ==
    \/ UNCHANGED <<markFile, properties, opened>>
    \/ /\ opened' = {} /\ files' = files
       /\ markFile' = markFile \/ \E f \in Files : markFile' = [markFile EXCEPT ![f] = NoMarks]
    \/ \E f \in Files : OpenFile(f)
    \/ \E f \in Files, m \in MarkNames : \E offset \in 0..EOF[f] : SetMark(f, m, offset)

LEMMA StepMarks ==
    ASSUME [Next]_vars
    PROVE  MarkStep
<1>1. ASSUME NEW stale \in BOOLEAN, OpenStorage(stale)
      PROVE  MarkStep
  BY <1>1 DEF OpenStorage, MarkStep, fileVars
<1>2. CASE Close
  BY <1>2 DEF Close, Gone, MarkStep, persistent
<1>3. CASE InitSyncState
  BY <1>3 DEF InitSyncState, MarkStep, persistent, fileVars
<1>4. ASSUME NEW f \in Files, NEW r \in Records, AppendRecordDies(f, r)
      PROVE  MarkStep
  BY <1>4 DEF AppendRecordDies, Gone, MarkStep
<1>5. ASSUME NEW f \in Files, NEW m \in MarkNames, NEW offset \in 0..EOF[f], SetMarkDies(f, m, offset)
      PROVE  MarkStep
  BY <1>5 DEF SetMarkDies, Gone, MarkStep
<1>6. ASSUME NEW f \in Files, NEW r \in Records, NEW commits \in BOOLEAN, AppendRecord(f, r, commits)
      PROVE  MarkStep
  BY <1>6 DEF AppendRecord, MarkStep
<1>7. ASSUME NEW f \in Files, NEW v \in Versions, NEW offset \in 0..Len(v), NEW end \in 1..Len(v),
             NEW commits \in BOOLEAN, AppendAt(f, offset, SubSeq(v, offset + 1, end), commits)
      PROVE  MarkStep
  BY <1>7 DEF AppendAt, MarkStep
<1>8. ASSUME NEW f \in Files, NEW v \in Versions,
             SetTransfer(f, [newLength |-> Len(v), expectedHash |-> v]) \/ ReceiveMetadata(v, f)
      PROVE  MarkStep
  BY <1>8 DEF SetTransfer, ReceiveMetadata, MarkStep, persistent, fileVars
<1>9. ASSUME NEW f \in Files, CancelTransfer(f)
      PROVE  MarkStep
  BY <1>9 DEF CancelTransfer, MarkStep, persistent
<1>10. ASSUME NEW f \in Files, OpenFile(f)
       PROVE  MarkStep
  BY <1>10 DEF MarkStep
<1>11. ASSUME NEW f \in Files, NEW m \in MarkNames, NEW offset \in 0..EOF[f], SetMark(f, m, offset)
       PROVE  MarkStep
  BY <1>11 DEF MarkStep
<1>12. CASE UNCHANGED vars
  BY <1>12 DEF vars, MarkStep
<1>. QED  BY <1>1, <1>2, <1>3, <1>4, <1>5, <1>6, <1>7, <1>8, <1>9, <1>10, <1>11, <1>12 DEF Next

(* Committed lengths only grow, those of open files, unless the databases    *)
(* are dropped.                                                              *)
LEMMA LengthsGrow ==
    ASSUME StorageInv, Effect
    PROVE  \/ opened' = {} /\ opened = {} /\ \A f \in Files : files'[f].length = 0
           \/ \A f \in Files : /\ files[f].length <= files'[f].length
                               /\ f \in opened \/ files'[f].length = files[f].length
<1>1. \A f \in Files : files[f].length \in Nat
  BY DEF StorageInv, TypeOK, FileData
<1>2. CASE Clears
  BY <1>2 DEF Clears, NoFile
<1>3. CASE Leaves
  BY <1>1, <1>3 DEF Leaves
<1>4. ASSUME NEW f \in opened, NEW c \in Contents, Commits(f, c)
      PROVE  \A g \in Files : /\ files[g].length <= files'[g].length
                              /\ g \in opened \/ files'[g].length = files[g].length
  <2>1. /\ files[f].length < Len(c) /\ f \in Files /\ Len(c) \in Nat
        /\ files' = [files EXCEPT ![f] = [length |-> Len(c), hash |-> {c}, partial_hash |-> c]]
    BY <1>4, LenProperties DEF Commits, StorageInv, TypeOK, Contents
  <2>2. \A g \in Files : files'[g].length = IF g = f THEN Len(c) ELSE files[g].length
    BY <2>1 DEF StorageInv, TypeOK
  <2>. QED  BY <1>1, <2>1, <2>2
<1>. QED  BY <1>2, <1>3, <1>4 DEF Effect

LEMMA EndOfFile ==
    ASSUME StorageInv, NEW f \in opened
    PROVE  EOF[f] = files[f].length /\ EOF[f] \in Nat /\ f \in Files
<1>1. Persisted(native[f]) = files[f] /\ EOF[f] = native[f].length
  BY DEF StorageInv, AppendCoherent
<1>2. EOF[f] \in Nat /\ f \in Files
  BY DEF StorageInv, TypeOK
<1>. QED  BY <1>1, <1>2 DEF Persisted

LEMMA MarksNext ==
    ASSUME StorageInv, StorageInv', MarksInv, Effect, MarkStep
    PROVE  MarksInv'
<1> USE DEF MarksInv, MarksInRange
<1>t. /\ markFile \in [Files -> [MarkNames -> Nat]] /\ properties \in [Files -> [MarkNames -> Nat]]
      /\ opened \subseteq Files /\ NoMarks = [m \in MarkNames |-> 0]
      /\ \A f \in Files : files[f].length \in Nat /\ files'[f].length \in Nat
  BY DEF StorageInv, TypeOK, FileData, NoMarks
<1>o. \A f \in opened : EOF[f] = files[f].length
  BY EndOfFile
<1>n. \A f \in opened' : EOF'[f] = files'[f].length
  <2>1. AppendCoherent'
    BY DEF StorageInv
  <2>2. ASSUME NEW f \in opened'
        PROVE  EOF'[f] = files'[f].length
    <3>1. Persisted(native[f])' = files'[f] /\ EOF'[f] = native'[f].length
      BY <2>1, <2>2 DEF AppendCoherent
    <3>2. Persisted(native[f])' = [length |-> native'[f].length, hash |-> native'[f].hash,
                                   partial_hash |-> native'[f].partial_hash]
      BY DEF Persisted
    <3>. QED  BY <3>1, <3>2
  <2>. QED  BY <2>2
<1>l. \/ opened' = {} /\ opened = {} /\ \A f \in Files : files'[f].length = 0
      \/ \A f \in Files : /\ files[f].length <= files'[f].length
                          /\ f \in opened \/ files'[f].length = files[f].length
  BY LengthsGrow
<1>1. CASE UNCHANGED <<markFile, properties, opened>>
  <2>1. CASE opened' = {} /\ opened = {} /\ \A f \in Files : files'[f].length = 0
    BY <2>1
  <2>2. CASE \A f \in Files : /\ files[f].length <= files'[f].length
                              /\ f \in opened \/ files'[f].length = files[f].length
    <3>1. \A f \in opened, m \in MarkNames :
             properties'[f][m] <= EOF'[f] /\ markFile'[f][m] <= EOF'[f]
      <4>1. SUFFICES ASSUME NEW f \in opened, NEW m \in MarkNames
                     PROVE  properties[f][m] <= EOF'[f] /\ markFile[f][m] <= EOF'[f]
        BY <1>1
      <4>2. /\ properties[f][m] <= EOF[f] /\ markFile[f][m] <= EOF[f]
            /\ properties[f][m] \in Nat /\ markFile[f][m] \in Nat /\ f \in Files
        BY <1>t
      <4>3. EOF[f] <= EOF'[f] /\ EOF[f] \in Nat /\ EOF'[f] \in Nat
        BY <1>1, <1>t, <1>o, <1>n, <2>2
      <4>. QED  BY <4>2, <4>3
    <3>2. ASSUME NEW f \in Files, NEW m \in MarkNames, files'[f].length # 0
          PROVE  markFile'[f][m] <= files'[f].length
      <4>1. CASE files[f].length = 0
        <5>1. f \in opened
          BY <2>2, <3>2, <4>1
        <5>. QED  BY <1>1, <1>n, <3>1, <5>1
      <4>2. CASE files[f].length # 0
        <5>1. markFile[f][m] <= files[f].length /\ markFile[f][m] \in Nat
          BY <1>t, <4>2
        <5>. QED  BY <1>1, <1>t, <2>2, <5>1
      <4>. QED  BY <4>1, <4>2
    <3>3. \A f \in Files, m \in MarkNames : files'[f].length = 0 \/ markFile'[f][m] <= files'[f].length
      BY <3>2
    <3>4. opened' = opened
      BY <1>1
    <3>5. \A f \in opened', m \in MarkNames :
             properties'[f][m] <= EOF'[f] /\ markFile'[f][m] <= EOF'[f]
      BY <3>1, <3>4
    <3>. QED  BY <3>3, <3>5
  <2>. QED  BY <1>l, <2>1, <2>2
<1>2. CASE /\ opened' = {} /\ files' = files
           /\ markFile' = markFile \/ \E f \in Files : markFile' = [markFile EXCEPT ![f] = NoMarks]
  BY <1>2, <1>t
<1>3. ASSUME NEW f \in Files, OpenFile(f)
      PROVE  MarksInv'
  <2>1. /\ opened' = opened \cup {f} /\ files' = files
        /\ markFile' = IF files[f].length = 0 THEN [markFile EXCEPT ![f] = NoMarks] ELSE markFile
        /\ properties' = [properties EXCEPT ![f] = IF files[f].length = 0 THEN NoMarks ELSE markFile[f]]
    BY <1>3 DEF OpenFile
  <2>2. \A m \in MarkNames : markFile'[f][m] <= files[f].length /\ properties'[f][m] <= files[f].length
    BY <1>t, <2>1
  <2>3. \A g \in Files \ {f} : markFile'[g] = markFile[g] /\ properties'[g] = properties[g]
    BY <1>t, <2>1
  <2>. QED  BY <1>t, <1>o, <1>n, <2>1, <2>2, <2>3
<1>4. ASSUME NEW f \in Files, NEW m \in MarkNames, NEW offset \in 0..EOF[f], SetMark(f, m, offset)
      PROVE  MarksInv'
  <2>1. /\ f \in opened /\ UNCHANGED <<opened, files, EOF>>
        /\ properties' = [properties EXCEPT ![f][m] = offset]
        /\ markFile' = [markFile EXCEPT ![f] = IF EOF[f] = 0 THEN NoMarks ELSE properties'[f]]
    BY <1>4 DEF SetMark
  <2>2. offset \in Nat /\ offset <= EOF[f] /\ EOF[f] \in Nat
    BY <2>1, EndOfFile
  <2>3. \A k \in MarkNames : properties'[f][k] <= EOF[f]
    BY <1>t, <2>1, <2>2
  <2>4. \A k \in MarkNames : markFile'[f][k] <= EOF[f]
    BY <1>t, <2>1, <2>2, <2>3
  <2>5. \A g \in Files \ {f} : markFile'[g] = markFile[g] /\ properties'[g] = properties[g]
    BY <1>t, <2>1
  <2>. QED  BY <1>t, <1>o, <2>1, <2>3, <2>4, <2>5
<1>. QED  BY <1>1, <1>2, <1>3, <1>4 DEF MarkStep

(* No mark that an iterator is reset to lies beyond the end of its file, so  *)
(* RecordIterator.reset never throws, also after a kill while marks are      *)
(* saved and after an upgrade that drops the databases (MarksInRange).       *)
THEOREM StorageMarks == Spec => []MarksInRange
<1>1. Init => MarksInv
  BY DEF Init, MarksInv, MarksInRange, NoFile
<1>2. StorageInv /\ MarksInv /\ [Next]_vars => MarksInv'
  BY StorageNext, StepEffect, StepMarks, MarksNext
<1>3. MarksInv => MarksInRange
  BY DEF MarksInv
<1>. QED  BY <1>1, <1>2, <1>3, StorageInit, StorageNext, PTL DEF Spec

-----------------------------------------------------------------------------
(* What a step may never do to committed bytes.                              *)
LEMMA OnDiskAfter ==
    ASSUME StorageInv', NEW f \in Files
    PROVE  /\ files'[f].length \in Nat /\ disk'[f] \in Contents /\ files'[f].length <= Len(disk'[f])
           /\ files'[f].partial_hash = Prefix(disk'[f], files'[f].length)
BY DEF StorageInv, TypeOK, CommittedOnDisk, FileData

LEMMA KeepsCommitted ==
    ASSUME StorageInv, StorageInv', Effect, NEW f \in Files
    PROVE  \/ ~up /\ up'
           \/ /\ IsPrefixOf(files[f].partial_hash, files'[f].partial_hash)
              /\ IsPrefixOf(files[f].partial_hash, disk'[f])
<1> DEFINE p == files[f].partial_hash
           q == files'[f].partial_hash
<1>1. /\ files[f].length \in Nat /\ p \in Contents /\ Len(p) = files[f].length
  BY CommittedLength
<1>2. /\ files'[f].length \in Nat /\ disk'[f] \in Contents /\ files'[f].length <= Len(disk'[f])
      /\ q = Prefix(disk'[f], files'[f].length)
  BY OnDiskAfter
<1>3. q \in Contents /\ Len(q) = files'[f].length
  BY <1>2, PrefixFacts
<1>4. CASE Clears
  BY <1>4 DEF Clears
<1>5. ASSUME p = Prefix(q, Len(p)), Len(p) <= Len(q)
      PROVE  IsPrefixOf(p, q) /\ IsPrefixOf(p, disk'[f])
  <2>1. Prefix(Prefix(disk'[f], files'[f].length), Len(p)) = Prefix(disk'[f], Len(p))
    BY <1>1, <1>2, <1>3, <1>5, PrefixOfPrefix
  <2>2. Len(disk'[f]) \in Nat
    BY <1>2, LenProperties DEF Contents
  <2>. QED  BY <1>1, <1>2, <1>3, <1>5, <2>1, <2>2 DEF IsPrefixOf
<1>6. CASE files'[f] = files[f]
  <2>1. p = Prefix(p, Len(p))
    BY <1>1, <1>2, <1>3, <1>6, PrefixOfPrefix
  <2>. QED  BY <1>1, <1>3, <1>5, <1>6, <2>1
<1>7. CASE Leaves
  BY <1>6, <1>7 DEF Leaves
<1>8. ASSUME NEW g \in opened, NEW c \in Contents, Commits(g, c)
      PROVE  IsPrefixOf(p, q) /\ IsPrefixOf(p, disk'[f])
  <2>1. /\ files[g].length < Len(c) /\ files[g].partial_hash = Prefix(c, files[g].length)
        /\ files' = [files EXCEPT ![g] = [length |-> Len(c), hash |-> {c}, partial_hash |-> c]]
    BY <1>8 DEF Commits
  <2>2. CASE g = f
    <3>1. q = c
      BY <2>1, <2>2 DEF StorageInv, TypeOK
    <3>. QED  BY <1>1, <1>3, <1>5, <2>1, <2>2, <3>1
  <2>3. CASE g # f
    BY <1>6, <2>1, <2>3 DEF StorageInv, TypeOK
  <2>. QED  BY <2>2, <2>3
<1>. QED  BY <1>4, <1>7, <1>8 DEF Effect

(* No step other than opening a database of another version takes back or    *)
(* rewrites a committed byte, on disk or in the digest (AppendOnly).         *)
THEOREM StorageAppendOnly == Spec => AppendOnly
<1> DEFINE Keeps ==
        \A f \in Files :
           \/ ~up /\ up'
           \/ /\ IsPrefixOf(files[f].partial_hash, files'[f].partial_hash)
              /\ IsPrefixOf(files[f].partial_hash, disk'[f])
<1>1. StorageInv /\ [Next]_vars => [Keeps]_vars
  <2>1. ASSUME StorageInv, [Next]_vars, NEW f \in Files
        PROVE  \/ ~up /\ up'
               \/ /\ IsPrefixOf(files[f].partial_hash, files'[f].partial_hash)
                  /\ IsPrefixOf(files[f].partial_hash, disk'[f])
    BY <2>1, StorageNext, StepEffect, KeepsCommitted
  <2>. QED  BY <2>1
<1>. QED  BY <1>1, StorageInit, StorageNext, PTL DEF Spec, AppendOnly

LEMMA KeepsTransfers ==
    ASSUME StorageInv, StorageInv', Effect, NEW f \in Files,
           activeTransfer[f] # NoTransfer, activeTransfer'[f] = NoTransfer,
           files'[f] # files[f], up
    PROVE  Prefix(disk'[f], files'[f].length) = activeTransfer[f].expectedHash
<1>1. ~Clears /\ ~Leaves
  BY DEF Clears, Leaves
<1>2. PICK g \in opened, c \in Contents : Commits(g, c)
  BY <1>1 DEF Effect
<1>3. /\ files' = [files EXCEPT ![g] = [length |-> Len(c), hash |-> {c}, partial_hash |-> c]]
      /\ \/ activeTransfer' = activeTransfer
         \/ c = activeTransfer[g].expectedHash
  BY <1>2 DEF Commits
<1>4. g = f /\ files'[f].partial_hash = c
  BY <1>3 DEF StorageInv, TypeOK
<1>5. c = activeTransfer[f].expectedHash
  BY <1>3, <1>4
<1>. QED  BY <1>4, <1>5, OnDiskAfter

(* A block from a peer ends its transfer and makes new bytes part of the     *)
(* file only if the file is then byte for byte the version that the transfer *)
(* was for (TransferVerified).                                               *)
THEOREM StorageTransfers == Spec => TransferVerified
<1> DEFINE Verified ==
        \A f \in Files :
           ( /\ activeTransfer[f] # NoTransfer
             /\ activeTransfer'[f] = NoTransfer
             /\ files'[f] # files[f]
             /\ up /\ up' )
           => Prefix(disk'[f], files'[f].length) = activeTransfer[f].expectedHash
<1>1. StorageInv /\ [Next]_vars => [Verified]_vars
  <2>1. ASSUME StorageInv, [Next]_vars, NEW f \in Files,
               activeTransfer[f] # NoTransfer, activeTransfer'[f] = NoTransfer,
               files'[f] # files[f], up
        PROVE  Prefix(disk'[f], files'[f].length) = activeTransfer[f].expectedHash
    BY <2>1, StorageNext, StepEffect, KeepsTransfers
  <2>. QED  BY <2>1
<1>. QED  BY <1>1, StorageInit, StorageNext, PTL DEF Spec, TransferVerified
=============================================================================
