------------------------------- MODULE LmdbTxn -------------------------------
(***************************************************************************)
(* Transactions of LMDB, lmdb/mdb.c, as storage.cpp opens it: no flags, so *)
(* the map is read-only, pages are written with pwrite, and a commit       *)
(* syncs. One writer at a time changes copies of pages it allocates; a     *)
(* commit saves the list of free pages, writes and syncs the pages, and    *)
(* then writes one of two meta pages.  Readers take a transaction number   *)
(* from the lock file and publish it in their slot; the writer reuses no   *)
(* page that the oldest of them may see.                                   *)
(*                                                                         *)
(* A named database is a tree of at most two entries, one to a leaf: no    *)
(* page, a leaf, or a branch over two leaves; LmdbTree is about trees of   *)
(* any shape.  The free-page database is one page.  A put writes the       *)
(* number of its transaction.  Nested transactions and overflow pages are  *)
(* left out.                                                               *)
(*                                                                         *)
(* cache is the file as processes see it and dur what is on the medium.    *)
(* hist[t] is what transaction t committed, acked the last transaction     *)
(* whose mdb_txn_commit returned success: they are not in the code.        *)
(***************************************************************************)
EXTENDS Integers, Sequences, SequencesExt, FiniteSets, FiniteSetsExt, TLC

CONSTANTS DBs,         \* the named databases
          Readers,     \* threads that read
          MaxPg,       \* me_maxpg, the size of the map in pages
          MaxDirty,    \* MDB_IDL_UM_MAX, the length of the dirty list
          NeedRoom,    \* what mdb_page_spill estimates for an operation
          MaxFree1Pg,  \* me_maxfree_1pg
          MaxTxn,      \* bound: transactions committed
          MaxOps,      \* bound: operations of a write transaction
          MaxStops,    \* bound: power failures and killed processes
          IoErrors,    \* pwrite and fdatasync of pages may fail
          MetaErrors   \* the write of a meta page may fail

BoundsAssumption ==
    /\ MaxPg \in Nat /\ MaxPg > 3
    /\ {MaxDirty, NeedRoom, MaxFree1Pg, MaxTxn, MaxOps, MaxStops} \subseteq Nat
    /\ MaxFree1Pg > 0 /\ MaxTxn > 0
    /\ IoErrors \in BOOLEAN /\ MetaErrors \in BOOLEAN

VARIABLES cache, dur,     \* pages
          metas, dmetas,  \* the two meta pages, in the cache and on the medium
          mti_txnid,      \* the lock file's last committed transaction
          rd,             \* the readers and their slots
          w,              \* the write transaction and the environment's free pages
          fatal,          \* MDB_FATAL_ERROR
          hist, acked, stops

vars == <<cache, dur, metas, dmetas, mti_txnid, rd, w, fatal, hist, acked, stops>>

P_INVALID == 0
NUM_METAS == 2
Keys == 1 .. 2
Pgnos == NUM_METAS .. MaxPg

Empty == << >>
Blank == [t |-> "blank"]
Leaf(m) == [t |-> "leaf", m |-> m]
Branch(l, r) == [t |-> "branch", kid |-> <<l, r>>]
Main(root) == [t |-> "main", root |-> root]
FreeDb(rec) == [t |-> "free", rec |-> rec]

-----------------------------------------------------------------------------
(***************************************************************************)
(* What a transaction that starts at a meta page finds.  A page of another *)
(* kind than the one expected shows as an entry with key 0.                *)
(***************************************************************************)
Corrupt == 0 :> 0

LeafAt(f, p) == IF f[p].t = "leaf" THEN f[p].m ELSE Corrupt

TreeAt(f, p) ==
    CASE p = P_INVALID -> Empty
      [] p # P_INVALID /\ f[p].t = "branch" -> LeafAt(f, f[p].kid[1]) @@ LeafAt(f, f[p].kid[2])
      [] OTHER -> LeafAt(f, p)

Contents(f, meta) ==
    IF meta.main = P_INVALID THEN [d \in DBs |-> Empty]
    ELSE IF f[meta.main].t # "main" THEN [d \in DBs |-> Corrupt]
    ELSE [d \in DBs |-> TreeAt(f, f[meta.main].root[d])]

TreePages(f, p) ==
    CASE p = P_INVALID -> {}
      [] p # P_INVALID /\ f[p].t = "branch" -> {p, f[p].kid[1], f[p].kid[2]}
      [] OTHER -> {p}

-----------------------------------------------------------------------------
(***************************************************************************)
(* The write transaction.  me_pghead is null exactly when me_pglast is 0,  *)
(* both being set by the first record fetched.  got is the page that the   *)
(* last allocation or touch returned, err is MDB_TXN_ERROR, must and       *)
(* spills are MDB_TXN_DIRTY and MDB_TXN_SPILLS.                            *)
(***************************************************************************)
NoTxn(oldest) ==
    [pc |-> "idle", id |-> 0, main |-> P_INVALID, free |-> P_INVALID,
     root |-> [d \in DBs |-> P_INVALID], next |-> 0, dirty |-> Empty, spill |-> Empty,
     freed |-> << >>, loose |-> << >>, head |-> << >>, last |-> 0, oldest |-> oldest,
     dbd |-> {}, must |-> FALSE, spills |-> FALSE, err |-> FALSE, got |-> P_INVALID,
     map |-> [d \in DBs |-> Empty], ops |-> 0]

Room(x) == MaxDirty - Cardinality(DOMAIN x.dirty)

\* A page as the transaction sees it.  A spilled page is in the file.
Page(x, p) == IF p \in DOMAIN x.dirty THEN x.dirty[p]
              ELSE IF p \in DOMAIN x.spill THEN x.spill[p] ELSE cache[p]

SetPage(x, p, content) == [x EXCEPT !.dirty = (p :> content) @@ @]

Without(f, S) == [p \in DOMAIN f \ S |-> f[p]]

Failed(x) == [x EXCEPT !.err = TRUE]

\* Descending, as the lists of page numbers are kept.
Sorted(ids) == SortSeq(ids, LAMBDA a, b : a > b)

Slots == {r \in Readers : rd[r].mr # 0}

mdb_find_oldest(x) == Min({x.id - 1} \cup {rd[r].mr : r \in Slots})

Records(x) == IF x.free = P_INVALID THEN Empty ELSE Page(x, x.free).rec

\* The records of the free-page database that mdb_page_alloc reads: in the
\* order of their numbers, the next after me_pglast, until there is a page.
Unread(x) == {i \in DOMAIN Records(x) : i > x.last}
Older(x, id) == IF x.oldest <= id THEN [x EXCEPT !.oldest = mdb_find_oldest(x)] ELSE x
Fetched(x, id) == [x EXCEPT !.last = id, !.head = Sorted(@ \o Records(x)[id].ids)]

RECURSIVE Fetch(_), FetchNext(_, _)
Fetch(x) == IF x.head # << >> THEN x ELSE FetchNext(Older(x, x.last + 1), Unread(x))
FetchNext(x, ids) ==
    IF x.oldest <= x.last + 1 \/ ids = {} THEN x
    ELSE IF Older(x, Min(ids)).oldest <= Min(ids) THEN Older(x, Min(ids))
    ELSE Fetch(Fetched(Older(x, Min(ids)), Min(ids)))

\* A loose page, else the lowest free page, else a new one.
Taken(x, p) == SetPage([x EXCEPT !.got = p], p, Blank)
FromFree(x) ==
    IF x.head # << >> THEN Taken([x EXCEPT !.head = Front(@)], Last(x.head))
    ELSE IF x.next + 1 >= MaxPg THEN Failed(x)
    ELSE Taken([x EXCEPT !.next = @ + 1], x.next)
mdb_page_alloc(x) ==
    IF x.loose # << >> THEN [x EXCEPT !.got = Head(x.loose), !.loose = Tail(@)]
    ELSE IF Room(x) = 0 THEN Failed(x)
    ELSE FromFree(Fetch(x))

mdb_page_unspill(x, p) ==
    IF Room(x) = 0 THEN Failed(x)
    ELSE SetPage([x EXCEPT !.spill = Without(@, {p}), !.got = p], p, x.spill[p])

mdb_page_touch_bugInPlace(x, p) ==
    IF x.err THEN x
    ELSE IF p \in DOMAIN x.dirty THEN [x EXCEPT !.got = p]
    ELSE IF p \in DOMAIN x.spill THEN mdb_page_unspill(x, p)
    ELSE SetPage([x EXCEPT !.got = p], p, Page(x, p))
\* A page that is not the transaction's own becomes a copy with another number.
Written(x, content) == IF x.err THEN x ELSE SetPage(x, x.got, content)
Replaced(x, p, content) == IF x.err THEN x ELSE Written([x EXCEPT !.freed = Append(@, p)], content)
mdb_page_touch(x, p) ==
    IF x.err THEN x
    ELSE IF p \in DOMAIN x.dirty THEN [x EXCEPT !.got = p]
    ELSE IF p \in DOMAIN x.spill THEN mdb_page_unspill(x, p)
    ELSE Replaced(mdb_page_alloc(x), p, Page(x, p))

mdb_page_new(x, content) == IF x.err THEN x ELSE Written(mdb_page_alloc(x), content)

mdb_page_loose(x, p) ==
    IF p \in DOMAIN x.dirty THEN [x EXCEPT !.loose = <<p>> \o @]
    ELSE [x EXCEPT !.freed = Append(@, p)]

\* Dirty pages with the highest numbers are written to the file before the
\* commit, except loose pages, those of the cursor and roots of changed databases.
mdb_page_spill(x, keep) ==
    LET kept == keep \cup {x.root[d] : d \in x.dbd} \cup {x.loose[i] : i \in DOMAIN x.loose}
        can == DOMAIN x.dirty \ kept
        need == Max({NeedRoom, MaxDirty \div 8})
        out == {p \in can : Cardinality({q \in can : q > p}) < need}
    IN IF x.err \/ Room(x) > NeedRoom THEN x
       ELSE [x EXCEPT !.dirty = Without(@, out), !.spills = TRUE,
                      !.spill = [p \in out |-> x.dirty[p]] @@ @]

-----------------------------------------------------------------------------
(***************************************************************************)
(* Operations on a named database.                                         *)
(***************************************************************************)
\* The pages from the root to the key.
Path(x, d, k) ==
    LET r == x.root[d]
    IN CASE r = P_INVALID -> << >>
         [] r # P_INVALID /\ Page(x, r).t = "branch" -> <<r, Page(x, r).kid[k]>>
         [] OTHER -> <<r>>

\* The record of the database in the main database, then the path.
Named(x, d) == IF x.err THEN x ELSE [x EXCEPT !.main = x.got, !.dbd = @ \cup {d}]
Rooted(x, d) == IF x.err THEN x ELSE [x EXCEPT !.root[d] = x.got]
Linked(x, p, k) == IF x.err THEN x ELSE [x EXCEPT !.dirty[p].kid[k] = x.got]

TouchNamed(x, d) == IF d \in x.dbd THEN x ELSE Named(mdb_page_touch(x, x.main), d)
TouchRoot(x, d) == Rooted(mdb_page_touch(x, x.root[d]), d)
TouchLeaf(x, d, k) ==
    IF x.err THEN x ELSE Linked(mdb_page_touch(x, Page(x, x.root[d]).kid[k]), x.root[d], k)
mdb_cursor_touch(x, d, k) ==
    IF Len(Path(x, d, k)) = 1 THEN TouchRoot(TouchNamed(x, d), d)
    ELSE TouchLeaf(TouchRoot(TouchNamed(x, d), d), d, k)

SpillFor(x, d, k) == mdb_page_spill(x, Range(Path(x, d, k)))

\* The second entry splits the leaf: its right half, then a root over both.
Above(x, left, d, m) ==
    IF x.err THEN x
    ELSE Rooted(mdb_page_new([x EXCEPT !.dirty[left] = Leaf(1 :> m[1])], Branch(left, x.got)), d)
Split(x, d, m) == Above(mdb_page_new(x, Leaf(2 :> m[2])), x.got, d, m)

FirstPut(x, d) == IF x.err THEN x ELSE [Rooted(x, d) EXCEPT !.dbd = @ \cup {d}]
PutLeaf(x, d, m) ==
    IF Page(x, x.root[d]).t # "branch" /\ Cardinality(DOMAIN m) = 2 THEN Split(x, d, m)
    ELSE [x EXCEPT !.dirty[x.got] = Leaf(m)]
PutAt(x, d, k) == IF x.err THEN x ELSE PutLeaf(x, d, (k :> x.id) @@ x.dirty[x.got].m)
mdb_put(x, d, k) ==
    IF Path(x, d, k) = << >> THEN FirstPut(mdb_page_new(SpillFor(x, d, k), Leaf(k :> x.id)), d)
    ELSE PutAt(mdb_cursor_touch(SpillFor(x, d, k), d, k), d, k)

\* The left leaf takes the entry that is left, the right leaf and the root go.
Joined(x, d, right, rest) ==
    IF x.err THEN x
    ELSE Rooted([mdb_page_loose(Written(x, rest), right) EXCEPT !.freed = Append(@, x.root[d])], d)
Merge(x, d, kid, k) == Joined(mdb_page_touch(x, kid[1]), d, kid[2], Page(x, kid[3 - k]))

DelAt(x, d, k) ==
    IF x.err THEN x
    ELSE IF Page(x, x.root[d]).t = "branch" THEN Merge(x, d, x.dirty[x.root[d]].kid, k)
    ELSE [x EXCEPT !.freed = Append(@, x.got), !.root[d] = P_INVALID]
mdb_del(x, d, k) == DelAt(mdb_cursor_touch(SpillFor(x, d, k), d, k), d, k)

mdb_drop(x, d) ==
    LET r == x.root[d]
        kids == IF r # P_INVALID /\ Page(x, r).t = "branch" THEN Page(x, r).kid ELSE << >>
    IN [x EXCEPT !.freed = IF r = P_INVALID THEN @ ELSE @ \o Append(kids, r),
                 !.root[d] = P_INVALID, !.dbd = @ \cup {d}, !.must = TRUE]

-----------------------------------------------------------------------------
(***************************************************************************)
(* The end of a write transaction.  A record of the free-page database has *)
(* room for some page numbers and holds as many as its first word says.    *)
(***************************************************************************)
RootsWritten(x) == IF x.err THEN x ELSE [x EXCEPT !.main = x.got, !.dirty[x.got] = Main(x.root)]
PutRoots(x) ==
    IF x.dbd = {} THEN x ELSE RootsWritten(mdb_page_touch(mdb_page_spill(x, {x.main}), x.main))

FreeIsGot(x) == [x EXCEPT !.free = x.got]
TouchFree(x) == IF x.free = P_INVALID THEN x ELSE FreeIsGot(mdb_page_touch(x, x.free))
MakeFree(x) == IF x.free = P_INVALID THEN mdb_page_new(x, FreeDb(Empty)) ELSE mdb_page_touch(x, x.free)

\* The record is written when the page has been touched, and so with all the
\* pages that were freed by that.
Recorded(x, id, rec(_)) ==
    IF x.err THEN x
    ELSE [x EXCEPT !.free = x.got, !.dirty[x.got] = FreeDb((id :> rec(x)) @@ Page(x, x.got).rec)]
PutRecord(x, id, rec(_)) == Recorded(MakeFree(mdb_page_spill(x, {x.free})), id, rec)

Unrecorded(x, id) == IF x.err THEN x ELSE [x EXCEPT !.dirty[x.free] = FreeDb(Without(@.rec, {id}))]
DelRecord(x, id) == Unrecorded(TouchFree(x), id)

Freed(x) == [room |-> Len(x.freed), ids |-> Sorted(x.freed)]

\* The room of the next record for me_pghead.
HeadRoom(left, head_id) ==
    LET part == left \div head_id
    IN IF left > MaxFree1Pg /\ head_id > 1
       THEN part + MaxFree1Pg - (part % (MaxFree1Pg + 1))
       ELSE Max({left, 0})

\* s.x is the transaction, the other fields are the variables of the loop.
ToSave(x) == Len(x.head) + Len(x.loose)
\* A record of the free-page database that has been used up is deleted.
DropRecord(s, id) ==
    [s EXCEPT !.x = DelRecord(@, id), !.pglast = id, !.head_id = id, !.total = 0, !.room = 0]
SavedFreed(s, x) == [s EXCEPT !.x = x, !.freecnt = Len(x.freed)]
SaveFreed(s, x) == SavedFreed(s, PutRecord(IF s.freecnt = 0 THEN TouchFree(x) ELSE x, x.id, Freed))
\* One more record is reserved for me_pghead, or the last one again.
Reserve(s, head_id, rest, room) ==
    [s EXCEPT !.x = PutRecord(@, head_id, LAMBDA y : [room |-> room, ids |-> << >>]),
              !.head_id = head_id, !.room = room, !.total = rest + room,
              !.more = IF s.total >= ToSave(s.x) THEN @ - 1 ELSE @]
ReserveAt(s, head_id, rest) == Reserve(s, head_id, rest, HeadRoom(ToSave(s.x) - rest, head_id))
RECURSIVE SaveLoop(_)
SaveLoop(s) ==
    IF s.x.err THEN s
    ELSE IF s.pglast < s.x.last THEN SaveLoop(DropRecord(s, Min(DOMAIN Records(s.x))))
    ELSE IF s.freecnt < Len(s.x.freed) THEN SaveLoop(SaveFreed(s, s.x))
    ELSE IF s.total >= ToSave(s.x) /\ (s.total = ToSave(s.x) \/ s.more = 0) THEN s
    ELSE IF s.total < ToSave(s.x) /\ s.room >= MaxFree1Pg /\ s.head_id > 1
    THEN SaveLoop(ReserveAt(s, s.head_id - 1, s.total))
    ELSE SaveLoop(ReserveAt(s, s.head_id, s.total - s.room))

\* The reserved records get the pages of head, the lowest first.
RECURSIVE Fill(_, _, _)
Fill(recs, ids, head) ==
    LET id == Min(ids)
        n == Min({recs[id].room, Len(head)})
        cut == Len(head) - n
    IN IF head = << >> \/ ids = {} THEN recs
       ELSE Fill([recs EXCEPT ![id] = [room |-> n, ids |-> SubSeq(head, cut + 1, Len(head))]],
                 ids \ {id}, SubSeq(head, 1, cut))

SaveStart(x) == [x |-> x, pglast |-> 0, head_id |-> 0, freecnt |-> 0, room |-> 0, total |-> 0, more |-> 1]
LooseFreed(x) == IF x.last = 0 THEN [x EXCEPT !.freed = @ \o x.loose, !.loose = << >>] ELSE x
HeadWithLoose(x) == [x EXCEPT !.loose = << >>, !.head = Sorted(@ \o x.loose)]
HeadSaved(x) ==
    IF x.err \/ x.head = << >> THEN x
    ELSE [x EXCEPT !.dirty[x.free] = FreeDb(Fill(@.rec, DOMAIN @.rec, x.head))]
mdb_freelist_save(x) ==
    HeadSaved(HeadWithLoose(
        SaveLoop(SaveStart(LooseFreed(IF x.last > 0 THEN TouchFree(x) ELSE x))).x))

-----------------------------------------------------------------------------
(***************************************************************************)
(* Readers.  mdb_txn_renew0 stores the lock file's number in the slot and  *)
(* looks whether it is still the same; then it copies the meta page.  A    *)
(* reader's mr is 0 for (txnid_t)-1.  snap is the transaction of the meta  *)
(* page that was copied, which the code does not keep.                     *)
(***************************************************************************)
NoReader == [pc |-> "idle", mr |-> 0, txnid |-> 0, main |-> P_INVALID, snap |-> 0]

ReadLoad(r) ==
    /\ rd[r].pc = "idle" /\ ~fatal
    /\ rd' = [rd EXCEPT ![r].pc = "store", ![r].txnid = mti_txnid]
    /\ UNCHANGED <<cache, dur, metas, dmetas, mti_txnid, w, fatal, hist, acked, stops>>

ReadStore(r) ==
    /\ rd[r].pc = "store"
    /\ rd' = [rd EXCEPT ![r].pc = "check", ![r].mr = rd[r].txnid]
    /\ UNCHANGED <<cache, dur, metas, dmetas, mti_txnid, w, fatal, hist, acked, stops>>

\* The loop is left when the number has not changed.
ReadCheck(r) ==
    /\ rd[r].pc = "check"
    /\ rd' = [rd EXCEPT ![r].pc = IF rd[r].mr = mti_txnid THEN "copy" ELSE "store",
                        ![r].txnid = mti_txnid]
    /\ UNCHANGED <<cache, dur, metas, dmetas, mti_txnid, w, fatal, hist, acked, stops>>

ReadCopy(r) ==
    /\ rd[r].pc = "copy"
    /\ LET meta == metas[rd[r].txnid % NUM_METAS]
       IN rd' = [rd EXCEPT ![r].pc = "read", ![r].main = meta.main, ![r].snap = meta.txnid]
    /\ UNCHANGED <<cache, dur, metas, dmetas, mti_txnid, w, fatal, hist, acked, stops>>

ReadEnd(r) ==
    /\ rd[r].pc = "read"
    /\ rd' = [rd EXCEPT ![r] = NoReader]
    /\ UNCHANGED <<cache, dur, metas, dmetas, mti_txnid, w, fatal, hist, acked, stops>>

-----------------------------------------------------------------------------
(***************************************************************************)
(* The writer.                                                             *)
(***************************************************************************)
BeginWrite ==
    LET meta == metas[mti_txnid % NUM_METAS]
    IN /\ w.pc = "idle" /\ ~fatal
       /\ mti_txnid < MaxTxn
       /\ w' = [NoTxn(w.oldest) EXCEPT !.pc = "open", !.id = mti_txnid + 1,
                   !.main = meta.main, !.free = meta.free, !.next = meta.last + 1,
                   !.root = cache[meta.main].root, !.map = hist[mti_txnid]]
       /\ UNCHANGED <<cache, dur, metas, dmetas, mti_txnid, rd, fatal, hist, acked, stops>>

\* Pages that were spilled are in the file.
Operate(x, map) ==
    /\ w' = [x EXCEPT !.ops = @ + 1, !.map = map]
    /\ cache' = x.spill @@ cache
    /\ UNCHANGED <<dur, metas, dmetas, mti_txnid, rd, fatal, hist, acked, stops>>

CanOperate == w.pc = "open" /\ ~w.err /\ w.ops < MaxOps

Put(d, k) ==
    /\ CanOperate
    /\ Operate(mdb_put(w, d, k), [w.map EXCEPT ![d] = (k :> w.id) @@ @])

Del(d, k) ==
    /\ CanOperate
    /\ k \in DOMAIN w.map[d]
    /\ Operate(mdb_del(w, d, k), [w.map EXCEPT ![d] = Without(@, {k})])

Drop(d) ==
    /\ CanOperate
    /\ Operate(mdb_drop(w, d), [w.map EXCEPT ![d] = Empty])

EndWrite == w' = NoTxn(w.oldest)

Abort ==
    /\ w.pc = "open"
    /\ EndWrite
    /\ UNCHANGED <<cache, dur, metas, dmetas, mti_txnid, rd, fatal, hist, acked, stops>>

\* mdb_txn_commit of a transaction that failed or wrote nothing ends it.
Saved(x) ==
    /\ w' = IF x.err THEN NoTxn(x.oldest) ELSE [x EXCEPT !.pc = "flush"]
    /\ cache' = x.spill @@ cache
Commit ==
    LET nothing == w.dirty = Empty /\ ~w.must /\ ~w.spills
    IN /\ w.pc = "open"
       /\ IF w.err \/ nothing THEN EndWrite /\ UNCHANGED cache
          ELSE Saved(mdb_freelist_save(PutRoots(w)))
       /\ UNCHANGED <<dur, metas, dmetas, mti_txnid, rd, fatal, hist, acked, stops>>

Flush ==
    /\ w.pc = "flush"
    /\ cache' = w.dirty @@ cache
    /\ w' = [w EXCEPT !.pc = "sync"]
    /\ UNCHANGED <<dur, metas, dmetas, mti_txnid, rd, fatal, hist, acked, stops>>

\* The pages are written in the order of their numbers.
FlushFails ==
    /\ IoErrors
    /\ w.pc = "flush"
    /\ \E n \in DOMAIN w.dirty :
           cache' = [p \in {q \in DOMAIN w.dirty : q < n} |-> w.dirty[p]] @@ cache
    /\ EndWrite
    /\ UNCHANGED <<dur, metas, dmetas, mti_txnid, rd, fatal, hist, acked, stops>>

Sync ==
    /\ w.pc = "sync"
    /\ dur' = cache /\ dmetas' = metas
    /\ w' = [w EXCEPT !.pc = "meta"]
    /\ UNCHANGED <<cache, metas, mti_txnid, rd, fatal, hist, acked, stops>>

SyncFails ==
    /\ IoErrors
    /\ w.pc = "sync"
    /\ EndWrite
    /\ UNCHANGED <<cache, dur, metas, dmetas, mti_txnid, rd, fatal, hist, acked, stops>>

NewMeta == [txnid |-> w.id, main |-> w.main, free |-> w.free, last |-> w.next - 1]

\* The meta page is written through a descriptor opened with O_DSYNC.
WriteMeta_bugSame ==
    /\ w.pc = "meta"
    /\ metas' = [metas EXCEPT ![mti_txnid % NUM_METAS] = NewMeta]
    /\ dmetas' = [dmetas EXCEPT ![mti_txnid % NUM_METAS] = NewMeta]
    /\ w' = [w EXCEPT !.pc = "publish"]
    /\ hist' = [hist EXCEPT ![w.id] = w.map]
    /\ UNCHANGED <<cache, dur, mti_txnid, rd, fatal, acked, stops>>
WriteMeta ==
    /\ w.pc = "meta"
    /\ metas' = [metas EXCEPT ![w.id % NUM_METAS] = NewMeta]
    /\ dmetas' = [dmetas EXCEPT ![w.id % NUM_METAS] = NewMeta]
    /\ w' = [w EXCEPT !.pc = "publish"]
    /\ hist' = [hist EXCEPT ![w.id] = w.map]
    /\ UNCHANGED <<cache, dur, mti_txnid, rd, fatal, acked, stops>>

\* When the write fails the new page may have reached the medium.  The old number
\* is written back, but only to the cache.
WriteMetaFails ==
    LET slot == w.id % NUM_METAS
        old == metas[slot]
    IN /\ MetaErrors
       /\ w.pc = "meta"
       /\ metas' = [metas EXCEPT ![slot] =
                       [NewMeta EXCEPT !.txnid = old.txnid, !.last = old.last]]
       /\ \E m \in {NewMeta, dmetas[slot]} : dmetas' = [dmetas EXCEPT ![slot] = m]
       /\ hist' = [hist EXCEPT ![w.id] = w.map]
       /\ fatal' = TRUE
       /\ EndWrite
       /\ UNCHANGED <<cache, dur, mti_txnid, rd, acked, stops>>

Publish ==
    /\ w.pc = "publish"
    /\ mti_txnid' = w.id
    /\ acked' = w.id
    /\ EndWrite
    /\ UNCHANGED <<cache, dur, metas, dmetas, rd, fatal, hist, stops>>

-----------------------------------------------------------------------------
(***************************************************************************)
(* The process is killed, or the power fails: then of each page that was   *)
(* written and not synced the medium has the old or the new.  The program  *)
(* opens the environment again; nobody else has the lock file open, so its *)
(* number is set from the newer meta page and its slots are free.          *)
(***************************************************************************)
mdb_env_pick_meta(m) == IF m[0].txnid < m[1].txnid THEN 1 ELSE 0

mdb_env_share_locks(m) == m[mdb_env_pick_meta(m)].txnid

Reopen(m) ==
    /\ mti_txnid' = mdb_env_share_locks(m)
    /\ rd' = [r \in Readers |-> NoReader]
    /\ w' = NoTxn(0)
    /\ fatal' = FALSE
    /\ stops' = stops + 1
    /\ UNCHANGED <<hist, acked>>

Busy == fatal \/ w.pc # "idle" \/ \E r \in Readers : rd[r].pc # "idle"

Kill ==
    /\ stops < MaxStops /\ Busy
    /\ Reopen(metas)
    /\ UNCHANGED <<cache, dur, metas, dmetas>>

PowerFails ==
    /\ stops < MaxStops
    /\ Busy \/ cache # dur \/ metas # dmetas
    /\ \E S \in SUBSET {p \in Pgnos : cache[p] # dur[p]},
          M \in SUBSET {i \in 0 .. 1 : metas[i] # dmetas[i]} :
           /\ cache' = [p \in Pgnos |-> IF p \in S THEN cache[p] ELSE dur[p]]
           /\ metas' = [i \in 0 .. 1 |-> IF i \in M THEN metas[i] ELSE dmetas[i]]
    /\ dur' = cache' /\ dmetas' = metas'
    /\ Reopen(metas')

-----------------------------------------------------------------------------
(***************************************************************************)
(* The environment when storage.cpp has created its databases: transaction *)
(* 1 wrote the main database to page 2.                                    *)
(***************************************************************************)
NewFile == [p \in Pgnos |-> IF p = NUM_METAS THEN Main([d \in DBs |-> P_INVALID]) ELSE Blank]

NewMetas == [i \in 0 .. 1 |->
                IF i = 0 THEN [txnid |-> 0, main |-> P_INVALID, free |-> P_INVALID, last |-> 1]
                ELSE [txnid |-> 1, main |-> NUM_METAS, free |-> P_INVALID, last |-> NUM_METAS]]

Init ==
    /\ cache = NewFile /\ dur = NewFile
    /\ metas = NewMetas /\ dmetas = NewMetas
    /\ mti_txnid = 1 /\ acked = 1
    /\ rd = [r \in Readers |-> NoReader]
    /\ w = NoTxn(0)
    /\ fatal = FALSE /\ stops = 0
    /\ hist = [t \in 0 .. MaxTxn |-> [d \in DBs |-> Empty]]

Next ==
    \/ \E r \in Readers : ReadLoad(r) \/ ReadStore(r) \/ ReadCheck(r) \/ ReadCopy(r) \/ ReadEnd(r)
    \/ BeginWrite
    \/ \E d \in DBs, k \in Keys : Put(d, k) \/ Del(d, k)
    \/ \E d \in DBs : Drop(d)
    \/ Abort \/ Commit
    \/ Flush \/ FlushFails \/ Sync \/ SyncFails
    \/ WriteMeta \/ WriteMetaFails \/ Publish
    \/ Kill \/ PowerFails

Spec == Init /\ [][Next]_vars

-----------------------------------------------------------------------------
\* The state has the shape that the code gives it.
TypeOK ==
    /\ {cache[p].t : p \in Pgnos} \cup {dur[p].t : p \in Pgnos}
          \subseteq {"blank", "leaf", "branch", "main", "free"}
    /\ mti_txnid \in 0 .. MaxTxn /\ acked \in 0 .. MaxTxn
    /\ \A i \in 0 .. 1 : metas[i].txnid % NUM_METAS = i /\ metas[i].last < MaxPg
    /\ w.pc \in {"idle", "open", "flush", "sync", "meta", "publish"}
    /\ DOMAIN w.dirty \cup DOMAIN w.spill \subseteq NUM_METAS .. (w.next - 1)
    /\ Cardinality(DOMAIN w.dirty) <= MaxDirty
    /\ \A r \in Readers : rd[r].pc \in {"idle", "store", "check", "copy", "read"}

\* What a reader finds does not change for as long as its transaction lasts, whatever
\* is committed, spilled or aborted meanwhile: it is all of one committed transaction.
SnapshotStable ==
    \A r \in Readers : rd[r].pc = "read" =>
        /\ rd[r].snap >= rd[r].txnid
        /\ Contents(cache, rd[r]) = hist[rd[r].snap]

\* The databases hold what the last transaction committed, all of it and nothing
\* of a later one, also after the process was killed or the power failed.
CurrentIntact == Contents(cache, metas[mti_txnid % NUM_METAS]) = hist[mti_txnid]

\* A commit that returned success is not lost.
NothingLost == mti_txnid >= acked

\* The meta page before the last can still be used: until the next commit writes over
\* it, or fails to, no page that its transaction used has been taken again.
FallbackIntact ==
    w.pc # "publish" /\ ~fatal =>
        LET old == metas[(mti_txnid + 1) % NUM_METAS] IN Contents(cache, old) = hist[old.txnid]

\* What mdb_audit counts and the comment on pages says: every page up to the last is
\* used by one database or listed once in a record of the free-page database.
Audit ==
    LET meta == metas[mti_txnid % NUM_METAS]
        main == cache[meta.main].root
        rec == IF meta.free = P_INVALID THEN Empty ELSE cache[meta.free].rec
        listed == [i \in DOMAIN rec |-> {rec[i].ids[j] : j \in DOMAIN rec[i].ids}]
        used == {meta.main} \cup ({meta.free} \ {P_INVALID})
                  \cup UNION {TreePages(cache, main[d]) : d \in DBs}
    IN /\ used \cup UNION {listed[i] : i \in DOMAIN rec} = NUM_METAS .. meta.last
       /\ \A i \in DOMAIN rec :
             /\ Cardinality(listed[i]) = Len(rec[i].ids)
             /\ listed[i] \cap used = {}
             /\ \A j \in DOMAIN rec \ {i} : listed[i] \cap listed[j] = {}

\* mdb_txn_id: "For a read-only transaction, this corresponds to the snapshot being
\* read", lmdb.h.
SnapshotHasTxnid == \A r \in Readers : rd[r].pc = "read" => rd[r].snap = rd[r].txnid

\* What readers that start now will find changes only when a transaction becomes the
\* last one, and then to all that this transaction did.
AtomicCommit ==
    [][LET before == Contents(cache, metas[mti_txnid % NUM_METAS])
           after == Contents(cache', metas'[mti_txnid' % NUM_METAS])
       IN before # after => w.pc = "publish" /\ after = w.map]_vars
==============================================================================
