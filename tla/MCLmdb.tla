------------------------------- MODULE MCLmdb --------------------------------
(***************************************************************************)
(* LMDB: the tree of pages (LmdbTree), transactions (LmdbTxn) and lists of *)
(* page numbers (Midl). Each behaviour is of one of them (part), and the   *)
(* others rest in their initial states. LmdbTree and LmdbTxn appear with   *)
(* several sets of constants, for cases that are too many together.        *)
(***************************************************************************)
EXTENDS Integers, Sequences

VARIABLES
    part,
    db, cur, map, last, kept,
    ids, alloc, bag, dl, did,
    cache, dur, metas, dmetas, mti_txnid, rd, w, fatal, hist, acked, stops

tree == <<db, cur, map, last, kept>>
midl == <<ids, alloc, bag, dl, did>>
txn == <<cache, dur, metas, dmetas, mti_txnid, rd, w, fatal, hist, acked, stops>>
all == <<part, tree, midl, txn>>

(* Nodes of different sizes: long and short keys and values, no cursor.    *)
SomeLong == [k \in 1 .. 6 |-> IF k \in {3, 5, 6} THEN 2 ELSE 1]
Sizes == [long |-> 2, short |-> 0]
Tree == INSTANCE LmdbTree WITH
    Keys <- 1 .. 6, KeySize <- SomeLong, Data <- {"long", "short"}, DataSize <- Sizes,
    PageMax <- 10, Levels <- 6, Cursors <- {}, PrevFromAny <- FALSE, MaxBehind <- 1
(* A cursor of the program on a tree of three levels, nodes of one size.   *)
AllLong == [k \in 1 .. 5 |-> 2]
Cursor == INSTANCE LmdbTree WITH
    Keys <- 1 .. 5, KeySize <- AllLong, Data <- {"short"}, DataSize <- Sizes,
    PageMax <- 8, Levels <- 6, Cursors <- {1}, PrevFromAny <- FALSE, MaxBehind <- 1
(* Lists that outgrow UM_MAX, merged and sorted with a SMALL of 2.         *)
Lists == {<<2, 1>>, <<4, 3, 1>>}
Midl == INSTANCE Midl WITH
    Ids <- 1 .. 4, Merged <- Lists, UM_MAX <- 3, Round <- 4, SMALL <- 2, StackMax <- 6, MaxLen <- 5,
    last <- did
(* Transactions of two operations that spill, and meta pages that fail.    *)
Writer == INSTANCE LmdbTxn WITH
    DBs <- {"index"}, Readers <- {}, MaxPg <- 14, MaxDirty <- 6, NeedRoom <- 3, MaxFree1Pg <- 1,
    MaxTxn <- 5, MaxOps <- 2, MaxStops <- 0, IoErrors <- FALSE, MetaErrors <- TRUE
(* Two readers beside the writer.                                          *)
Reading == INSTANCE LmdbTxn WITH
    DBs <- {"index"}, Readers <- {1, 2}, MaxPg <- 16, MaxDirty <- 9, NeedRoom <- 2, MaxFree1Pg <- 2,
    MaxTxn <- 4, MaxOps <- 1, MaxStops <- 0, IoErrors <- FALSE, MetaErrors <- FALSE
(* A power failure or a kill, and writes and syncs of pages that fail.     *)
Crash == INSTANCE LmdbTxn WITH
    DBs <- {"index"}, Readers <- {}, MaxPg <- 14, MaxDirty <- 9, NeedRoom <- 2, MaxFree1Pg <- 1,
    MaxTxn <- 3, MaxOps <- 1, MaxStops <- 1, IoErrors <- TRUE, MetaErrors <- FALSE

ASSUME ConstantsFit ==
    Writer!BoundsAssumption /\ Reading!BoundsAssumption /\ Crash!BoundsAssumption

LmdbInit ==
    /\ part \in {"tree", "cursor", "midl", "writer", "readers", "crash"}
    /\ IF part = "cursor" THEN Cursor!Init ELSE Tree!Init
    /\ Midl!Init
    /\ CASE part = "readers" -> Reading!Init
         [] part = "crash" -> Crash!Init
         [] OTHER -> Writer!Init

LmdbNext ==
    /\ part' = part
    /\ \/ part = "tree" /\ Tree!Next /\ UNCHANGED <<midl, txn>>
       \/ part = "cursor" /\ Cursor!Next /\ UNCHANGED <<midl, txn>>
       \/ part = "midl" /\ Midl!Next /\ UNCHANGED <<tree, txn>>
       \/ part = "writer" /\ Writer!Next /\ UNCHANGED <<tree, midl>>
       \/ part = "readers" /\ Reading!Next /\ UNCHANGED <<tree, midl>>
       \/ part = "crash" /\ Crash!Next /\ UNCHANGED <<tree, midl>>

LmdbSpec == LmdbInit /\ [][LmdbNext]_all

-----------------------------------------------------------------------------
(* Types of the tree and of the transactions.                              *)
TypeOK ==
    /\ part = "tree" => Tree!TypeOK
    /\ part = "writer" => Writer!TypeOK

(* No put and no delete runs out of room in the middle of a split, a move  *)
(* or a merge: the transaction is never in error.                          *)
NeverInError == Tree!NeverInError

(* The leaves hold what was put and not deleted, in order, and md_entries  *)
(* counts it.                                                              *)
HoldsMap == part \in {"tree", "cursor"} => Tree!HoldsMap

(* All leaves are at md_depth, no leaf is empty, nodes fit, separators     *)
(* divide the keys, and the pages in use are those that are counted.       *)
WellFormed ==
    /\ part = "tree" => Tree!WellFormed
    /\ part = "cursor" => Cursor!WellFormed

(* mdb_get and MDB_SET find exactly the keys there are, from wherever the  *)
(* cursor is, and MDB_SET_RANGE the first that is not less.                *)
Lookups == part = "cursor" => Cursor!Lookups

(* Puts, deletes, splits and merges take the cursors along: the stack of   *)
(* each stays a path from the root to a leaf.                              *)
OnPath == part = "cursor" => Cursor!OnPath

(* MDB_NEXT and MDB_PREV never pass over a key that has been there since   *)
(* the cursor was put on its key.                                          *)
NeverSkips == part = "cursor" => Cursor!NeverSkips

(* Sorting, merging and growing lose no page number, invent none and stay  *)
(* within what is allocated.                                               *)
PageNumbersKept == Midl!NothingLost /\ Midl!WithinAllocation

(* Sorting and merging leave a list in descending order, and a search of   *)
(* it is exact.                                                            *)
ListsOrdered == Midl!SortedAfter /\ Midl!SearchExact

(* No page is twice in the dirty list, which ascends.                      *)
DirtyAscending == Midl!DirtyAscending

(* The databases hold what the last transaction committed, all of it and   *)
(* nothing of a later one, also after a kill or a power failure.           *)
CurrentIntact ==
    /\ part = "writer" => Writer!CurrentIntact
    /\ part = "readers" => Reading!CurrentIntact
    /\ part = "crash" => Crash!CurrentIntact

(* A commit that returned success is not lost.                             *)
NothingLost == Crash!NothingLost

(* The meta page before the last can still be used.                        *)
FallbackIntact == part = "writer" => Writer!FallbackIntact

(* What a reader finds does not change while its transaction lasts.        *)
SnapshotStable == part = "readers" => Reading!SnapshotStable

(* Every page is used by one database or listed once as free.              *)
Audit ==
    /\ part = "writer" => Writer!Audit
    /\ part = "crash" => Crash!Audit

(* What new readers will find changes only when a transaction becomes the  *)
(* last one, and then to all that it did.                                  *)
AtomicCommit == Writer!AtomicCommit
(* After every put, delete and move of a cursor: the tree is well formed,  *)
(* holds the map, and its cursors are where they should be.                *)
TreeSound == TypeOK /\ NeverInError /\ HoldsMap /\ WellFormed /\ Lookups /\ OnPath /\ NeverSkips

(* After every step of a transaction: what is committed can be read, by    *)
(* the next transaction, after a failure and by the readers there are; no  *)
(* page is lost or used twice, nor lost from the lists it goes through.    *)
StoreSound ==
    /\ CurrentIntact /\ NothingLost /\ FallbackIntact /\ SnapshotStable /\ Audit
    /\ PageNumbersKept /\ ListsOrdered /\ DirtyAscending
=============================================================================
