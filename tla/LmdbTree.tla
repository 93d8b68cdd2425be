------------------------------ MODULE LmdbTree -------------------------------
(***************************************************************************)
(* One database of LMDB within a write transaction, lmdb/mdb.c: mdb_put,   *)
(* mdb_del and mdb_get with a cursor of their own, while the program moves *)
(* its cursors, and puts and deletes through them.  storage.cpp opens two  *)
(* such databases and uses mdb_get, mdb_put with no flags, and one cursor  *)
(* with MDB_FIRST and MDB_NEXT.                                            *)
(*                                                                         *)
(* map is what the database should hold.  For each cursor, last is the key *)
(* it was put on last and kept are the keys that were there at that time   *)
(* and have not been deleted since.                                        *)
(***************************************************************************)
EXTENDS LmdbPages

CONSTANTS Cursors,     \* the program's cursors, positive integers
          PrevFromAny, \* the program calls MDB_PREV after a search that found nothing
          MaxBehind    \* bound: how far a cursor of such a search gets behind its page

VARIABLES db, cur, map, last, kept

vars == <<db, cur, map, last, kept>>

State == [pg |-> db.pg, root |-> db.root, depth |-> db.depth, entries |-> db.entries,
          branch |-> db.branch, leaf |-> db.leaf, cur |-> cur, trk |-> Cursors,
          rc |-> "ok", key |-> NoKey]

\* mdb_put and mdb_del have a cursor of their own and put it on the list.
Own == 0
OwnState == [State EXCEPT !.cur = @ @@ (Own :> NoCursor), !.trk = @ \cup {Own}]

-----------------------------------------------------------------------------
(***************************************************************************)
(* Moving a cursor.                                                        *)
(***************************************************************************)
\* The key under the cursor is the result.
Read(s, c) ==
    IF Ki(s, c) >= NumKeys(s, Pg(s, c)) THEN Fail(s, "read behind the last node")
    ELSE [s EXCEPT !.key = Node(s, Pg(s, c), Ki(s, c)).k]

FromRoot(s, c, how) ==
    IF ~s.cur[c].init \/ Top(s, c) # 0 THEN PageSearch(s, c, how, NoKey) ELSE s

AtFirst(s, c) == IF s.rc # "ok" THEN s ELSE Read([SetKi(s, c, 0) EXCEPT !.cur[c].eof = FALSE], c)
CursorFirst(s, c) == AtFirst(FromRoot(s, c, "FIRST"), c)

AtLast(s, c) ==
    IF s.rc # "ok" THEN s
    ELSE Read([SetKi(s, c, NumKeys(s, Pg(s, c)) - 1) EXCEPT !.cur[c].eof = TRUE], c)
CursorLast(s, c) == AtLast(FromRoot(s, c, "LAST"), c)

ReadOrEnd(s, c) == IF s.rc = "ok" THEN Read(s, c) ELSE [s EXCEPT !.cur[c].eof = TRUE]
CursorNext(s, c) ==
    LET m == s.cur[c]
        n == NumKeys(s, Pg(s, c))
        on == [s EXCEPT !.cur[c].eof = FALSE]
    IN IF ~m.init THEN CursorFirst(s, c)
       ELSE IF m.eof /\ Ki(s, c) >= n - 1 THEN Fail(s, "MDB_NOTFOUND")
       ELSE IF m.del THEN Read([on EXCEPT !.cur[c].del = FALSE], c)
       ELSE IF Ki(s, c) + 1 < n THEN Read(SetKi(on, c, Ki(s, c) + 1), c)
       ELSE ReadOrEnd(CursorSibling(on, c, TRUE), c)

ReadIfAny(s, c) == IF s.rc = "ok" THEN Read(s, c) ELSE s
Before(s, c) ==
    LET on == [s EXCEPT !.cur[c].eof = FALSE, !.cur[c].del = FALSE]
    IN IF Ki(s, c) > 0 THEN Read(SetKi(on, c, Ki(s, c) - 1), c)
       ELSE ReadIfAny(CursorSibling(on, c, FALSE), c)
BeforeEnd(s, c) == IF s.rc # "ok" THEN s ELSE Before(SetKi(s, c, Ki(s, c) + 1), c)
CursorPrev(s, c) == IF s.cur[c].init THEN Before(s, c) ELSE BeforeEnd(CursorLast(s, c), c)

\* mdb_cursor_set, MDB_SET or, with range, MDB_SET_RANGE.  A cursor that is
\* in the right page, or behind the last key, does not search from the root.
Found(s, c) == Read([s EXCEPT !.cur[c].init = TRUE, !.cur[c].eof = FALSE], c)
FoundOrEnd(s, c) == IF s.rc = "ok" THEN Found(s, c) ELSE [s EXCEPT !.cur[c].eof = TRUE]
SetTo(s, c, found, range) ==
    IF ~range /\ ~found.exact THEN Fail(SetKi(s, c, found.i), "MDB_NOTFOUND")
    ELSE IF found.i < NumKeys(s, Pg(s, c)) THEN Found(SetKi(s, c, found.i), c)
    ELSE FoundOrEnd(CursorSibling(SetKi(s, c, found.i), c, TRUE), c)
SetInPage(s, c, key, range) ==
    IF s.rc # "ok" THEN s ELSE SetTo(s, c, NodeSearch(s, Pg(s, c), key), range)

CursorSet(s, c, key, range) ==
    LET m == s.cur[c]
        p == Pg(s, c)
        n == NumKeys(s, p)
        KeyAt(i) == Node(s, p, i).k
        inside == n > 1 /\ key > KeyAt(0) /\ key < KeyAt(n - 1)
        rightmost == \A i \in 0 .. m.snum - 2 : m.ki[i] >= NumKeys(s, m.pg[i]) - 1
    IN IF m.init /\ n = 0 THEN Fail(SetKi(s, c, 0), "MDB_NOTFOUND")
       ELSE IF m.init /\ key = KeyAt(0) THEN Found(SetKi(s, c, 0), c)
       ELSE IF m.init /\ n > 1 /\ key = KeyAt(n - 1) THEN Found(SetKi(s, c, n - 1), c)
       ELSE IF m.init /\ inside /\ Ki(s, c) < n /\ key = KeyAt(Ki(s, c)) THEN Found(s, c)
       ELSE IF m.init /\ key > KeyAt(0) /\ ~inside /\ rightmost
       THEN Fail(SetKi(s, c, n), "MDB_NOTFOUND")
       ELSE IF m.init /\ ~inside /\ m.snum = 1
       THEN IF range THEN Found(SetKi(s, c, 0), c) ELSE Fail(SetKi(s, c, 0), "MDB_NOTFOUND")
       ELSE SetInPage(IF m.init /\ inside THEN [s EXCEPT !.cur[c].eof = FALSE]
                      ELSE PageSearch(s, c, "KEY", key), c, key, range)

GetCurrent(s, c) ==
    LET n == NumKeys(s, Pg(s, c))
    IN IF Ki(s, c) >= n THEN Fail(SetKi(s, c, n), "MDB_NOTFOUND") ELSE Read(s, c)

-----------------------------------------------------------------------------
(***************************************************************************)
(* Changing the tree through a cursor.                                     *)
(***************************************************************************)
\* A tree with no root gets an empty leaf.
FirstLeaf(s, c) ==
    LET p == FreshPage(s)
    IN [PageNew(s, TRUE) EXCEPT !.root = p, !.depth = @ + 1,
                                !.cur[c] = [Push([@ EXCEPT !.snum = 0], p) EXCEPT !.init = TRUE]]

\* mdb_cursor_put first sets the cursor to the place of the key.
Positioned(s, c, key) ==
    LET t == IF s.root = P_INVALID THEN FirstLeaf(s, c) ELSE CursorSet(s, c, key, FALSE)
    IN [t EXCEPT !.cur[c].del = FALSE]

\* Other cursors when a node is added at place i of page p.
PutFix(m3, m, p, i) ==
    LET top == m.snum - 1
    IN IF m3.snum >= m.snum /\ m3.pg[top] = p /\ m3.ki[top] >= i
       THEN [m3 EXCEPT !.ki[top] = @ + 1] ELSE m3

\* mdb_cursor_put with no flags.  Data of the same size are overwritten in
\* place, others are deleted and added.
AddNode(s, c, node, insert) ==
    LET Fix(m3) == IF insert THEN PutFix(m3, s.cur[c], Pg(s, c), Ki(s, c)) ELSE m3
    IN IF SizeLeft(s, Pg(s, c)) < NodeSize(TRUE, node) THEN PageSplit(s, c, node, ~insert)
       ELSE Adjust(NodeAdd(s, Pg(s, c), Ki(s, c), node), c, Fix)
Entered(s, c, insert) ==
    IF s.rc # "ok" THEN s
    ELSE [s EXCEPT !.entries = IF insert THEN @ + 1 ELSE @, !.cur[c].init = TRUE]
PutNode(s, c, node, insert) ==
    LET p == Pg(s, c)
        i == Ki(s, c)
    IN IF insert THEN Entered(AddNode(s, c, node, insert), c, insert)
       ELSE IF DataSize[Node(s, p, i).v] = DataSize[node.v]
       THEN [s EXCEPT !.pg[p] = [@ EXCEPT !.n[i + 1] = node]]
       ELSE Entered(AddNode(NodeDel(s, p, i), c, node, insert), c, insert)
PutAt(s, c, node, first) ==
    IF s.rc \notin {"ok", "MDB_NOTFOUND"} THEN s
    ELSE PutNode([s EXCEPT !.rc = "ok"], c, node, first \/ s.rc = "MDB_NOTFOUND")
CursorPut(s, c, key, data) ==
    PutAt(Positioned(s, c, key), c, [k |-> key, v |-> data], s.root = P_INVALID)

RECURSIVE Siblings(_, _, _, _)
\* The end of mdb_cursor_del0: a cursor on the page p of c that is behind its
\* last node goes to the next page, or is at the end.
Onward(s, x) == IF s.rc = "ok" THEN s ELSE [s EXCEPT !.rc = "ok", !.cur[x].eof = TRUE]
IsBehind(s, m3, c, p, top) ==
    m3.init /\ m3.snum >= s.cur[c].snum /\ m3.pg[top] = p
    /\ m3.ki[top] >= Ki(s, c) /\ m3.ki[top] >= NumKeys(s, p)
Siblings(s, c, p, rest) ==
    LET x == Min(rest)
    IN IF rest = {} THEN s
       ELSE Siblings(IF IsBehind(s, s.cur[x], c, p, Top(s, c)) THEN Onward(CursorSibling(s, x, TRUE), x)
                     ELSE s, c, p, rest \ {x})

\* Other cursors when node i of page p is deleted.
DelFix(m3, m, p, i) ==
    LET top == m.snum - 1
    IN IF ~m3.init \/ m3.snum < m.snum \/ m3.pg[top] # p THEN m3
       ELSE IF m3.ki[top] = i THEN [m3 EXCEPT !.del = TRUE]
       ELSE IF m3.ki[top] > i THEN [m3 EXCEPT !.ki[top] = @ - 1]
       ELSE m3

Balanced(s, c) ==
    IF s.rc # "ok" \/ s.cur[c].snum = 0 THEN s
    ELSE [Siblings(s, c, Pg(s, c), s.trk) EXCEPT !.cur[c].del = TRUE]
CursorDel0(s, c) ==
    LET Fix(m3) == DelFix(m3, s.cur[c], Pg(s, c), Ki(s, c))
    IN Balanced(Rebalance(Adjust([NodeDel(s, Pg(s, c), Ki(s, c)) EXCEPT !.entries = @ - 1], c, Fix), c), c)

CursorDel(s, c) ==
    IF ~s.cur[c].init THEN Fail(s, "EINVAL")
    ELSE IF Ki(s, c) >= NumKeys(s, Pg(s, c)) THEN Fail(s, "MDB_NOTFOUND")
    ELSE CursorDel0(s, c)

-----------------------------------------------------------------------------
(***************************************************************************)
(* The calls of the program.                                               *)
(***************************************************************************)
Init ==
    /\ db = [pg |-> <<>>, root |-> P_INVALID, depth |-> 0, entries |-> 0, branch |-> 0, leaf |-> 0,
             error |-> "ok"]
    /\ cur = [c \in Cursors |-> NoCursor]
    /\ map = <<>>
    /\ last = [c \in Cursors |-> NoKey]
    /\ kept = [c \in Cursors |-> {}]

\* The stack above snum, and that of a cursor that points nowhere, is never
\* read again.
Clean(m) ==
    IF ~m.init THEN NoCursor
    ELSE [m EXCEPT !.pg = [i \in Stack |-> IF i < m.snum THEN @[i] ELSE P_INVALID],
                   !.ki = [i \in Stack |-> IF i < m.snum THEN @[i] ELSE 0]]

RECURSIVE Preorder(_, _), PreorderAll(_, _)
Preorder(s, p) == IF s.pg[p].leaf THEN <<p>> ELSE <<p>> \o PreorderAll(s, s.pg[p].n)
PreorderAll(s, nodes) ==
    IF nodes = <<>> THEN <<>> ELSE Preorder(s, Head(nodes).v) \o PreorderAll(s, Tail(nodes))

\* Nothing depends on page numbers between two calls: the pages are numbered
\* from the root down and from left to right.
Renumbered(s) ==
    IF s.pg = db.pg THEN [s EXCEPT !.cur = [c \in Cursors |-> Clean(@[c])]]
    ELSE
    LET order == IF s.root = P_INVALID THEN <<>> ELSE Preorder(s, s.root)
        all == order \o SetToSeq(DOMAIN s.pg \ Range(order))
        No(p) == IF p = P_INVALID THEN p ELSE CHOOSE i \in DOMAIN all : all[i] = p
        Nodes(pg) == IF pg.leaf THEN pg.n
                     ELSE [i \in DOMAIN pg.n |-> [pg.n[i] EXCEPT !.v = No(@)]]
    IN [s EXCEPT !.root = No(@),
                 !.pg = [i \in DOMAIN all |-> [@[all[i]] EXCEPT !.n = Nodes(s.pg[all[i]])]],
                 !.cur = [c \in Cursors |-> LET m == Clean(@[c]) IN
                             [m EXCEPT !.pg = [i \in Stack |-> No(@[i])]]]]

\* An error ends the transaction (MDB_TXN_ERROR).
Stored(s, error) ==
    /\ db' = [pg |-> s.pg, root |-> s.root, depth |-> s.depth, entries |-> s.entries,
              branch |-> s.branch, leaf |-> s.leaf, error |-> error]
    /\ cur' = s.cur
Becomes(s) ==
    /\ db.error = "ok"
    /\ IF s.rc \in {"ok", "MDB_NOTFOUND", "EINVAL"} THEN Stored(Renumbered(s), "ok")
       ELSE Stored(State, s.rc)

\* Cursor c was put on a key, or somewhere.
On(c, key) == last' = [last EXCEPT ![c] = key]
Forget(deleted, c, keys) ==
    kept' = [x \in Cursors |-> IF x = c THEN keys ELSE kept[x] \ deleted]

mdb_put(key, data) ==
    /\ Becomes(CursorPut(OwnState, Own, key, data))
    /\ map' = (key :> data) @@ map
    /\ UNCHANGED <<last, kept>>

DelFound(s) == IF s.rc = "ok" THEN CursorDel(s, Own) ELSE OwnState
mdb_del(key) ==
    /\ Becomes(DelFound(CursorSet(OwnState, Own, key, FALSE)))
    /\ map' = [k \in DOMAIN map \ {key} |-> map[k]]
    /\ Forget({key}, Own, {})
    /\ UNCHANGED last

mdb_cursor_put(c, key, data) ==
    /\ Becomes(CursorPut(State, c, key, data))
    /\ map' = (key :> data) @@ map
    /\ On(c, key)
    /\ Forget({}, c, DOMAIN map')

\* What is deleted is the key under the cursor: the last one, or its successor
\* if that was deleted before.
Deleted(s, c, key) ==
    /\ Becomes(s)
    /\ IF s.rc = "MDB_NOTFOUND" THEN UNCHANGED <<map, last, kept>>
       ELSE /\ map' = [k \in DOMAIN map \ {key} |-> map[k]]
            /\ On(c, key)
            /\ Forget({key}, c, DOMAIN map')
mdb_cursor_del(c) == cur[c].init /\ Deleted(CursorDel(State, c), c, Read(State, c).key)

\* mdb_cursor_get ends by clearing C_DEL.  A cursor that finds nothing is
\* anywhere, but for one moved beyond the last key that is still there.
Got(s, c, lost) ==
    /\ Becomes([s EXCEPT !.cur[c].del = FALSE])
    /\ IF s.rc = "ok" THEN On(c, s.key) /\ Forget({}, c, DOMAIN map)
       ELSE IF lost THEN On(c, NoKey) /\ UNCHANGED kept
       ELSE UNCHANGED <<last, kept>>
    /\ UNCHANGED map

mdb_cursor_get(c) ==
    \/ Got(CursorFirst(State, c), c, TRUE)
    \/ Got(CursorLast(State, c), c, TRUE)
    \/ Got(CursorNext(State, c), c, cur[c].del)
    \/ /\ PrevFromAny \/ last[c] # NoKey \/ ~cur[c].init
       /\ Got(CursorPrev(State, c), c, TRUE)
    \/ cur[c].init /\ Got(GetCurrent(State, c), c, TRUE)
    \/ \E key \in Keys, range \in BOOLEAN : Got(CursorSet(State, c, key, range), c, TRUE)

\* A cursor left behind the last node by a search that found nothing gets
\* further behind with every key that is put into the page and moved out of it.
Bounded == \A c \in Cursors : cur[c].init => Ki(State, c) <= NumKeys(State, Pg(State, c)) + MaxBehind

Next ==
    \/ Bounded /\ \E key \in Keys, data \in Data : mdb_put(key, data)
    \/ Bounded /\ \E key \in Keys : mdb_del(key)
    \/ \E c \in Cursors : mdb_cursor_get(c) \/ mdb_cursor_del(c)
    \/ \E c \in Cursors, key \in Keys, data \in Data : mdb_cursor_put(c, key, data)

Spec == Init /\ [][Next]_vars

-----------------------------------------------------------------------------
(***************************************************************************)
(* Properties.                                                             *)
(***************************************************************************)
\* The records: a database and what MDB_db counts, and one stack for a cursor.
TypeOK ==
    /\ db.root \in DOMAIN db.pg \cup {P_INVALID}
    /\ \A p \in DOMAIN db.pg : \A i \in DOMAIN db.pg[p].n : db.pg[p].n[i].k \in Keys \cup {NoKey}
    /\ {db.depth, db.entries, db.branch, db.leaf} \subseteq Nat
    /\ map \in [DOMAIN map -> Data] /\ DOMAIN map \subseteq Keys
    /\ last \in [Cursors -> Keys \cup {NoKey}]
    /\ kept \in [Cursors -> SUBSET Keys]

\* The nodes of the leaves below page p, from left to right.
Entries(p) ==
    LET pages == SelectSeq(Preorder(State, p), LAMBDA q : db.pg[q].leaf)
    IN FlattenSeq([i \in DOMAIN pages |-> db.pg[pages[i]].n])

RECURSIVE Below(_)
\* The pages below p, and p.
Below(p) == {p} \cup IF db.pg[p].leaf THEN {} ELSE UNION {Below(db.pg[p].n[i].v) : i \in DOMAIN db.pg[p].n}

RECURSIVE Height(_)
Height(p) == IF db.pg[p].leaf THEN 1 ELSE 1 + Height(db.pg[p].n[1].v)

\* No put and no delete makes mdb_node_add run out of room in the middle of a
\* split, a move or a merge, or violates an assertion: the transaction is
\* never in error (mdb_cassert, MDB_PAGE_FULL "should never happen").
NeverInError == db.error = "ok"

\* The leaves hold what was put and not deleted, in order, and md_entries
\* counts it (mdb_cursor_put, mdb_cursor_del0, mdb_page_split, mdb_page_merge).
HoldsMap ==
    LET entries == IF db.root = P_INVALID THEN <<>> ELSE Entries(db.root)
    IN /\ db.entries = Len(entries)
       /\ Len(entries) = Cardinality(DOMAIN map)
       /\ \A i \in DOMAIN entries : entries[i].k \in DOMAIN map /\ entries[i].v = map[entries[i].k]
       /\ \A i \in 1 .. Len(entries) - 1 : entries[i].k < entries[i + 1].k

\* Every leaf is at the depth that md_depth says; no leaf is empty, a branch
\* page has two nodes, nodes fit, and a separator divides the keys on its two
\* sides; the counted pages are the pages in use, and no page is lost.
WellFormed ==
    LET inUse == IF db.root = P_INVALID THEN {} ELSE Below(db.root)
        branches == {p \in inUse : ~db.pg[p].leaf}
        KeysBelow(p) == {Entries(p)[i].k : i \in DOMAIN Entries(p)}
    IN /\ DOMAIN db.pg = inUse
       /\ db.branch = Cardinality(branches)
       /\ db.leaf = Cardinality(inUse \ branches)
       /\ db.depth = IF db.root = P_INVALID THEN 0 ELSE Height(db.root)
       /\ \A p \in inUse : db.pg[p].n # <<>> /\ Used(db.pg[p].leaf, db.pg[p].n) <= PageMax
       /\ \A p \in branches :
            LET n == db.pg[p].n
            IN /\ Len(n) >= 2
               /\ n[1].k = NoKey
               /\ \A i \in 2 .. Len(n) :
                    /\ Height(n[i].v) = Height(n[1].v)
                    /\ \A k \in KeysBelow(n[i].v) : n[i].k <= k
                    /\ \A k \in KeysBelow(n[i - 1].v) : k < n[i].k

\* mdb_get finds exactly the keys there are, and so does MDB_SET with a cursor
\* from wherever it is; MDB_SET_RANGE finds the first key not less.
Lookups ==
    \A key \in Keys, c \in Cursors \cup {Own} :
        LET set == CursorSet(OwnState, c, key, FALSE)
            range == CursorSet(OwnState, c, key, TRUE)
            notLess == {k \in DOMAIN map : k >= key}
        IN /\ set.rc = (IF key \in DOMAIN map THEN "ok" ELSE "MDB_NOTFOUND")
           /\ set.rc = "ok" => /\ set.key = key
                               /\ Node(set, Pg(set, c), Ki(set, c)).v = map[key]
           /\ range.rc = (IF notLess # {} THEN "ok" ELSE "MDB_NOTFOUND")
           /\ range.rc = "ok" => range.key = Min(notLess)

\* The stack of every cursor is a path from the root to a leaf: puts and
\* deletes of others, and splits and merges, take the cursors along
\* ("Adjust other cursors pointing to mp").  One that was put on a key is at
\* most behind the last node.
OnPath ==
    \A c \in Cursors :
        LET m == cur[c]
        IN m.init =>
            /\ m.snum = db.depth
            /\ m.pg[0] = db.root
            /\ \A i \in 0 .. m.snum - 2 :
                 /\ m.ki[i] < Len(db.pg[m.pg[i]].n)
                 /\ db.pg[m.pg[i]].n[m.ki[i] + 1].v = m.pg[i + 1]
            /\ last[c] # NoKey => m.ki[m.snum - 1] <= Len(db.pg[m.pg[m.snum - 1]].n)

\* However the tree changes meanwhile, MDB_NEXT and MDB_PREV of a cursor
\* never pass over a key that has been there since the cursor was put on its
\* key, and go the right way from a key that is still there.  (A cursor marked C_EOF may stay at the
\* end: NextFinds.)
NeverSkips ==
    \A c \in Cursors :
        LET next == CursorNext(State, c)
            prev == CursorPrev(State, c)
            above == {k \in kept[c] : k > last[c]}
            under == {k \in kept[c] : k < last[c]}
        IN cur[c].init /\ last[c] # NoKey =>
            /\ next.rc \in {"ok", "MDB_NOTFOUND"} /\ prev.rc \in {"ok", "MDB_NOTFOUND"}
            /\ next.rc = "ok" => /\ last[c] \in kept[c] => next.key > last[c]
                                 /\ \A k \in above : next.key <= k
            /\ next.rc # "ok" => above = {} \/ cur[c].eof
            /\ prev.rc = "ok" => /\ last[c] \in kept[c] => prev.key < last[c]
                                 /\ \A k \in under : prev.key >= k
            /\ prev.rc # "ok" => under = {}

\* lmdb.h says of MDB_NEXT: "Position at next data item".  C_EOF is set by
\* MDB_LAST and not cleared when keys are put behind the last one: after the
\* last key is deleted too, MDB_NEXT finds nothing although there is a key.
NextFinds ==
    \A c \in Cursors :
        cur[c].init /\ last[c] # NoKey /\ (\E k \in kept[c] : k > last[c])
            => CursorNext(State, c).rc = "ok"
==============================================================================
