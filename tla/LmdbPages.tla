------------------------------ MODULE LmdbPages ------------------------------
(***************************************************************************)
(* The B+tree of LMDB, lmdb/mdb.c: pages, the cursors that point into      *)
(* them, and how a page is searched, split, merged and rebalanced while    *)
(* the other cursors of the transaction follow.                            *)
(*                                                                         *)
(* A state s of one database within a write transaction is a record:       *)
(*   pg                       the pages in use, [leaf, n]: n the nodes     *)
(*                            [k, v], v the data or the page below         *)
(*   root, depth, entries, branch, leaf     the fields of MDB_db           *)
(*   cur                      the cursors: a stack of pages (pg, ki, snum) *)
(*                            and the flags C_INITIALIZED, C_EOF and C_DEL *)
(*   trk                      the cursors on the list mt_cursors           *)
(*   rc, key                  the result of the call and the key it found  *)
(*                                                                         *)
(* Page and stack indices count from 0 as in the code.  Sizes are in       *)
(* units: a node has a header of one unit, its key and its data.  Not      *)
(* here: sorted duplicates, overflow pages and copying a page on its first *)
(* change (LmdbTxn).                                                       *)
(***************************************************************************)
EXTENDS Integers, Sequences, SequencesExt, FiniteSets, FiniteSetsExt, TLC

CONSTANTS Keys,      \* keys, positive integers
          KeySize,   \* KeySize[k]
          Data,      \* values
          DataSize,  \* DataSize[d]
          PageMax,   \* room for nodes in a page, psize - PAGEHDRSZ
          Levels     \* bound: CURSOR_STACK, 32

NoKey == 0       \* the empty key of the first node of a branch page
P_INVALID == 0   \* the root of an empty tree

-----------------------------------------------------------------------------
(***************************************************************************)
(* Pages.                                                                  *)
(***************************************************************************)
NumKeys(s, p) == Len(s.pg[p].n)
Node(s, p, i) == s.pg[p].n[i + 1]

NodeSize(leaf, node) ==
    1 + (IF node.k = NoKey THEN 0 ELSE KeySize[node.k]) + (IF leaf THEN DataSize[node.v] ELSE 0)

RECURSIVE Used(_, _)
Used(leaf, nodes) ==
    IF nodes = <<>> THEN 0 ELSE NodeSize(leaf, Head(nodes)) + Used(leaf, Tail(nodes))
SizeLeft(s, p) == PageMax - Used(s.pg[p].leaf, s.pg[p].n)

Fail(s, error) == [s EXCEPT !.rc = error]

\* mdb_page_new takes the lowest free page: pages freed in this transaction
\* are used again.
FreshPage(s) == Min((1 .. Cardinality(DOMAIN s.pg) + 1) \ DOMAIN s.pg)
PageNew(s, leaf) ==
    [s EXCEPT !.pg = @ @@ (FreshPage(s) :> [leaf |-> leaf, n |-> <<>>]),
              !.leaf = IF leaf THEN @ + 1 ELSE @,
              !.branch = IF leaf THEN @ ELSE @ + 1]

PageFree(s, p) == [s EXCEPT !.pg = [q \in DOMAIN @ \ {p} |-> @[q]]]

NodeAdd(s, p, i, node) ==
    IF SizeLeft(s, p) < NodeSize(s.pg[p].leaf, node) THEN Fail(s, "MDB_PAGE_FULL")
    ELSE [s EXCEPT !.pg[p] = [@ EXCEPT !.n = InsertAt(@, i + 1, node)]]
NodeDel(s, p, i) == [s EXCEPT !.pg[p] = [@ EXCEPT !.n = RemoveAt(@, i + 1)]]

-----------------------------------------------------------------------------
(***************************************************************************)
(* Cursors.  What lies on the stack above snum stays there: several        *)
(* operations pop a cursor and put its height back afterwards.             *)
(***************************************************************************)
Stack == 0 .. Levels - 1
NoCursor == [pg |-> [i \in Stack |-> P_INVALID], ki |-> [i \in Stack |-> 0],
             snum |-> 0, init |-> FALSE, eof |-> FALSE, del |-> FALSE]

Top(s, c) == s.cur[c].snum - 1
Pg(s, c) == s.cur[c].pg[Top(s, c)]
Ki(s, c) == s.cur[c].ki[Top(s, c)]
SetKi(s, c, i) == [s EXCEPT !.cur[c].ki[Top(s, c)] = i]

Push(m, p) == [m EXCEPT !.pg[m.snum] = p, !.ki[m.snum] = 0, !.snum = @ + 1]

\* mdb_cursor_copy into a new cursor.
FreshCursor(s) == Max(DOMAIN s.cur) + 1
WithCursor(s, m) == [s EXCEPT !.cur = @ @@ (FreshCursor(s) :> m)]

\* "Adjust other cursors": Fix of every cursor on the list, but for c.
Adjust(s, c, Fix(_)) ==
    [s EXCEPT !.cur = [x \in s.trk \ {c} |-> Fix(@[x])] @@ @]

-----------------------------------------------------------------------------
(***************************************************************************)
(* Searching.                                                              *)
(***************************************************************************)
RECURSIVE Bisect(_, _, _, _)
\* The binary search of mdb_node_search: the place where it ends.
Bisect(nodes, key, low, high) ==
    LET i == (low + high) \div 2
        k == nodes[i + 1].k
    IN IF key = k THEN i
       ELSE IF key > k THEN IF i + 1 > high THEN i + 1 ELSE Bisect(nodes, key, i + 1, high)
       ELSE IF low > i - 1 THEN i ELSE Bisect(nodes, key, low, i - 1)

\* mdb_node_search: the first node not less than the key.
FoundAt(nodes, key, low, i) ==
    [i |-> i, exact |-> i < Len(nodes) /\ i >= low /\ nodes[i + 1].k = key]
SearchNodes(nodes, key, low) ==
    FoundAt(nodes, key, low,
            IF low >= Len(nodes) THEN low ELSE Bisect(nodes, key, low, Len(nodes) - 1))
NodeSearch(s, p, key) == SearchNodes(s.pg[p].n, key, IF s.pg[p].leaf THEN 0 ELSE 1)

\* The child that mdb_page_search_root follows.
ChildOf(found) == IF found.exact THEN found.i ELSE found.i - 1
Follow(s, p, how, key) ==
    CASE how = "FIRST" -> 0
      [] how = "LAST" -> NumKeys(s, p) - 1
      [] how = "KEY" -> ChildOf(NodeSearch(s, p, key))

\* LAST on a cursor that points there already keeps its stack.
Descend(m, nodes, how, i) ==
    IF how = "LAST" /\ m.init /\ m.ki[m.snum - 1] = i THEN [m EXCEPT !.snum = @ + 1]
    ELSE Push([m EXCEPT !.ki[m.snum - 1] = i], nodes[i + 1].v)

RECURSIVE SearchRoot(_, _, _, _)
\* mdb_page_search_root: how is a key, or FIRST or LAST.
SearchRoot(s, c, how, key) ==
    LET p == Pg(s, c)
    IN IF s.pg[p].leaf THEN [s EXCEPT !.cur[c].init = TRUE, !.cur[c].eof = FALSE]
       ELSE IF NumKeys(s, p) < 2 THEN Fail(s, "assert: a branch page has two keys")
       ELSE SearchRoot([s EXCEPT !.cur[c] = Descend(@, s.pg[p].n, how, Follow(s, p, how, key))],
                       c, how, key)

PageSearch(s, c, how, key) ==
    IF s.root = P_INVALID THEN Fail(s, "MDB_NOTFOUND")
    ELSE SearchRoot([s EXCEPT !.cur[c].pg[0] = s.root, !.cur[c].snum = 1], c, how, key)

\* The key that mdb_page_search_lowest finds below page p.
RECURSIVE Lowest(_, _)
Lowest(s, p) == IF s.pg[p].leaf THEN Node(s, p, 0).k ELSE Lowest(s, Node(s, p, 0).v)

RECURSIVE CursorSibling(_, _, _)
\* One level up, the next node to that side.
UpBeside(s, c, right) ==
    IF right THEN IF Ki(s, c) + 1 >= NumKeys(s, Pg(s, c)) THEN CursorSibling(s, c, right)
                  ELSE SetKi(s, c, Ki(s, c) + 1)
    ELSE IF Ki(s, c) = 0 THEN CursorSibling(s, c, right) ELSE SetKi(s, c, Ki(s, c) - 1)
DownTo(s, c, p, right) ==
    [s EXCEPT !.cur[c] = [Push(@, p) EXCEPT !.ki[s.cur[c].snum] = IF right THEN 0 ELSE NumKeys(s, p) - 1]]
DownBeside(s, c, right) ==
    IF s.rc # "ok" THEN [s EXCEPT !.cur[c].snum = @ + 1]
    ELSE DownTo(s, c, Node(s, Pg(s, c), Ki(s, c)).v, right)
CursorSibling(s, c, right) ==
    IF s.cur[c].snum < 2 THEN Fail(s, "MDB_NOTFOUND")
    ELSE DownBeside(UpBeside([s EXCEPT !.cur[c].snum = @ - 1], c, right), c, right)

-----------------------------------------------------------------------------
(***************************************************************************)
(* Splitting a page, mdb_page_split.                                       *)
(***************************************************************************)
RECURSIVE SplitScan(_, _, _, _, _, _)
\* Adds up the nodes from i towards k until they fill a page.
SplitScan(leaf, all, i, j, k, size) ==
    LET sum == size + NodeSize(leaf, all[i + 1])
    IN IF sum > PageMax \/ i = k - j THEN IF j < 0 THEN i + 1 ELSE i
       ELSE SplitScan(leaf, all, i + j, j, k, sum)

\* The index of the first node for the right page, among all the nodes with
\* the new one.  A page of many small nodes is simply halved.
SplitIndex(leaf, all, newindx) ==
    LET nkeys == Len(all) - 1
        half == (nkeys + 1) \div 2
    IN IF ~(nkeys < 20 \/ NodeSize(leaf, all[newindx + 1]) > PageMax \div 16 \/ newindx >= nkeys)
       THEN half
       ELSE IF newindx >= nkeys THEN SplitScan(leaf, all, 0, 1, nkeys, 0)
       ELSE IF newindx <= half
       THEN SplitScan(leaf, all, 0, 1, half + 1 + (IF leaf THEN 1 ELSE 0), 0)
       ELSE SplitScan(leaf, all, nkeys, -1, half - 1, 0)

\* A new root above the root that is split; the cursor moves down one level.
Pushed(m, p) == [m EXCEPT !.pg = [i \in Stack |-> IF i = 0 THEN p ELSE m.pg[i - 1]],
                          !.ki = [i \in Stack |-> IF i = 0 THEN 0 ELSE m.ki[i - 1]],
                          !.snum = @ + 1]
NewRoot(s, c) ==
    LET pp == FreshPage(s)
        left == [k |-> NoKey, v |-> Pg(s, c)]
    IN [PageNew(s, FALSE) EXCEPT !.pg[pp].n = <<left>>, !.root = pp, !.depth = @ + 1,
                                 !.cur[c] = Pushed(@, pp)]

\* The levels up to h of cursor m as they are in mn.
Levelled(m, mn, h) == [m EXCEPT !.pg = [i \in Stack |-> IF i <= h THEN mn.pg[i] ELSE @[i]],
                                !.ki = [i \in Stack |-> IF i <= h THEN mn.ki[i] ELSE @[i]]]

\* The first node of a branch page has no key.
Unkeyed(leaf, nodes) == IF leaf THEN nodes ELSE [nodes EXCEPT ![1].k = NoKey]

\* A split of the page of cursor c: mp the page, rp the right one and mn the
\* cursor that points to it, all the nodes with the new one at newindx, at the
\* number of those that stay.
SplitOf(s, c, new, replace) ==
    [c |-> c, mn |-> FreshCursor(s), mp |-> Pg(s, c), rp |-> FreshPage(s), newindx |-> Ki(s, c),
     leaf |-> s.pg[Pg(s, c)].leaf, newRoot |-> s.cur[c].snum = 1, replace |-> replace,
     all |-> InsertAt(s.pg[Pg(s, c)].n, Ki(s, c) + 1, new), at |-> 0, didSplit |-> FALSE]
Indexed(x) == [x EXCEPT !.at = SplitIndex(x.leaf, x.all, x.newindx)]

\* How another cursor m3 follows when the cursor of the page is now mc, and mn
\* points to the right page.
FollowRoot(m3, mc, x) ==
    IF x.newRoot THEN [Pushed(m3, mc.pg[0]) EXCEPT !.ki[0] = IF m3.ki[0] >= x.at THEN 1 ELSE 0]
    ELSE m3
FollowNode(m, mn, x, top, ki) ==
    IF ki >= x.at THEN [Levelled(m, mn, top - 1) EXCEPT !.pg[top] = x.rp, !.ki[top] = ki - x.at]
    ELSE [m EXCEPT !.ki[top] = ki]
FollowSplit(m, mc, mn, x, top, ptop) ==
    IF m.snum - 1 >= top /\ m.pg[top] = x.mp
    THEN FollowNode(m, mn, x, top,
                    IF m.ki[top] >= x.newindx /\ ~x.replace THEN m.ki[top] + 1 ELSE m.ki[top])
    ELSE IF ~x.didSplit /\ m.snum - 1 >= ptop /\ m.pg[ptop] = mc.pg[ptop]
            /\ m.ki[ptop] >= mc.ki[ptop]
    THEN [m EXCEPT !.ki[ptop] = @ + 1]
    ELSE m
SplitFix(m3, mc, mn, x, ptop) ==
    IF ~m3.init \/ (x.newRoot /\ m3.pg[0] # x.mp) THEN m3
    ELSE FollowSplit(FollowRoot(m3, mc, x), mc, mn, x, mc.snum - 1, ptop)

RECURSIVE PageSplit(_, _, _, _)

\* The separator goes to the parent, by way of cursor mn; if the parent is
\* split the left page may have changed parents too.
LeftParent(s, c, mc, mn, ptop) ==
    IF s.rc # "ok" \/ mn.pg[ptop] = mc.pg[ptop] \/ mc.ki[ptop] < NumKeys(s, mc.pg[ptop]) THEN s
    ELSE IF mn.ki[ptop] # 0
    THEN [s EXCEPT !.cur[c] = [Levelled(mc, mn, ptop) EXCEPT !.ki[ptop] = @ - 1]]
    ELSE CursorSibling([s EXCEPT !.cur[c] = Levelled(mc, mn, ptop)], c, FALSE)
ParentSplit(s, c, mn) ==
    LeftParent([s EXCEPT !.trk = @ \ {mn}], c, s.cur[c], s.cur[mn], s.cur[c].snum - 2)
Separator(s, x, node) ==
    IF x.didSplit
    THEN ParentSplit(PageSplit([s EXCEPT !.cur[x.mn].snum = @ - 1, !.trk = @ \cup {x.mn}],
                               x.mn, node, FALSE), x.c, x.mn)
    ELSE NodeAdd(s, s.cur[x.mn].pg[Top(s, x.c) - 1], s.cur[x.mn].ki[Top(s, x.c) - 1], node)

\* The cursor that split goes to the page where the new node is, and the
\* other cursors follow.
Settled(s, x, placed, mn, ptop) ==
    LET Fix(m3) == SplitFix(m3, placed, mn, x, ptop)
    IN Adjust([s EXCEPT !.cur[x.c] = placed], x.c, Fix)
Settle(s, x, mc, mn, ptop) ==
    Settled(s, x, IF x.newindx >= x.at /\ mn.pg[ptop] # mc.pg[ptop]
                     /\ mc.ki[ptop] >= NumKeys(s, mc.pg[ptop])
                  THEN Levelled(mc, mn, ptop) ELSE mc, mn, ptop)
NewPlace(m, x, top) ==
    IF x.newindx < x.at THEN [m EXCEPT !.pg[top] = x.mp, !.ki[top] = x.newindx]
    ELSE [m EXCEPT !.pg[top] = x.rp, !.ki[top] = x.newindx - x.at, !.ki[top - 1] = @ + 1]
Fill(s, x, lnodes, rnodes) ==
    LET t == [s EXCEPT !.pg[x.mp] = [@ EXCEPT !.n = lnodes], !.pg[x.rp] = [@ EXCEPT !.n = rnodes]]
    IN IF Used(x.leaf, lnodes) > PageMax \/ Used(x.leaf, rnodes) > PageMax
       THEN Fail(t, "MDB_PAGE_FULL")
       ELSE Settle(t, x, NewPlace(s.cur[x.c], x, Top(s, x.c)), s.cur[x.mn], Top(s, x.c) - 1)
Divide(s, x) ==
    IF s.rc # "ok" THEN s
    ELSE Fill(s, x, Unkeyed(x.leaf, SubSeq(x.all, 1, x.at)),
                    Unkeyed(x.leaf, SubSeq(x.all, x.at + 1, Len(x.all))))

SplitParent(s, x, node) ==
    LET full == SizeLeft(s, s.cur[x.c].pg[Top(s, x.c) - 1]) < NodeSize(FALSE, node)
        y == [x EXCEPT !.didSplit = full]
    IN Divide(Separator(s, y, node), y)
RightCursor(s, x) ==
    WithCursor(s, [s.cur[x.c] EXCEPT !.pg[Top(s, x.c)] = x.rp, !.ki[Top(s, x.c) - 1] = @ + 1])
RightPage(s, x) ==
    IF x.newRoot THEN NewRoot(PageNew(s, x.leaf), x.c) ELSE PageNew(s, x.leaf)
SplitAt(s, x) == SplitParent(RightCursor(RightPage(s, x), x), x, [k |-> x.all[x.at + 1].k, v |-> x.rp])
PageSplit(s, c, new, replace) == SplitAt(s, Indexed(SplitOf(s, c, new, replace)))

\* mdb_update_key: a longer key may not fit, the page is split then.
UpdateKey(s, c, key) ==
    LET p == Pg(s, c)
        i == Ki(s, c)
        node == [Node(s, p, i) EXCEPT !.k = key]
    IN IF SizeLeft(s, p) < NodeSize(FALSE, node) - NodeSize(FALSE, Node(s, p, i))
       THEN PageSplit(NodeDel(s, p, i), c, node, TRUE)
       ELSE [s EXCEPT !.pg[p] = [@ EXCEPT !.n[i + 1] = node]]

-----------------------------------------------------------------------------
(***************************************************************************)
(* Rebalancing, after a node was deleted.                                  *)
(***************************************************************************)
\* The separator of the page that cursor c points to, one level up; a copy of
\* the cursor is on the list meanwhile.
UpdateParent(s, c, key) ==
    LET m == s.cur[c]
        mn == FreshCursor(s)
        t == WithCursor(s, [m EXCEPT !.snum = @ - 1])
    IN IF m.ki[m.snum - 2] = 0 THEN s
       ELSE [UpdateKey([t EXCEPT !.trk = @ \cup {mn}], mn, key) EXCEPT !.trk = s.trk]

\* The keys around the first node of page p, after it changed under cursor c.
Nameless(page) == [page EXCEPT !.n = [@ EXCEPT ![1].k = NoKey]]
Unnamed(s, p) ==
    IF s.rc # "ok" \/ s.pg[p].leaf THEN s ELSE [s EXCEPT !.pg[p] = Nameless(@)]
FirstChanged(s, c) ==
    IF s.rc # "ok" \/ Ki(s, c) # 0 THEN s
    ELSE Unnamed(UpdateParent(s, c, Node(s, Pg(s, c), 0).k), Pg(s, c))

\* Other cursors when the node moves from the end of the left page,
Bumped(m3, isDst, dst, top) ==
    IF ~isDst /\ m3.pg[top] = dst.pg[top] /\ m3.ki[top] >= dst.ki[top]
    THEN [m3 EXCEPT !.ki[top] = @ + 1] ELSE m3
Carried(m3, src, dst, top) ==
    IF m3.pg[top] = src.pg[top] /\ m3.ki[top] = src.ki[top]
    THEN [m3 EXCEPT !.pg[top] = dst.pg[top], !.ki[top] = dst.ki[top], !.ki[top - 1] = @ + 1]
    ELSE m3
MoveRight(m3, isDst, src, dst, top) ==
    IF ~m3.init \/ m3.snum - 1 < top THEN m3
    ELSE Carried(Bumped(m3, isDst, dst, top), src, dst, top)
\* and from the start of the right one.
MoveLeft(m3, src, dst, top) ==
    IF ~m3.init \/ m3.snum - 1 < top \/ m3.pg[top] # src.pg[top] THEN m3
    ELSE IF m3.ki[top] = 0
    THEN [m3 EXCEPT !.pg[top] = dst.pg[top], !.ki[top] = dst.ki[top], !.ki[top - 1] = @ - 1]
    ELSE [m3 EXCEPT !.ki[top] = @ - 1]

\* mdb_node_move from cursor csrc to cursor cdst, two neighbours: src and dst
\* are the two as they were.
KeyForMove(s, src, top) ==
    IF ~s.pg[src.pg[top]].leaf /\ src.ki[top] = 0
    THEN [Node(s, src.pg[top], 0) EXCEPT !.k = Lowest(s, src.pg[top])]
    ELSE Node(s, src.pg[top], src.ki[top])
KeyAtDst(s, dst, top) ==
    IF ~s.pg[dst.pg[top]].leaf /\ dst.ki[top] = 0
    THEN UpdateKey(WithCursor(s, dst), FreshCursor(s), Lowest(s, dst.pg[top])) ELSE s
Added(s, dst, top, node) ==
    IF s.rc # "ok" THEN s ELSE NodeAdd(s, dst.pg[top], dst.ki[top], node)
Removed(s, csrc, cdst, src, dst, top, fromleft) ==
    IF s.rc # "ok" THEN s
    ELSE [NodeDel(s, src.pg[top], src.ki[top]) EXCEPT !.cur = [x \in s.trk \ {csrc} |->
             IF fromleft THEN MoveRight(@[x], x = cdst, src, dst, top)
             ELSE MoveLeft(@[x], src, dst, top)] @@ @]
MoveNode(s, csrc, cdst, src, dst, top, fromleft) ==
    Removed(Added(KeyAtDst(s, dst, top), dst, top, KeyForMove(s, src, top)),
            csrc, cdst, src, dst, top, fromleft)
NodeMove(s, csrc, cdst, fromleft) ==
    FirstChanged(FirstChanged(
        MoveNode(s, csrc, cdst, s.cur[csrc], s.cur[cdst], Top(s, csrc), fromleft), csrc), cdst)

RECURSIVE Rebalance(_, _)

\* Other cursors when the nodes of src went behind the nkeys nodes of dst.
MergeFix_sameIndex(m3, src, dst, top, nkeys) ==
    IF m3.snum < src.snum THEN m3
    ELSE IF m3.pg[top] = src.pg[top]
    THEN [m3 EXCEPT !.pg[top] = dst.pg[top], !.ki[top - 1] = dst.ki[top - 1]]
    ELSE IF m3.pg[top - 1] = src.pg[top - 1] /\ m3.ki[top - 1] > src.ki[top - 1]
    THEN [m3 EXCEPT !.ki[top - 1] = @ - 1]
    ELSE m3
MergeFix(m3, src, dst, top, nkeys) ==
    IF m3.snum < src.snum THEN m3
    ELSE IF m3.pg[top] = src.pg[top]
    THEN [m3 EXCEPT !.pg[top] = dst.pg[top], !.ki[top] = @ + nkeys, !.ki[top - 1] = dst.ki[top - 1]]
    ELSE IF m3.pg[top - 1] = src.pg[top - 1] /\ m3.ki[top - 1] > src.ki[top - 1]
    THEN [m3 EXCEPT !.ki[top - 1] = @ - 1]
    ELSE m3

\* mdb_page_merge: the page of csrc goes into that of cdst, is unlinked from
\* the parent and freed; then the parent is rebalanced.
Unlinked(s, pp, i) ==
    IF i = 0 THEN [NodeDel(s, pp, i) EXCEPT !.pg[pp] = Nameless(@)] ELSE NodeDel(s, pp, i)
Gone(s, p, isLeaf) ==
    [PageFree(s, p) EXCEPT !.leaf = IF isLeaf THEN @ - 1 ELSE @,
                           !.branch = IF isLeaf THEN @ ELSE @ - 1]
MergeInto(s, csrc, src, dst, top, merged) ==
    LET Fix(m3) == MergeFix(m3, src, dst, top, NumKeys(s, dst.pg[top]))
    IN Adjust(Gone(Unlinked([s EXCEPT !.pg[dst.pg[top]] = [@ EXCEPT !.n = merged]], src.pg[top - 1], src.ki[top - 1]),
                   src.pg[top], s.pg[src.pg[top]].leaf), csrc, Fix)
Popped(s, c) == [s EXCEPT !.cur[c].snum = @ - 1]
Unpopped(s, c, snum, depth) == [s EXCEPT !.cur[c].snum = snum + s.depth - depth]
Keyed(s, p) == IF s.pg[p].leaf THEN s.pg[p].n ELSE [s.pg[p].n EXCEPT ![1].k = Lowest(s, p)]
PageMerge(s, csrc, cdst) ==
    LET src == s.cur[csrc]
        dst == s.cur[cdst]
        top == src.snum - 1
        merged == s.pg[dst.pg[top]].n \o Keyed(s, src.pg[top])
    IN IF Used(s.pg[src.pg[top]].leaf, merged) > PageMax THEN Fail(s, "MDB_PAGE_FULL")
       ELSE Unpopped(Rebalance(Popped(MergeInto(s, csrc, src, dst, top, merged), cdst), cdst),
                     cdst, dst.snum, s.depth)

\* The root has no keys any more, or a single page below it.
Emptied(s, c, p) ==
    LET Fix(m3) == IF m3.init /\ m3.pg[0] = p THEN [m3 EXCEPT !.snum = 0, !.init = FALSE] ELSE m3
    IN Adjust([PageFree(s, p) EXCEPT !.root = P_INVALID, !.depth = 0, !.leaf = 0,
                                     !.cur[c].snum = 0, !.cur[c].init = FALSE], c, Fix)
Dropped(m, depth) ==
    [m EXCEPT !.pg = [i \in Stack |-> IF i < depth THEN m.pg[i + 1] ELSE m.pg[i]],
              !.ki = [i \in Stack |-> IF i < depth THEN m.ki[i + 1] ELSE m.ki[i]]]
Collapsed(s, c, p) ==
    LET root == Node(s, p, 0).v
        depth == s.depth - 1
        Fix(m3) == IF m3.init /\ m3.pg[0] = p
                   THEN [Dropped(m3, depth) EXCEPT !.snum = @ - 1] ELSE m3
        t == [PageFree(s, p) EXCEPT !.root = root, !.depth = depth, !.branch = @ - 1,
                                    !.cur[c] = [Dropped(@, depth) EXCEPT !.pg[0] = root]]
    IN Adjust(t, c, Fix)

PageFill(s, p) == (1000 * (PageMax - SizeLeft(s, p))) \div PageMax
FILL_THRESHOLD == 250

\* The neighbour np at place beside of the parent gives a node, or the two
\* pages become one: the left one, and cursor mn points to np.
WithNeighbour(s, c, top, fromleft, beside, np) ==
    WithCursor([s EXCEPT !.cur[c].ki[top] = IF fromleft THEN 0 ELSE NumKeys(s, Pg(s, c))],
               [s.cur[c] EXCEPT !.pg[top] = np, !.ki[top - 1] = beside,
                                !.ki[top] = IF fromleft THEN NumKeys(s, np) - 1 ELSE 0])
TakenOver(s, c, mn) == [s EXCEPT !.trk = @ \ {mn}, !.cur[c] = s.cur[mn]]
MergeNeighbour(s, c, mn, top, fromleft) ==
    IF fromleft
    THEN TakenOver(PageMerge([s EXCEPT !.trk = @ \cup {mn}, !.cur[mn].ki[top] = @ + 1], c, mn), c, mn)
    ELSE PageMerge(s, mn, c)

RebalanceWith(s, c, top, fromleft, beside, np, thresh, minkeys) ==
    LET both == WithNeighbour(s, c, top, fromleft, beside, np)
        oldki == s.cur[c].ki[top]
    IN IF PageFill(s, np) >= thresh /\ NumKeys(s, np) > minkeys
       THEN SetKi(NodeMove(both, FreshCursor(s), c, fromleft), c, IF fromleft THEN oldki + 1 ELSE oldki)
       ELSE SetKi([MergeNeighbour(both, c, FreshCursor(s), top, fromleft) EXCEPT !.cur[c].eof = FALSE], c,
                  IF fromleft THEN oldki + NumKeys(s, np) ELSE oldki)

RebalanceFrom(s, c, m, top, beside, thresh, minkeys) ==
    IF NumKeys(s, m.pg[top - 1]) < 2 THEN Fail(s, "assert: the parent has two keys")
    ELSE RebalanceWith(s, c, top, m.ki[top - 1] # 0, beside, Node(s, m.pg[top - 1], beside).v,
                       thresh, minkeys)

RebalanceRoot(s, c, p) ==
    IF NumKeys(s, p) = 0 THEN Emptied(s, c, p)
    ELSE IF ~s.pg[p].leaf /\ NumKeys(s, p) = 1 THEN Collapsed(s, c, p) ELSE s

Rebalance(s, c) ==
    LET m == s.cur[c]
        p == Pg(s, c)
        above == m.ki[m.snum - 2]
        minkeys == IF s.pg[p].leaf THEN 1 ELSE 2
        thresh == IF s.pg[p].leaf THEN FILL_THRESHOLD ELSE 1
    IN IF PageFill(s, p) >= thresh /\ NumKeys(s, p) >= minkeys THEN s
       ELSE IF m.snum < 2 THEN RebalanceRoot(s, c, p)
       ELSE RebalanceFrom(s, c, m, m.snum - 1, IF above # 0 THEN above - 1 ELSE above + 1,
                          thresh, minkeys)
==============================================================================
