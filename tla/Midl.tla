-------------------------------- MODULE Midl --------------------------------
(***************************************************************************)
(* LMDB's lists of page numbers, lmdb/midl.c: IDLs, arrays in descending   *)
(* order that hold free and spilled pages, and ID2Ls, ascending lists of   *)
(* dirty pages.  An IDL knows how many elements are allocated.             *)
(***************************************************************************)
EXTENDS Integers, Sequences, SequencesExt, Bags, FiniteSets

CONSTANTS Ids,       \* page numbers
          Merged,    \* lists that are appended and, when sorted, merged in
          UM_MAX,    \* MDB_IDL_UM_MAX: what a list grows by, and the limit of an ID2L
          Round,     \* mdb_midl_need rounds to this, 256
          SMALL,     \* at most this far apart: insertion sort, 8
          StackMax,  \* elements of istack
          MaxLen     \* bound: length of a list

VARIABLES ids,    \* the IDL: its elements
          alloc,  \* ids[-1]: elements allocated
          bag,    \* what was put into it
          dl,     \* an ID2L
          last    \* the last operation, and what it returned

vars == <<ids, alloc, bag, dl, last>>

Descending(s) == \A i \in 1 .. Len(s) - 1 : s[i] >= s[i + 1]
BagOf(s) == [e \in Range(s) |-> Cardinality({i \in DOMAIN s : s[i] = e})]

-----------------------------------------------------------------------------
(***************************************************************************)
(* Binary search from base, n elements left; passed says that the last     *)
(* element looked at comes before id.  order is 1 in an ascending list.    *)
(***************************************************************************)
RECURSIVE Find(_, _, _, _, _, _, _)
Find(s, id, base, n, cursor, passed, order) ==
    LET c == base + n \div 2 + 1
    IN IF n = 0 THEN IF passed THEN cursor + 1 ELSE cursor
       ELSE IF s[c] = id THEN c
       ELSE IF order * s[c] < order * id THEN Find(s, id, c, n - (n \div 2 + 1), c, TRUE, order)
       ELSE Find(s, id, base, n \div 2, c, FALSE, order)

MidlSearch(s, id) == Find(s, id, 0, Len(s), 1, FALSE, -1)
Mid2lSearch(s, id) == Find(s, id, 0, Len(s), 1, FALSE, 1)

-----------------------------------------------------------------------------
(***************************************************************************)
(* Sorting: quicksort of median of three, with an explicit stack, and      *)
(* insertion sort of what is small.                                        *)
(***************************************************************************)
Swapped(a, i, j) == [a EXCEPT ![i] = a[j], ![j] = a[i]]
SwappedIf(c, a, i, j) == IF c THEN Swapped(a, i, j) ELSE a

RECURSIVE Insertion(_, _, _)
\* a[j] moves behind the last element before it that is not smaller.
Insertion(a, j, ir) ==
    LET bigger == {i \in 1 .. j - 1 : a[i] >= a[j]}
        at == IF bigger = {} THEN 0 ELSE CHOOSE i \in bigger : \A k \in bigger : k <= i
    IN IF j > ir THEN a
       ELSE Insertion(InsertAt(RemoveAt(a, j), at + 1, a[j]), j + 1, ir)

RECURSIVE Partition(_, _, _, _)
\* i and j move towards each other, exchanging what is on the wrong side.
Partition(a, i, j, pivot) ==
    LET i2 == CHOOSE x \in i + 1 .. Len(a) : a[x] <= pivot /\ \A y \in i + 1 .. x - 1 : a[y] > pivot
        j2 == CHOOSE x \in 1 .. j - 1 : a[x] >= pivot /\ \A y \in x + 1 .. j - 1 : a[y] < pivot
    IN IF j2 < i2 THEN [a |-> a, i |-> i2, j |-> j2] ELSE Partition(Swapped(a, i2, j2), i2, j2, pivot)

\* The median of left, center and right to l + 1, the others in order
Median(a, l, ir) ==
    LET b == Swapped(a, (l + ir) \div 2, l + 1)
        c == SwappedIf(b[l] < b[ir], b, l, ir)
        d == SwappedIf(c[l + 1] < c[ir], c, l + 1, ir)
    IN SwappedIf(d[l] < d[l + 1], d, l, l + 1)

RECURSIVE Quicksort(_, _, _, _)
Quicksort(a, l, ir, stack) ==
    LET m == Median(a, l, ir)
        p == Partition(m, l + 1, ir, m[l + 1])
        b == [p.a EXCEPT ![l + 1] = p.a[p.j], ![p.j] = m[l + 1]]
        sorted == Insertion(a, l + 1, ir)
    IN IF ir - l < SMALL
         THEN IF stack = <<>> THEN [a |-> sorted, ok |-> TRUE]
              ELSE Quicksort(sorted, Last(stack)[1], Last(stack)[2], Front(stack))
       ELSE IF 2 * (Len(stack) + 1) >= StackMax THEN [a |-> a, ok |-> FALSE]
       ELSE IF ir - p.i + 1 >= p.j - l THEN Quicksort(b, l, p.j - 1, Append(stack, <<p.i, ir>>))
       ELSE Quicksort(b, p.i, ir, Append(stack, <<l, p.j - 1>>))

MidlSort(s) == Quicksort(s, 1, Len(s), <<>>)

(***************************************************************************)
(* mdb_midl_xmerge: from the ends of both lists, smallest first, into the  *)
(* place behind idl; what is left of idl stays where it is.                *)
(***************************************************************************)
RECURSIVE Xmerge(_, _)
Xmerge(idl, merge) ==
    IF merge = <<>> THEN idl
    ELSE IF idl # <<>> /\ Last(idl) < Last(merge) THEN Append(Xmerge(Front(idl), merge), Last(idl))
    ELSE Append(Xmerge(idl, Front(merge)), Last(merge))

-----------------------------------------------------------------------------
None == [op |-> "none", at |-> 0, id |-> 0]
Init == ids = <<>> /\ alloc = UM_MAX /\ bag = EmptyBag /\ dl = <<>> /\ last = None

Put(new) ==
    /\ ids' = ids \o new
    /\ bag' = bag (+) BagOf(new)
    /\ last' = None
    /\ UNCHANGED dl

MidlAppend(id) ==
    /\ Len(ids) < MaxLen
    /\ alloc' = IF Len(ids) >= alloc THEN alloc + UM_MAX ELSE alloc
    /\ Put(<<id>>)

AppendList(app) ==
    /\ Len(ids) + Len(app) <= MaxLen
    /\ alloc' = IF Len(ids) + Len(app) >= alloc THEN alloc + Len(app) ELSE alloc
    /\ Put(app)

\* n | UM_MAX is UM_MAX for every n up to it, UM_MAX being all ones.
AppendRange(id, n) ==
    /\ Len(ids) + n <= MaxLen
    /\ alloc' = IF Len(ids) + n > alloc THEN alloc + (IF n <= UM_MAX THEN UM_MAX ELSE n) ELSE alloc
    /\ Put([k \in 1 .. n |-> id + n - k])

Needed(num) == LET n == num + num \div 4 + Round + 2 IN n - (n % Round) - 2

\* mdb_midl_need, then mdb_midl_xmerge
MidlMerge(merge) ==
    /\ Len(ids) + Len(merge) <= MaxLen /\ Descending(ids) /\ Descending(merge)
    /\ alloc' = IF Len(ids) + Len(merge) > alloc THEN Needed(Len(ids) + Len(merge)) ELSE alloc
    /\ ids' = Xmerge(ids, merge)
    /\ bag' = bag (+) BagOf(merge)
    /\ last' = [op |-> "sorted", at |-> 0, id |-> 0]
    /\ UNCHANGED dl

Sort ==
    /\ ids' = MidlSort(ids).a
    /\ last' = [op |-> IF MidlSort(ids).ok THEN "sorted" ELSE "overflow", at |-> 0, id |-> 0]
    /\ UNCHANGED <<alloc, bag, dl>>

SearchFor(id) ==
    /\ Descending(ids)
    /\ last' = [op |-> "search", at |-> MidlSearch(ids, id), id |-> id]
    /\ UNCHANGED <<ids, alloc, bag, dl>>

\* mdb_midl_shrink at the end of a transaction; the next one starts with an empty list.
Shrink ==
    /\ alloc' = IF alloc > UM_MAX THEN UM_MAX ELSE alloc
    /\ ids' = <<>> /\ bag' = EmptyBag /\ last' = None
    /\ UNCHANGED dl

Mid2lInsert(id) ==
    LET x == Mid2lSearch(dl, id)
        duplicate == x <= Len(dl) /\ dl[x] = id
    IN /\ ids = <<>>
       /\ dl' = IF duplicate \/ Len(dl) >= UM_MAX THEN dl ELSE InsertAt(dl, x, id)
       /\ last' = [op |-> "insert", at |-> IF duplicate THEN -1 ELSE IF Len(dl) >= UM_MAX THEN -2 ELSE 0, id |-> id]
       /\ UNCHANGED <<ids, alloc, bag>>

Next ==
    \/ \E id \in Ids : MidlAppend(id) \/ SearchFor(id) \/ Mid2lInsert(id)
    \/ \E id \in Ids, n \in 1 .. 2 : AppendRange(id, n)
    \/ \E m \in Merged : AppendList(m) \/ MidlMerge(m)
    \/ Sort \/ Shrink

Spec == Init /\ [][Next]_vars

-----------------------------------------------------------------------------
(***************************************************************************)
(* No page number is lost or invented: not by sorting, merging or growing. *)
(* A lost one leaks a page for ever, an invented one is handed out twice.  *)
(***************************************************************************)
NothingLost == BagOf(ids) = bag

\* The elements never outnumber what is allocated for them.
WithinAllocation == Len(ids) <= alloc

(***************************************************************************)
(* Sorting and merging leave the list in descending order, and istack is   *)
(* never too small.                                                        *)
(***************************************************************************)
SortedAfter == last.op # "overflow" /\ (last.op = "sorted" => Descending(ids))

(***************************************************************************)
(* A search of a sorted list finds the first element that is not greater,  *)
(* or the place behind the list.                                           *)
(***************************************************************************)
SearchExact ==
    last.op = "search" =>
        /\ last.at \in 1 .. Len(ids) + 1
        /\ \A i \in 1 .. last.at - 1 : ids[i] >= last.id
        /\ \A i \in last.at .. Len(ids) : ids[i] <= last.id
        /\ last.id \in Range(ids) => ids[last.at] = last.id

(***************************************************************************)
(* The dirty list is strictly ascending: mdb_page_get finds a dirty page   *)
(* by searching it, and a page that is in it twice is freed twice.         *)
(***************************************************************************)
DirtyAscending == \A i \in 1 .. Len(dl) - 1 : dl[i] < dl[i + 1]

(***************************************************************************)
(* "The index of the first ID greater than or equal to id."                *)
(***************************************************************************)
FirstNotLess ==
    last.op = "search" /\ last.at <= Len(ids) => ids[last.at] >= last.id
=============================================================================
