------------------------------- MODULE SeqSet -------------------------------
(***************************************************************************)
(* What a tracker of sequence numbers promises: it remembers the set of    *)
(* numbers it was given, tells whether one is new, and tells the least     *)
(* number it has not been given.                                           *)
(***************************************************************************)
EXTENDS Integers

CONSTANT MaxSeq  \* bound: the greatest sequence number

VARIABLES
    seen,     \* the numbers received
    isNew,    \* the last answer of received()
    missing   \* the last answer of nextMissing()

Seqs == 0..MaxSeq
vars == <<seen, isNew, missing>>

Init == seen = {} /\ isNew = FALSE /\ missing = 0

Received(s) ==
    /\ isNew' = (s \notin seen)
    /\ seen' = seen \cup {s}
    /\ UNCHANGED missing

IsLeastMissing(n) == n \notin seen /\ \A m \in 0..(n - 1) : m \in seen
NextMissing ==
    /\ missing' \in 0..(MaxSeq + 1)
    /\ IsLeastMissing(missing')
    /\ UNCHANGED <<seen, isNew>>

Next == (\E s \in Seqs : Received(s)) \/ NextMissing

Spec == Init /\ [][Next]_vars
=============================================================================
