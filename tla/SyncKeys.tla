------------------------------ MODULE SyncKeys ------------------------------
(***************************************************************************)
(* Set reconciliation of two devices: the binary trie of sync keys of      *)
(* sync_keys.cpp and the messages that find the difference of two sets.    *)
(*                                                                         *)
(* A sync key is the start of a SHA-256 digest.  Its first HeadBits bits   *)
(* are modelled one by one, in bytes of Byte bits, because the code        *)
(* compares and XORs by whole bytes; the rest is an independent vector     *)
(* over GF(2), so that XOR of rests is symmetric difference of sets.  Two  *)
(* keys differ within HeadBits, as digests do.                             *)
(***************************************************************************)
EXTENDS Integers, FiniteSets, SequencesExt

CONSTANTS Devices,    \* two devices
          Keys,       \* sync keys of the files there may be
          Path,       \* Path[k][i]: bit i of key k
          HeadBits,   \* bits of a key that are modelled one by one
          Byte,       \* bits per byte
          Reordered,  \* whether messages may overtake each other
          MaxNew,     \* bound: files created during the session
          MaxDrops    \* bound: how often the peers lose each other

SyncKeysAssumption ==
    /\ Cardinality(Devices) = 2
    /\ Byte > 0 /\ HeadBits % Byte = 0
    /\ Path \in [Keys -> [0 .. HeadBits - 1 -> {0, 1}]]
    /\ \A j, k \in Keys : j # k => Path[j] # Path[k]

VARIABLES root,     \* sync_state.root of each device
          peer,     \* sync_peer_state.root: what each knows of the other
          seen,     \* Peer.storeState: the last root hash heard
          channel,  \* messages on the way to each device
          failed,   \* history: an assertion failed
          created,  \* files created so far
          drops     \* how often the peers lost each other

vars == <<root, peer, seen, channel, failed, created, drops>>

Other(d) == CHOOSE e \in Devices : e # d

KEY_LEN_BITS == HeadBits + Byte
Empty == KEY_LEN_BITS + 1
Nil == [prefix |-> -1]

KeyOf(k) == [head |-> Path[k], tail |-> {k}]
IdOf(key) == CHOOSE k \in key.tail : TRUE
IsLeaf(n) == n.prefix = KEY_LEN_BITS
Message(n) == [min |-> n.min, stored |-> n.stored, prefix |-> n.prefix, key |-> n.key]
Leaf(k, min, stored) ==
    [min |-> min, stored |-> stored, prefix |-> KEY_LEN_BITS, key |-> KeyOf(k),
     kids |-> [i \in {0, 1} |-> Nil]]

Bit(key, i) == key.head[i]

(***************************************************************************)
(* sync_xor: whole prefix bytes are copied, in the byte of overlap the     *)
(* prefix bits become src | (dest ^ src), everything behind is XORed.      *)
(***************************************************************************)
SyncXor(src, dest) ==
    LET whole == (dest.prefix \div Byte) * Byte
        mixed(i) == (Bit(src, i) + Bit(dest.key, i)) % 2
    IN [dest EXCEPT !.key =
          [head |-> [i \in 0 .. HeadBits - 1 |->
                       IF i < whole THEN Bit(src, i)
                       ELSE IF i < dest.prefix /\ Bit(src, i) = 1 THEN 1
                       ELSE mixed(i)],
           tail |-> SymDiff(src.tail, dest.key.tail)]]

\* cmp_message: TRUE when the two stand for the same leaves, as far as it compares.
Same(a, b) ==
    LET Lower(S) == CHOOSE x \in S : \A y \in S : x <= y
        Upper(S) == CHOOSE x \in S : \A y \in S : x >= y
        xorBegin(m) == IF m.prefix = KEY_LEN_BITS THEN m.min ELSE m.prefix
        common == Lower({a.prefix, b.prefix})
        begin == Upper({xorBegin(a), xorBegin(b)})
        firstByte == (begin + Byte - 1) \div Byte
        Agree(from, to) == \A i \in from .. to : Bit(a.key, i) = Bit(b.key, i)
    IN IF common < begin
       THEN /\ Agree(0, (common \div Byte) * Byte - 1)
            /\ Agree(firstByte * Byte, HeadBits - 1)
            /\ a.key.tail = b.key.tail
       ELSE a.key = b.key

RECURSIVE LeavesOf(_)
LeavesOf(n) ==
    IF n = Nil THEN {}
    ELSE IF IsLeaf(n) THEN {n}
    ELSE LeavesOf(n.kids[0]) \cup LeavesOf(n.kids[1])

\* xor_children
XorChildren(n, dest) == FoldSet(LAMBDA l, m : SyncXor(l.key, m), dest, LeavesOf(n))

(***************************************************************************)
(* add_key: XOR the key into every node on its path and hang a leaf below  *)
(* the last; a node whose range of prefix bits it leaves gets a new parent. *)
(***************************************************************************)
RECURSIVE AddAt(_, _, _, _, _)
AddAt(n, k, stored, len, min) ==
    IF n = Nil THEN Leaf(k, min, stored)
    ELSE LET b == Path[k][len]
             nb == Bit(n.key, len)
         IN IF n.prefix = len
            THEN [SyncXor(KeyOf(k), n) EXCEPT
                    !.kids[b] = AddAt(@, k, stored, len + 1, len + 1)]
            ELSE IF b = nb THEN AddAt(n, k, stored, len + 1, min)
            ELSE LET below == [n EXCEPT !.min = len + 1]
                     parent == [min |-> min, stored |-> stored, prefix |-> len,
                                key |-> [head |-> [i \in 0 .. HeadBits - 1 |-> 0], tail |-> {}],
                                kids |-> [i \in {0, 1} |-> IF i = nb THEN below ELSE Nil]]
                 IN AddAt(XorChildren(parent, parent), k, stored, len, min)

AddKey(n, k, stored) == AddAt(n, k, stored, 0, 0)

(***************************************************************************)
(* remove_key: XOR the key out of its path; the parent of the leaf is      *)
(* replaced by the other child.                                            *)
(***************************************************************************)
RECURSIVE RemoveKey(_, _)
RemoveKey_keepsMin(n, k) ==
    IF IsLeaf(n) THEN Nil
    ELSE LET b == Path[k][n.prefix]
             x == [SyncXor(KeyOf(k), n) EXCEPT !.kids[b] = RemoveKey(@, k)]
         IN IF x.kids[b] = Nil THEN x.kids[1 - b] ELSE x
RemoveKey(n, k) ==
    IF IsLeaf(n) THEN Nil
    ELSE LET b == Path[k][n.prefix]
             x == [SyncXor(KeyOf(k), n) EXCEPT !.kids[b] = RemoveKey(@, k)]
         IN IF x.kids[b] = Nil THEN [x.kids[1 - b] EXCEPT !.min = n.min] ELSE x

(***************************************************************************)
(* find_message.  The walk starts with prefix_len at the root's own        *)
(* prefix.                                                                 *)
(***************************************************************************)
RECURSIVE FindFrom(_, _, _)
FindFrom(n, m, len) ==
    IF n = Nil THEN Nil
    ELSE IF Same(n, m) THEN n
    ELSE IF IsLeaf(n) THEN Nil
    ELSE IF len < n.prefix
    THEN IF Bit(n.key, len) = Bit(m.key, len) THEN FindFrom(n, m, len + 1) ELSE Nil
    ELSE FindFrom(n.kids[Bit(m.key, len)], m, len + 1)

Find(n, m) == FindFrom(n, m, n.prefix)
MessageFromKey(k) == Message(Leaf(k, 0, FALSE))

-----------------------------------------------------------------------------
(***************************************************************************)
(* Processing a message changes the device's view of its peer, queues      *)
(* messages and makes callbacks.  s is that effect: the peer's trie, the   *)
(* messages queued, and whether an assertion failed.  now_has is called    *)
(* where a key is forgotten.                                                            *)
(***************************************************************************)
Queue(s, n) == [s EXCEPT !.out = Append(@, Message(n))]
Fails(s) == [s EXCEPT !.failed = TRUE]

\* remove_key asserts that the key is there.
Forget(s, k) ==
    IF \E l \in LeavesOf(s.tree) : l.key = KeyOf(k)
    THEN [s EXCEPT !.tree = RemoveKey(@, k)]
    ELSE Fails(s)

\* peer_is_missing, with the message that its callers queue when it is true
PeerIsMissing(s, n, allowRemove) ==
    LET k == IdOf(n.key)
        found == Find(s.tree, n)
    IN IF found = Nil
       THEN [new |-> TRUE, s |-> [s EXCEPT !.tree = AddKey(@, k, TRUE)]]
       ELSE IF found.stored /\ allowRemove
       THEN [new |-> TRUE, s |-> Forget(s, k)]
       ELSE [new |-> FALSE, s |-> s]

RECURSIVE MissingLeaves(_, _, _, _)
\* peer_missing_leaf_nodes; except = 2 leaves out none
MissingLeaves(s, n, except, allowRemove) ==
    IF n = Nil THEN s
    ELSE IF IsLeaf(n)
    THEN LET r == PeerIsMissing(s, n, allowRemove)
         IN IF r.new THEN Queue(r.s, n) ELSE r.s
    ELSE LET Child(t, i) == IF i = except THEN t
                            ELSE MissingLeaves(t, n.kids[i], 2, allowRemove)
         IN Child(Child(s, 0), 1)

\* peer_add_key: a key we did not know is kept and echoed, not stored.
PeerAddKey(s, m) ==
    IF m.prefix # KEY_LEN_BITS \/ ~m.stored \/ Find(s.tree, m) # Nil THEN s
    ELSE LET t == AddKey(s.tree, IdOf(m.key), FALSE)
         IN Queue([s EXCEPT !.tree = t], Find(t, m))

\* peer_has_received_all: now_has for every key below n that the peer lacked
ReceivedAll(s, n) ==
    FoldSet(LAMBDA l, t : Forget(t, IdOf(l.key)), s, {l \in LeavesOf(n) : l.stored})

(***************************************************************************)
(* remove_differences: what is already known about the peer is XORed out   *)
(* of its message.  Returns the node of the peer's trie that matches, and  *)
(* the message.                                                            *)
(***************************************************************************)
RECURSIVE MatchFrom(_, _, _)
MatchFrom(n, m, len) ==
    IF n = Nil THEN Nil
    ELSE IF len >= m.prefix THEN n
    ELSE IF IsLeaf(n) /\ Same(m, n) THEN n
    ELSE IF IsLeaf(n) /\ m.prefix = KEY_LEN_BITS THEN Nil
    ELSE IF len < n.prefix
    THEN IF Bit(n.key, len) = Bit(m.key, len) THEN MatchFrom(n, m, len + 1) ELSE Nil
    ELSE MatchFrom(n.kids[Bit(m.key, len)], m, len + 1)

RemoveDifferences(tree, m) ==
    LET n == IF m.stored THEN MatchFrom(tree, m, 0) ELSE Nil
    IN [node |-> n,
        msg |-> IF n = Nil \/ m.prefix = KEY_LEN_BITS THEN m
                ELSE IF n.prefix \in {m.prefix, KEY_LEN_BITS} THEN SyncXor(n.key, m)
                ELSE XorChildren(n, m)]

IsBlank(m) ==
    /\ m.key.tail = {}
    /\ \A i \in (m.prefix \div Byte + 1) * Byte .. HeadBits - 1 : Bit(m.key, i) = 0

\* The search of recv_key for a part of our trie that explains the difference.
RECURSIVE Explains(_, _, _)
Explains(n, m, len) ==
    IF n = Nil THEN Nil
    ELSE IF Same(m, n) THEN n
    ELSE IF IsLeaf(n) THEN Nil
    ELSE IF len < n.prefix
    THEN IF Bit(n.key, len) = Bit(m.key, len) THEN Explains(n, m, len + 1) ELSE Nil
    ELSE Explains(n.kids[Bit(m.key, len)], m, len + 1)

\* recv_key once all prefix bits of the message have been looked at
AtTheirNode(s, n, pm, len) ==
    LET diff == SyncXor(n.key, pm)
        found == Explains(n, diff, len)
    IN IF IsBlank(pm) THEN MissingLeaves(s, n, 2, TRUE)
       ELSE IF n.prefix > pm.prefix THEN Queue(s, n)
       ELSE IF found # Nil THEN MissingLeaves(s, found, 2, TRUE)
       ELSE Queue(Queue(s, n.kids[0]), n.kids[1])

AtMismatch_ignores(s, n, pm, len) ==
    IF len >= pm.min /\ pm.stored THEN MissingLeaves(s, n, 2, FALSE) ELSE s
\* recv_key where the prefix of our node leaves theirs at bit len
AtMismatch(s, n, pm, len) ==
    LET told == IF len >= pm.min /\ pm.stored
                THEN LET t == MissingLeaves(s, n, 2, FALSE)
                     IN IF pm.prefix # KEY_LEN_BITS THEN Queue(t, n) ELSE t
                ELSE s
    IN IF pm.prefix = KEY_LEN_BITS THEN PeerAddKey(told, pm) ELSE told

(***************************************************************************)
(* The loop of recv_key: m is the message, pm the message without what is  *)
(* known, pn the matching node of the peer's trie, n and len our place.    *)
(***************************************************************************)
RECURSIVE Walk(_, _, _, _, _, _)
Walk(s, m, pm, pn, n, len) ==
    IF Same(m, n)
    THEN IF m.stored THEN ReceivedAll(s, pn) ELSE PeerIsMissing(s, n, FALSE).s
    ELSE IF Same(pm, n) THEN s
    ELSE IF pm.prefix <= len THEN AtTheirNode(s, n, pm, len)
    ELSE LET limit == IF n.prefix < pm.prefix THEN n.prefix ELSE pm.prefix
             differ == {i \in len .. limit - 1 : i < HeadBits /\ Bit(n.key, i) # Bit(pm.key, i)}
             at == IF len < limit THEN limit ELSE len
             b == Bit(pm.key, at)
             told == IF pm.min <= n.prefix /\ pm.stored
                     THEN MissingLeaves(s, n, b, FALSE) ELSE s
         IN IF differ # {} THEN AtMismatch(s, n, pm, Min(differ))
            ELSE IF m.prefix <= at THEN Walk(s, m, pm, pn, n, at)
            ELSE IF at # n.prefix \/ n.kids[b] = Nil THEN Fails(s)
            ELSE Walk(told, m, pm, pn, n.kids[b], at + 1)

RecvKey(s, own, m) ==
    IF own = Nil THEN PeerAddKey(s, m)
    ELSE IF m.prefix = Empty THEN MissingLeaves(s, own, 2, FALSE)
    ELSE LET r == RemoveDifferences(s.tree, m)
         IN Walk(s, m, r.msg, r.node, own, 0)

\* sync_root_msg
RootMessage(n) ==
    IF n = Nil
    THEN [min |-> 0, stored |-> TRUE, prefix |-> Empty,
          key |-> [head |-> [i \in 0 .. HeadBits - 1 |-> 0], tail |-> {}]]
    ELSE Message(n)

-----------------------------------------------------------------------------
KeysOf(n) == {IdOf(l.key) : l \in LeavesOf(n)}
Wants(d) == {IdOf(l.key) : l \in {x \in LeavesOf(peer[d]) : ~x.stored}}
Offers(d) == {IdOf(l.key) : l \in {x \in LeavesOf(peer[d]) : x.stored}}

\* init_sync_state adds the digest of every file.
TrieOf(S) == FoldSet(LAMBDA k, n : AddKey(n, k, TRUE), Nil, S)

NotHeard == {"not heard"}

Init ==
    /\ \E held \in [Devices -> SUBSET Keys] :
          root = [d \in Devices |-> TrieOf(held[d])]
    /\ peer = [d \in Devices |-> Nil]
    /\ seen = [d \in Devices |-> NotHeard]
    /\ channel = [d \in Devices |-> <<>>]
    /\ failed = FALSE
    /\ created = 0
    /\ drops = 0

(***************************************************************************)
(* PeerConnection writes messages at once while its buffer has room; the   *)
(* ones that wait are in a heap ordered by type only, so that sync         *)
(* messages overtake each other.                                           *)
(***************************************************************************)
Deliverable(d) == IF Reordered THEN DOMAIN channel[d] ELSE DOMAIN channel[d] \cap {1}
Sent(ch, d, ms) == [ch EXCEPT ![Other(d)] = @ \o ms]

Heartbeat_once(d) ==
    LET state == KeysOf(root[Other(d)])
    IN /\ seen[d] # state
       /\ seen' = [seen EXCEPT ![d] = state]
       /\ IF seen[d] = NotHeard /\ state # KeysOf(root[d])
          THEN channel' = Sent(channel, d, <<RootMessage(root[d])>>)
          ELSE UNCHANGED channel
       /\ UNCHANGED <<root, peer, failed, created, drops>>
(***************************************************************************)
(* Peer.setStoreState: a heartbeat with the root hash of the other device. *)
(* The root hash is the XOR of the digests of the files, here the set of   *)
(* keys: a file is created or fetched, and does not grow.  (When it grows  *)
(* the trie keeps the key of the old version and the root hash does not.)  *)
(***************************************************************************)
Heartbeat(d) ==
    LET state == KeysOf(root[Other(d)])
    IN /\ seen[d] # state
       /\ seen' = [seen EXCEPT ![d] = state]
       /\ IF seen[d] # NotHeard \/ state # KeysOf(root[d])
          THEN channel' = Sent(channel, d, <<RootMessage(root[d])>>)
          ELSE UNCHANGED channel
       /\ UNCHANGED <<root, peer, failed, created, drops>>

\* sync_recv_message, jni_peer_message
Receive(d) ==
    \E i \in Deliverable(d) :
       LET s == RecvKey([tree |-> peer[d], out |-> <<>>, failed |-> FALSE],
                        root[d], channel[d][i])
       IN /\ peer' = [peer EXCEPT ![d] = s.tree]
          /\ channel' = Sent([channel EXCEPT ![d] = RemoveAt(@, i)], d, s.out)
          /\ failed' = (failed \/ s.failed)
          /\ UNCHANGED <<root, seen, created, drops>>

\* sync_add_key: the device has a new version of a file, its own or the peer's.
Adds(d, k) ==
    /\ k \notin KeysOf(root[d])
    /\ root' = [root EXCEPT ![d] = AddKey(@, k, TRUE)]
    /\ peer' = [peer EXCEPT ![d] = IF Find(@, MessageFromKey(k)) # Nil
                                   THEN RemoveKey(@, k) ELSE @]
    /\ UNCHANGED <<seen, channel, failed, drops>>

Fetched(d) == UNCHANGED created /\ \E k \in Wants(d) : Adds(d, k)
Creates(d) ==
    /\ created < MaxNew
    /\ created' = created + 1
    /\ \E k \in Keys \ UNION {KeysOf(root[e]) : e \in Devices} : Adds(d, k)

\* The TCP connection breaks, or is closed because its peer is gone.
ConnectionLost ==
    /\ drops < MaxDrops
    /\ drops' = drops + 1
    /\ channel' = [d \in Devices |-> <<>>]
    /\ UNCHANGED <<root, peer, seen, failed, created>>

\* Peer.linksDied, sync_free_peer_state: d has not heard the other for too long.
PeerLost(d) ==
    /\ drops < MaxDrops
    /\ drops' = drops + 1
    /\ channel' = [e \in Devices |-> <<>>]
    /\ peer' = [peer EXCEPT ![d] = Nil]
    /\ seen' = [seen EXCEPT ![d] = NotHeard]
    /\ UNCHANGED <<root, failed, created>>

Next ==
    \/ \E d \in Devices : Heartbeat(d) \/ Receive(d) \/ Fetched(d) \/ Creates(d) \/ PeerLost(d)
    \/ ConnectionLost

(***************************************************************************)
(* Links deliver, heartbeats come every few seconds, and what a device     *)
(* wants is transferred.  Each line is WF of its action, whose being       *)
(* enabled is spelt out.                                                   *)
(***************************************************************************)
Fairness == \A d \in Devices :
    /\ WF_vars(Heartbeat(d))
    /\ []<>(channel[d] = <<>>) \/ []<><<Receive(d)>>_vars
    /\ []<>(Wants(d) \ KeysOf(root[d]) = {}) \/ []<><<Fetched(d)>>_vars

Spec == Init /\ [][Next]_vars
FairSpec == Spec /\ Fairness

-----------------------------------------------------------------------------
\* The key of n is the XOR of keys behind their common prefix.
HoldsXor(n, keys) ==
    /\ n.key.tail = keys
    /\ \A i \in 0 .. n.prefix - 1 : \A k \in keys : Bit(n.key, i) = Path[k][i]
    /\ \A i \in n.prefix .. HeadBits - 1 :
          Bit(n.key, i) = Cardinality({k \in keys : Path[k][i] = 1}) % 2

RECURSIVE WellFormed(_, _, _)
\* n is what add_key would have built for its leaves below len prefix bits.
WellFormed(n, min, len) ==
    \/ n = Nil
    \/ /\ n.min = min
       /\ IsLeaf(n)
    \/ /\ n.min = min
       /\ n.prefix \in len .. HeadBits - 1
       /\ HoldsXor(n, KeysOf(n))
       /\ \A b \in {0, 1} :
             /\ n.kids[b] # Nil
             /\ \A k \in KeysOf(n.kids[b]) : Path[k][n.prefix] = b
             /\ WellFormed(n.kids[b], n.prefix + 1, n.prefix + 1)

\* Types; every message passes the sanity check of recv_key.
TypeOK ==
    /\ \A d \in Devices : KeysOf(root[d]) \subseteq Keys /\ KeysOf(peer[d]) \subseteq Keys
    /\ \A d \in Devices : \A m \in ToSet(channel[d]) :
          m.min <= m.prefix /\ m.prefix \in (0 .. HeadBits - 1) \cup {KEY_LEN_BITS, Empty}
    /\ failed \in BOOLEAN
    /\ created \in 0 .. MaxNew
    /\ drops \in 0 .. MaxDrops

(***************************************************************************)
(* However keys are added and removed, every node of a trie holds the XOR  *)
(* of its leaves behind their common prefix, has two children and starts   *)
(* where its parent ends.                                                  *)
(***************************************************************************)
TriesSound == \A d \in Devices : WellFormed(root[d], 0, 0) /\ WellFormed(peer[d], 0, 0)

\* No assertion of sync_keys.cpp fails, and no missing child is followed.
AssertionsHold == ~failed

(***************************************************************************)
(* What a device believes of its peer is true: a key it was told of is one *)
(* the peer has and it lacks itself, and a key it offers is its own.       *)
(***************************************************************************)
BeliefsTrue ==
    \A d \in Devices :
       /\ Wants(d) \subseteq KeysOf(root[Other(d)]) \ KeysOf(root[d])
       /\ Offers(d) \subseteq KeysOf(root[d])

(***************************************************************************)
(* now_has: a key is no longer offered only once the peer has it.          *)
(***************************************************************************)
OfferedUntilHeld ==
    [][drops' = drops =>
         \A d \in Devices : Offers(d) \ Offers(d)' \subseteq KeysOf(root[Other(d)])]_vars

(***************************************************************************)
(* When nothing is on the way and each has heard the other's present root  *)
(* hash, each knows every key it lacks.                                    *)
(***************************************************************************)
Quiet == \A d \in Devices : channel[d] = <<>> /\ seen[d] = KeysOf(root[Other(d)])
DifferenceFound ==
    Quiet => \A d \in Devices : Wants(d) = KeysOf(root[Other(d)]) \ KeysOf(root[d])

\* The exchange ends, and with what was fetched both devices have the same keys.
EventuallyEqual == <>[](Quiet /\ \A d \in Devices : KeysOf(root[d]) = KeysOf(root[Other(d)]))
=============================================================================
