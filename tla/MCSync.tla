------------------------------- MODULE MCSync --------------------------------
(***************************************************************************)
(* Which numbers and which keys a phone has: SeqTracker, and SyncKeys with *)
(* two sets of constants, since three files, new files, lost peers and     *)
(* messages that overtake each other are too many together. A behaviour is *)
(* of one of them (part); while one is checked the other rests in an       *)
(* initial state.                                                          *)
(***************************************************************************)
EXTENDS SeqTracker, FiniteSets, TLC

VARIABLES part, root, peer, seen, channel, failed, created, drops

syncing == <<root, peer, seen, channel, failed, created, drops>>
all == <<part, vars, syncing>>

(* Two keys part at the last bit, the third parts from them within the     *)
(* first byte.                                                             *)
ThreeKeys == [k1 |-> 0 :> 0 @@ 1 :> 1 @@ 2 :> 0 @@ 3 :> 0,
              k2 |-> 0 :> 0 @@ 1 :> 1 @@ 2 :> 0 @@ 3 :> 1,
              k3 |-> 0 :> 0 @@ 1 :> 0 @@ 2 :> 1 @@ 3 :> 1]
TwoKeys == [k1 |-> 0 :> 0 @@ 1 :> 1 @@ 2 :> 0 @@ 3 :> 0,
            k2 |-> 0 :> 0 @@ 1 :> 1 @@ 2 :> 0 @@ 3 :> 1]

(* Three files, and peers that lose each other once.                       *)
Broken == INSTANCE SyncKeys WITH
    Devices <- {"a", "b"}, Keys <- {"k1", "k2", "k3"}, Path <- ThreeKeys,
    HeadBits <- 4, Byte <- 2, Reordered <- FALSE, MaxNew <- 0, MaxDrops <- 1
(* Two files, one of them perhaps created on the way; messages overtake.   *)
Reordered == INSTANCE SyncKeys WITH
    Devices <- {"a", "b"}, Keys <- {"k1", "k2"}, Path <- TwoKeys,
    HeadBits <- 4, Byte <- 2, Reordered <- TRUE, MaxNew <- 1, MaxDrops <- 0
ASSUME ConstantsFit == Broken!SyncKeysAssumption /\ Reordered!SyncKeysAssumption

(* The devices do the same: the second starts with no fewer files than the *)
(* first.                                                                  *)
SyncInit ==
    /\ Init
    /\ \/ part \in {"broken", "tracker"} /\ Broken!Init
       \/ part = "reordered" /\ Reordered!Init
    /\ part = "tracker" => Broken!KeysOf(root["b"]) = {}
    /\ Cardinality(Broken!KeysOf(root["a"])) <= Cardinality(Broken!KeysOf(root["b"]))

SyncNext ==
    /\ part' = part
    /\ \/ part = "broken" /\ Broken!Next /\ UNCHANGED vars
       \/ part = "reordered" /\ Reordered!Next /\ UNCHANGED vars
       \/ part = "tracker" /\ Next /\ UNCHANGED syncing

(* The fairness of SyncKeys: heartbeats go on, messages arrive and what is *)
(* wanted is fetched, as long as there is any.                             *)
SyncFairness ==
    \A d \in {"a", "b"} :
       /\ WF_syncing(part = "reordered" /\ Reordered!Heartbeat(d))
       /\ \/ []<>(channel[d] = << >>)
          \/ []<><<part = "reordered" /\ Reordered!Receive(d)>>_syncing
       /\ \/ []<>(Broken!Wants(d) \ Broken!KeysOf(root[d]) = {})
          \/ []<><<part = "reordered" /\ Reordered!Fetched(d)>>_syncing

SyncSpec == SyncInit /\ [][SyncNext]_all /\ SyncFairness

-----------------------------------------------------------------------------
(* Types, and every message passes the checks of recv_key.                 *)
SyncTypes ==
    /\ TypeOK
    /\ IF part = "reordered" THEN Reordered!TypeOK ELSE Broken!TypeOK

(* However keys are added and removed, every node of a trie holds the XOR  *)
(* of its leaves behind their common prefix and has two children.          *)
TriesSound == Broken!TriesSound

(* No assertion of sync_keys.cpp fails, whatever messages are lost or      *)
(* overtaken, and no missing child is followed.                            *)
AssertionsHold == Broken!AssertionsHold

(* What a device believes of its peer is true: a key it was told of is one *)
(* that the peer has and it lacks, and a key it offers is its own.         *)
BeliefsTrue == part = "broken" => Broken!BeliefsTrue

(* While the peers do not lose each other: when nothing is on the way and  *)
(* each has heard the other's root hash, each knows every key it lacks.    *)
DifferenceFound == drops = 0 => Broken!DifferenceFound

(* The exchange ends, and with what was fetched both have the same keys;   *)
(* now_has: a key is no longer offered only once the peer has it.          *)
EventuallyEqual ==
    /\ Broken!OfferedUntilHeld
    /\ part = "reordered" => Broken!EventuallyEqual

(* The tries and what they say of the peer are sound at every step.        *)
SyncSound == SyncTypes /\ TriesSound /\ AssertionsHold /\ BeliefsTrue
=============================================================================
