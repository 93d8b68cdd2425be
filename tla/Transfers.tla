----------------------------- MODULE Transfers -----------------------------
(***************************************************************************)
(* How a phone gets the files of its team from other phones: the           *)
(* callbacks of set reconciliation and the metadata messages of            *)
(* storage.cpp, the transfers of Peer.java, the message queue of           *)
(* PeerConnection.java and the end of RecordStore.java that takes blocks.  *)
(* SyncKeys models the reconciliation that finds the keys, and RecordStore *)
(* what a file is on disk.                                                 *)
(*                                                                         *)
(* A version of a file is its bytes, and stands for its digest as well.    *)
(* Every phone but those in Bad has a part of the same file; those have    *)
(* other bytes.  A connection is a queue ordered by message type and a     *)
(* wire (the write buffer and TCP) that keeps the order.  The handlers run *)
(* on the network thread, and linksDied is taken to run between them.      *)
(***************************************************************************)
EXTENDS Integers, Sequences, FiniteSets, SequencesExt

CONSTANTS Peers,       \* the other phones
          Bad,         \* those whose files have other bytes
          Files,
          MaxLen,      \* bound: length of a file
          Chunk,       \* bytes of a file that fit into a message
          MaxRequest,  \* Peer.maxRequest
          WireCap,     \* bound: messages on the wire
          MaxLosses,   \* bound: connections lost
          MaxDeaths    \* bound: times all links of a peer die

TransferBounds ==
    /\ Bad \subseteq Peers
    /\ {MaxLen, MaxRequest, MaxLosses, MaxDeaths} \subseteq Nat
    /\ {Chunk, WireCap} \subseteq Nat \ {0}

VARIABLES
    files,     \* my RecordStores: bytes appended, EOF and activeTransfer
    index,     \* versions in my index database
    mine,      \* versions whose digests are my sync keys
    versions,  \* versions in the index and the sync keys of each peer
    todo,      \* versions that reconciliation with the peer has still to report
    peer,      \* Peer: possibleTransfers, requested, received
    q, wire,   \* the two directions of each connection
    late,      \* blocks still read from a connection after linksDied
    losses, deaths

transferVars == <<files, index, mine, versions, todo, peer, q, wire, late, losses, deaths>>

NoTransfer == [p |-> "none", v |-> [f |-> "none", c |-> << >>]]

Copy(p, n) == [i \in 1 .. n |-> IF p \in Bad THEN 2 ELSE 1]
Version(p, f, n) == [f |-> f, c |-> Copy(p, n)]
Length(v) == Len(v.c)
EOF(p, f) == Max({Length(v) : v \in {u \in versions[p] : u.f = f}} \cup {0})

-----------------------------------------------------------------------------
(***************************************************************************)
(* A connection.  SyncMsg, RequestBlock and FileBlock are in this order in *)
(* the enumeration of types, and the comparator puts the last type first;  *)
(* among messages of one type a PriorityQueue promises no order.  A        *)
(* FileBlock stays in the queue until all its bytes were written.          *)
(***************************************************************************)
ToPeer(p) == <<"to", p>>
FromPeer(p) == <<"from", p>>
Channels == {"to", "from"} \X Peers

Ordinal(m) == CASE m.t = "RequestBlock" -> 4 [] m.t = "FileBlock" -> 5 [] OTHER -> 3

Urgent(queue) == {i \in DOMAIN queue : \A j \in DOMAIN queue : Ordinal(queue[i]) >= Ordinal(queue[j])}

ReqMetadata(v) == [t |-> "REQ_METADATA", v |-> v]
SendMetadata(v) == [t |-> "SEND_METADATA", v |-> v]
RequestBlock(f, off, len) == [t |-> "RequestBlock", f |-> f, off |-> off, len |-> len]
FileBlock(f, off, data) == [t |-> "FileBlock", f |-> f, off |-> off, data |-> data]

\* The part of a message that is written, and what stays in the queue.
Written(m) == IF m.t = "FileBlock" /\ Len(m.data) > Chunk THEN [m EXCEPT !.data = SubSeq(@, 1, Chunk)] ELSE m
Remains(m) == IF m.t = "FileBlock" /\ Len(m.data) > Chunk
              THEN <<[m EXCEPT !.off = @ + Chunk, !.data = SubSeq(@, Chunk + 1, Len(@))]>>
              ELSE << >>

\* One turn of the loop of fillWriteBuffer, and the results of writing while there is room.
WriteOne(s) ==
    IF s.queue = << >> \/ Len(s.wire) >= WireCap THEN {s}
    ELSE {[queue |-> Remains(s.queue[i]) \o RemoveAt(s.queue, i),
           wire |-> Append(s.wire, Written(s.queue[i]))] : i \in Urgent(s.queue)}
Fill(s) ==
    LET filled[n \in 0 .. WireCap] ==
            IF n = 0 THEN {s} ELSE UNION {WriteOne(r) : r \in filled[n - 1]}
    IN filled[WireCap]

\* queue(): the messages are queued on channel ch.
Send(ch, msgs) ==
    \E s \in Fill([queue |-> q[ch] \o msgs, wire |-> wire[ch]]) :
        q' = [q EXCEPT ![ch] = s.queue] /\ wire' = [wire EXCEPT ![ch] = s.wire]

\* The first message of channel ch is read and answered on the other one.
Answer(ch, other, msgs) ==
    \E s \in Fill([queue |-> q[ch], wire |-> Tail(wire[ch])]),
       r \in Fill([queue |-> q[other] \o msgs, wire |-> wire[other]]) :
        /\ q' = [q EXCEPT ![ch] = s.queue, ![other] = r.queue]
        /\ wire' = [wire EXCEPT ![ch] = s.wire, ![other] = r.wire]

Arrives(ch, type) == wire[ch] # << >> /\ Head(wire[ch]).t = type

-----------------------------------------------------------------------------
(***************************************************************************)
(* My files and the transfers from a peer p.  s has the files, the peer's  *)
(* fields and the messages that were queued.                               *)
(***************************************************************************)
State(p) == [files |-> files, peer |-> peer[p], msgs |-> << >>, i |-> 1]

\* One turn of the loop of nextTransfer, at transfer s.i, and the states in which the loop
\* ends (there is one): a turn removes a transfer or goes on to the next, so there are at
\* most as many turns as transfers.
Turn(s) ==
    LET t == s.peer.possible[s.i]
        x == s.files[t.v.f]
        len == Length(t.v) - x.eof
    IN IF s.peer.requested - s.peer.received > MaxRequest \/ s.i > Len(s.peer.possible) THEN s
       ELSE IF len <= 0 THEN [s EXCEPT !.peer.possible = RemoveAt(@, s.i)]
       ELSE IF x.active # NoTransfer THEN [s EXCEPT !.i = @ + 1]
       ELSE [s EXCEPT !.i = @ + 1, !.files[t.v.f].active = t, !.peer.requested = @ + len,
                      !.msgs = Append(@, RequestBlock(t.v.f, x.eof, len))]
nextTransfer(s) ==
    LET turns[n \in 0 .. Len(s.peer.possible)] ==
            IF n = 0 THEN {[s EXCEPT !.i = 1]} ELSE {Turn(r) : r \in turns[n - 1]}
    IN turns[Len(s.peer.possible)]

peerHas(s, p, v) ==
    LET x == s.files[v.f]
    IN IF Length(v) <= x.eof \/ (x.active # NoTransfer /\ Length(v) <= Length(x.active.v)) THEN {s}
       ELSE nextTransfer([s EXCEPT !.peer.possible = Append(@, [p |-> p, v |-> v])])

\* flush: the bytes must be those of the version, or they are cut off and the
\* exception leaves activeTransfer as it is.
Flush_bugUnchecked(x) == [x EXCEPT !.eof = Len(x.c), !.active = NoTransfer]
Flush(x) ==
    IF x.eof = Len(x.c) THEN [x EXCEPT !.active = NoTransfer]
    ELSE IF x.c = x.active.v.c THEN [x EXCEPT !.eof = Len(x.c), !.active = NoTransfer]
    ELSE [x EXCEPT !.c = SubSeq(@, 1, x.eof)]

\* appendAt: a block beyond the end is refused, what is there already is skipped.
AppendAt(x, off, data) ==
    LET y == [x EXCEPT !.c = @ \o SubSeq(data, Len(x.c) - off + 1, Len(data))]
    IN IF off > Len(x.c) THEN x
       ELSE IF x.active # NoTransfer /\ Length(x.active.v) = Len(y.c) THEN Flush(y) ELSE y

processData_bugOnce(s, m) ==
    {[s EXCEPT !.files[m.f] = AppendAt(@, m.off, m.data), !.peer.received = @ + Len(m.data)]}
processData_bugUncounted(s, m) ==
    nextTransfer([s EXCEPT !.files[m.f] = AppendAt(@, m.off, m.data)])
processData(s, m) ==
    nextTransfer([s EXCEPT !.files[m.f] = AppendAt(@, m.off, m.data),
                           !.peer.received = @ + Len(m.data)])

\* The versions that a change of the files has committed.
Committed(new) ==
    {[f |-> f, c |-> new[f].c] : f \in {g \in Files : new[g].eof > files[g].eof}}

NoPeer == [possible |-> << >>, requested |-> 0, received |-> 0]

-----------------------------------------------------------------------------
\* has_callback for a version of the peer that I lack, or now_has_callback for one that
\* the peer lacked and now has.  process_difference: the key is looked up in the database whose keys are file
\* names, so it is not found there and its metadata is asked for.
process_difference(p, v) ==
    /\ v \in todo[p]
    /\ todo' = [todo EXCEPT ![p] = @ \ {v}]
    /\ Send(ToPeer(p), <<ReqMetadata(v)>>)
    /\ UNCHANGED <<files, index, mine, versions, peer, late, losses, deaths>>

\* Reconciliation says nothing of a version that both have had for some time.
Settled(p, v) ==
    /\ v \in todo[p] \cap mine
    /\ todo' = [todo EXCEPT ![p] = @ \ {v}]
    /\ UNCHANGED <<files, index, mine, versions, peer, q, wire, late, losses, deaths>>

\* The peer answers from its index.
send_metadata(p) ==
    LET ch == ToPeer(p)
        v == Head(wire[ch]).v
    IN /\ Arrives(ch, "REQ_METADATA")
       /\ Answer(ch, FromPeer(p), IF v \in versions[p] THEN <<SendMetadata(v)>> ELSE << >>)
       /\ UNCHANGED <<files, index, mine, versions, todo, peer, late, losses, deaths>>

receive_metadata(p) ==
    LET ch == FromPeer(p)
        v == Head(wire[ch]).v
    IN /\ Arrives(ch, "SEND_METADATA")
       /\ index' = index \cup {v} /\ UNCHANGED mine
       /\ \E s \in peerHas(State(p), p, v) :
             /\ files' = s.files
             /\ peer' = [peer EXCEPT ![p] = s.peer]
             /\ Answer(ch, ToPeer(p), s.msgs)
       /\ UNCHANGED <<versions, todo, late, losses, deaths>>

\* The peer sends what it has of the bytes that were requested.
processRequest(p) ==
    LET ch == ToPeer(p)
        m == Head(wire[ch])
        eof == EOF(p, m.f)
        len == Min({m.len, eof - m.off})
    IN /\ Arrives(ch, "RequestBlock")
       /\ Answer(ch, FromPeer(p),
                 IF len <= 0 THEN << >>
                 ELSE <<FileBlock(m.f, m.off, SubSeq(Copy(p, eof), m.off + 1, m.off + len))>>)
       /\ UNCHANGED <<files, index, mine, versions, todo, peer, late, losses, deaths>>

ProcessData(p) ==
    LET ch == FromPeer(p)
    IN /\ Arrives(ch, "FileBlock")
       /\ \E s \in processData(State(p), Head(wire[ch])) :
             /\ files' = s.files
             /\ index' = index \cup Committed(s.files) /\ mine' = mine \cup Committed(s.files)
             /\ peer' = [peer EXCEPT ![p] = s.peer]
             /\ Answer(ch, ToPeer(p), s.msgs)
       /\ UNCHANGED <<versions, todo, late, losses, deaths>>

\* The file of the peer grows.
PeerAppends(p, f) ==
    LET v == Version(p, f, EOF(p, f) + 1)
    IN /\ EOF(p, f) < MaxLen
       /\ versions' = [versions EXCEPT ![p] = @ \cup {v}]
       /\ todo' = [todo EXCEPT ![p] = @ \cup {v}]
       /\ UNCHANGED <<files, index, mine, peer, q, wire, late, losses, deaths>>

Cut(p) ==
    /\ q' = [q EXCEPT ![ToPeer(p)] = << >>, ![FromPeer(p)] = << >>]
    /\ wire' = [wire EXCEPT ![ToPeer(p)] = << >>, ![FromPeer(p)] = << >>]

\* The TCP connection breaks; getConnection makes another one, with a new queue.
ConnectionLost(p) ==
    /\ losses < MaxLosses
    /\ losses' = losses + 1
    /\ Cut(p)
    /\ UNCHANGED <<files, index, mine, versions, todo, peer, late, deaths>>

\* The blocks that were on their way.
Blocks(w) ==
    LET blocks[i \in 0 .. Len(w)] ==
            IF i = 0 THEN << >>
            ELSE IF w[i].t = "FileBlock" THEN Append(blocks[i - 1], w[i]) ELSE blocks[i - 1]
    IN blocks[Len(w)]

\* trimDead and linksDied: the transfers are cancelled and the peer is forgotten;
\* when it is heard again there is a new Peer and reconciliation starts again.
\* Blocks that the old connection still delivers go to the old Peer.
linksDied(p) ==
    /\ deaths < MaxDeaths
    /\ deaths' = deaths + 1
    /\ files' = [f \in DOMAIN files |->
                   IF \E i \in DOMAIN peer[p].possible : peer[p].possible[i] = files[f].active
                   THEN [files[f] EXCEPT !.active = NoTransfer] ELSE files[f]]
    /\ peer' = [peer EXCEPT ![p] = NoPeer]
    /\ todo' = [todo EXCEPT ![p] = versions[p] \ mine]
    /\ late' \in {late, late \o Blocks(wire[FromPeer(p)])}
    /\ Cut(p)
    /\ UNCHANGED <<index, mine, versions, losses>>

\* The old Peer has no transfers, so nextTransfer does nothing.
LateData ==
    LET m == Head(late)
        new == [files EXCEPT ![m.f] = AppendAt(@, m.off, m.data)]
    IN /\ late # << >>
       /\ files' = new
       /\ index' = index \cup Committed(new) /\ mine' = mine \cup Committed(new)
       /\ late' = Tail(late)
       /\ UNCHANGED <<versions, todo, peer, q, wire, losses, deaths>>

-----------------------------------------------------------------------------
TransferInit ==
    /\ files = [f \in Files |-> [c |-> << >>, eof |-> 0, active |-> NoTransfer]]
    /\ index = {} /\ mine = {}
    /\ versions = [p \in Peers |-> {}] /\ todo = [p \in Peers |-> {}]
    /\ peer = [p \in Peers |-> NoPeer]
    /\ q = [ch \in Channels |-> << >>] /\ wire = [ch \in Channels |-> << >>]
    /\ late = << >> /\ losses = 0 /\ deaths = 0

Difference(p) == \E v \in todo[p] : process_difference(p, v) \/ Settled(p, v)

TransferNext ==
    \/ \E p \in Peers :
          \/ Difference(p)
          \/ send_metadata(p) \/ receive_metadata(p)
          \/ processRequest(p) \/ ProcessData(p)
          \/ ConnectionLost(p) \/ linksDied(p)
    \/ \E p \in Peers, f \in Files : PeerAppends(p, f)
    \/ LateData

TransferSpec == TransferInit /\ [][TransferNext]_transferVars

\* Phones go on: reconciliation reports what it finds and messages arrive.
TransferFairness ==
    /\ \A p \in Peers :
          /\ WF_transferVars(Difference(p))
          /\ WF_transferVars(send_metadata(p)) /\ WF_transferVars(receive_metadata(p))
          /\ WF_transferVars(processRequest(p)) /\ WF_transferVars(ProcessData(p))
    /\ WF_transferVars(LateData)

TransferFairSpec == TransferSpec /\ TransferFairness

-----------------------------------------------------------------------------
AllVersions == {Version(p, f, n) : p \in Peers, f \in Files, n \in 1 .. MaxLen}

\* The state has the shape that the code gives it.
TransferTypeOK ==
    /\ mine \subseteq index /\ index \subseteq AllVersions
    /\ \A f \in Files :
          /\ files[f].eof \in 0 .. Len(files[f].c)
          /\ files[f].active = NoTransfer \/ files[f].active.v \in AllVersions
    /\ \A p \in Peers :
          /\ todo[p] \subseteq versions[p] /\ versions[p] \subseteq AllVersions
          /\ peer[p].requested \in Nat /\ peer[p].received \in Nat
    /\ \A ch \in Channels : Len(wire[ch]) <= WireCap
    /\ losses \in 0 .. MaxLosses /\ deaths \in 0 .. MaxDeaths

\* What is committed is a version that one peer had, all of it and nothing of another
\* one's, however transfers were cancelled, repeated and mixed (appendAt, file_flush).
CommittedWhole ==
    \A f \in Files : files[f].eof > 0 =>
        \E p \in Peers : [f |-> f, c |-> SubSeq(files[f].c, 1, files[f].eof)] \in versions[p]

UnderWay(p) ==
    LET sent(ch) == {q[ch][i] : i \in DOMAIN q[ch]} \cup {wire[ch][i] : i \in DOMAIN wire[ch]}
    IN sent(ToPeer(p)) \cup sent(FromPeer(p))

\* A transfer that fills a file is still being answered: its request, or its last
\* block, is on the way.  Otherwise the file would stay closed to every other peer.
ActiveAnswered ==
    \A f \in Files : LET t == files[f].active IN t # NoTransfer =>
        \E m \in UnderWay(t.p) :
            \/ m.t = "RequestBlock" /\ m.f = f /\ m.off + m.len = Length(t.v)
            \/ m.t = "FileBlock" /\ m.f = f /\ m.off + Len(m.data) = Length(t.v)

Sum(S, op(_)) == FoldSet(LAMBDA x, n : n + op(x), 0, S)

\* requested - received, on which the window of requests rests, is what the peer has
\* still to deliver.
WindowExact ==
    \A p \in Peers :
        LET all == q[ToPeer(p)] \o wire[ToPeer(p)] \o q[FromPeer(p)] \o wire[FromPeer(p)]
            bytes(i) == CASE all[i].t = "RequestBlock" -> all[i].len
                          [] all[i].t = "FileBlock" -> Len(all[i].data)
                          [] OTHER -> 0
        IN peer[p].requested - peer[p].received = Sum(DOMAIN all, bytes)

\* "do we already know what this hash refers to?", storage.cpp: nobody is asked for
\* the metadata of a version that is in the index.
KnownNotAsked ==
    [][\A p \in Peers : (todo[p] \ todo'[p]) \cap index # {} => UNCHANGED <<q, wire>>]_transferVars

\* Whatever records a connected phone of the team has stored arrive here, again and
\* again, which is what sending them on to the EOC "as soon as they are created" needs
\* (README.md).
CatchesUp ==
    []<>(\A p \in Peers \ Bad, f \in Files : files[f].eof >= EOF(p, f))
=============================================================================
