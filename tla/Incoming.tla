------------------------------ MODULE Incoming ------------------------------
(***************************************************************************)
(* Messages from the EOC: the background thread asks the server for the    *)
(* next missing fragment (HttpTransport), the UI thread gets fragments     *)
(* from the satellite modem (RockTransport), and both store and process    *)
(* them (MessageQueue) with one tracker and one iterator.                  *)
(*                                                                         *)
(* A fragment is its sequence number and has one chat message.  Time is    *)
(* whether a minute has passed since the server was asked.  RecordStore    *)
(* has how a file is appended to and its marks are saved, and SeqTracker   *)
(* the tracker: here a file is a sequence and the tracker a set.           *)
(***************************************************************************)
EXTENDS Integers, Sequences, FiniteSets, Functions

CONSTANTS MaxSeq,         \* bound: fragments that the EOC sends
          MaxSatellite,   \* bound: fragments that arrive by satellite
          MaxKills,       \* bound: times the process is killed
          MaxPrefs,       \* bound: changes of the settings
          MaxErrors,      \* bound: exceptions of the connection
          MaxRefusals,    \* bound: answers of the server other than 200 and 404
          HasNetwork,     \* there is ever a network
          MaxOutages      \* bound: times the network goes away

IncomingAssumption ==
    /\ {MaxSeq, MaxSatellite, MaxKills, MaxPrefs, MaxErrors, MaxRefusals, MaxOutages} \subseteq Nat
    /\ HasNetwork \in BOOLEAN

Threads == {"http", "ui"}

VARIABLES sent,       \* fragments that the EOC has sent
          file,       \* incomingFragments
          chat,       \* eocMessages
          saved,      \* the properties of the file on disk: received, processed
          props,      \* and in memory
          tracker,    \* incomingTracker
          iter,       \* the iterator of incomingFragments: offset, recordLength
          pc, got,    \* each thread's next step and the fragment it has
          alarm,      \* httpRecvAlarm: none, now (posted) or set (for nextHttpCheck)
          waiting,    \* nextHttpCheck is still to come
          net,        \* the network is connected
          count       \* of the bounded events

vars == <<sent, file, chat, saved, props, tracker, iter, pc, got, alarm, waiting, net, count>>
memory == <<props, tracker, iter>>
disk == <<file, chat, saved>>

Counted == {"satellite", "kills", "prefs", "errors", "refusals", "outages"}
NoProps == [received |-> {}, processed |-> 0]

Init ==
    /\ sent = 0 /\ file = << >> /\ chat = << >>
    /\ saved = NoProps /\ props = NoProps /\ tracker = {} /\ iter = [offset |-> 0, length |-> 0]
    /\ pc = [t \in Threads |-> "idle"] /\ got = [t \in Threads |-> 0]
    /\ alarm = "now" /\ waiting = FALSE /\ net = HasNetwork
    /\ count = [e \in Counted |-> 0]

Happens(event, bound) == count[event] < bound /\ count' = [count EXCEPT ![event] = @ + 1]
Goes(t, step) == pc' = [pc EXCEPT ![t] = step]

EocSends ==
    /\ sent < MaxSeq /\ sent' = sent + 1
    /\ UNCHANGED <<disk, memory, pc, got, alarm, waiting, net, count>>

-----------------------------------------------------------------------------
\* setAlarm replaces the alarm that was set.
HttpAlarm ==
    /\ pc["http"] = "idle" /\ (alarm = "now" \/ (alarm = "set" /\ ~waiting))
    /\ alarm' = "none"
    /\ Goes("http", IF waiting \/ ~net THEN "idle" ELSE "ask")
    /\ UNCHANGED <<sent, disk, memory, got, waiting, net, count>>

nextMissing == CHOOSE s \in 0 .. MaxSeq : s \notin tracker /\ 0 .. (s - 1) \subseteq tracker

\* No such fragment, or another answer.
Nothing_bugNoAlarm ==
    /\ pc["http"] = "ask" /\ net
    /\ IF nextMissing >= sent THEN UNCHANGED count ELSE Happens("refusals", MaxRefusals)
    /\ waiting' = TRUE /\ Goes("http", "reset")
    /\ UNCHANGED <<sent, disk, memory, got, alarm, net>>
Nothing ==
    /\ pc["http"] = "ask" /\ net
    /\ IF nextMissing >= sent THEN UNCHANGED count ELSE Happens("refusals", MaxRefusals)
    /\ waiting' = TRUE /\ alarm' = "set" /\ Goes("http", "reset")
    /\ UNCHANGED <<sent, disk, memory, got, net>>

Fetched ==
    /\ pc["http"] = "ask" /\ net /\ nextMissing < sent
    /\ waiting' = TRUE /\ got' = [got EXCEPT !["http"] = nextMissing] /\ Goes("http", "track")
    /\ UNCHANGED <<sent, disk, memory, alarm, net, count>>

\* The connection fails, or breaks before an answer.
ConnectionFails ==
    /\ pc["http"] = "ask"
    /\ IF net THEN Happens("errors", MaxErrors) ELSE UNCHANGED count
    /\ Goes("http", "reset")
    /\ UNCHANGED <<sent, disk, memory, got, alarm, waiting, net>>

SatelliteFragment ==
    /\ pc["ui"] = "idle" /\ Happens("satellite", MaxSatellite)
    /\ \E s \in 0 .. (sent - 1) : got' = [got EXCEPT !["ui"] = s]
    /\ Goes("ui", "track")
    /\ UNCHANGED <<sent, disk, memory, alarm, waiting, net>>

-----------------------------------------------------------------------------
\* storeFragment, then what follows it: the next request or processFragments.
Stored(t) == Goes(t, IF t = "http" THEN "ask" ELSE "reset")

Track_bugSaved(t) ==
    /\ pc[t] = "track"
    /\ IF got[t] \in tracker THEN Stored(t) ELSE Goes(t, "append")
    /\ tracker' = tracker \cup {got[t]}
    /\ saved' = [saved EXCEPT !.received = tracker']
    /\ UNCHANGED <<sent, file, chat, props, iter, got, alarm, waiting, net, count>>
Track(t) ==
    /\ pc[t] = "track"
    /\ IF got[t] \in tracker THEN Stored(t) ELSE Goes(t, "append")
    /\ tracker' = tracker \cup {got[t]}
    /\ UNCHANGED <<sent, disk, props, iter, got, alarm, waiting, net, count>>

StoreFragment(t) ==
    /\ pc[t] = "append"
    /\ file' = Append(file, got[t])
    /\ props' = [props EXCEPT !.received = tracker]
    /\ Stored(t)
    /\ UNCHANGED <<sent, chat, saved, tracker, iter, got, alarm, waiting, net, count>>

\* processFragments, one call of the iterator at a time.
Reset(t) ==
    /\ pc[t] = "reset"
    /\ iter' = [offset |-> props.processed, length |-> 0]
    /\ Goes(t, "next")
    /\ UNCHANGED <<sent, disk, props, tracker, got, alarm, waiting, net, count>>

NextRecord_bugMark(t) ==
    LET offset == iter.offset + iter.length
        more == offset < Len(file)
    IN /\ pc[t] = "next"
       /\ iter' = [offset |-> offset, length |-> IF more THEN 1 ELSE 0]
       /\ props' = IF more THEN [props EXCEPT !.processed = offset + 1] ELSE props
       /\ saved' = props'
       /\ Goes(t, IF more THEN "read" ELSE "mark")
       /\ UNCHANGED <<sent, file, chat, tracker, got, alarm, waiting, net, count>>
NextRecord(t) ==
    LET offset == iter.offset + iter.length
        more == offset < Len(file)
    IN /\ pc[t] = "next"
       /\ iter' = [offset |-> offset, length |-> IF more THEN 1 ELSE 0]
       /\ Goes(t, IF more THEN "read" ELSE "mark")
       /\ UNCHANGED <<sent, disk, props, tracker, got, alarm, waiting, net, count>>

\* read gives null when the other thread is between records, and the exception is caught.
ReadRecord(t) ==
    /\ pc[t] = "read"
    /\ chat' = IF iter.length = 0 THEN chat ELSE Append(chat, file[iter.offset + 1])
    /\ Goes(t, "next")
    /\ UNCHANGED <<sent, file, saved, memory, got, alarm, waiting, net, count>>

Mark(t) ==
    /\ pc[t] = "mark"
    /\ props' = [props EXCEPT !.processed = iter.offset]
    /\ saved' = IF props.processed = iter.offset THEN saved ELSE props'
    /\ Goes(t, "idle")
    /\ UNCHANGED <<sent, file, chat, tracker, iter, got, alarm, waiting, net, count>>

-----------------------------------------------------------------------------
MinutePasses ==
    /\ waiting /\ waiting' = FALSE
    /\ UNCHANGED <<sent, disk, memory, pc, got, alarm, net, count>>

PrefsChanged ==
    /\ Happens("prefs", MaxPrefs) /\ alarm' = "now"
    /\ UNCHANGED <<sent, disk, memory, pc, got, waiting, net>>

\* A change of connectivity sets the alarm for the next check.
NetworkLost ==
    /\ net /\ Happens("outages", MaxOutages) /\ net' = FALSE /\ alarm' = "set"
    /\ UNCHANGED <<sent, disk, memory, pc, got, waiting>>

NetworkBack ==
    /\ ~net /\ HasNetwork /\ net' = TRUE /\ alarm' = "set"
    /\ UNCHANGED <<sent, disk, memory, pc, got, waiting, count>>

\* The process is killed and started again.
Kill ==
    /\ Happens("kills", MaxKills)
    /\ props' = saved /\ tracker' = saved.received /\ iter' = [offset |-> 0, length |-> 0]
    /\ pc' = [t \in Threads |-> "idle"] /\ alarm' = "now" /\ waiting' = FALSE
    /\ UNCHANGED <<sent, disk, got, net>>

Step(t) ==
    \/ Track(t) \/ StoreFragment(t) \/ Reset(t) \/ NextRecord(t) \/ ReadRecord(t) \/ Mark(t)
Ask == Nothing \/ Fetched \/ ConnectionFails

Next ==
    \/ EocSends \/ HttpAlarm \/ Ask \/ SatelliteFragment \/ \E t \in Threads : Step(t)
    \/ MinutePasses \/ PrefsChanged \/ NetworkLost \/ NetworkBack \/ Kill

\* Threads go on, posted alarms run, a minute passes, and outages end.
Fairness ==
    /\ WF_vars(HttpAlarm) /\ WF_vars(Ask) /\ WF_vars(MinutePasses) /\ WF_vars(NetworkBack)
    /\ \A t \in Threads : WF_vars(Step(t))

Spec == Init /\ [][Next]_vars /\ Fairness

-----------------------------------------------------------------------------
Seqs == 0 .. (MaxSeq - 1)
PropsType == [received : SUBSET Seqs, processed : Nat]

\* Types, and the offset of the iterator is that of a record or the end.
TypeOK ==
    /\ sent \in 0 .. MaxSeq /\ Range(file) \subseteq Seqs /\ Range(chat) \subseteq Seqs
    /\ saved \in PropsType /\ props \in PropsType /\ tracker \subseteq Seqs
    /\ iter \in [offset : 0 .. Len(file), length : {0, 1}]
    /\ pc \in [Threads -> {"idle", "ask", "track", "append", "reset", "next", "read", "mark"}]
    /\ alarm \in {"none", "now", "set"} /\ waiting \in BOOLEAN /\ net \in BOOLEAN

\* A fragment that the saved tracker has is in the file: no kill makes the phone believe
\* that it has a fragment which it does not have, and will never ask for again.
ReceivedKept == saved.received \subseteq Range(file)

\* A fragment before the mark is in the chat: none is passed over.
NoneSkipped == \A i \in 1 .. props.processed : file[i] \in Range(chat)

\* A message is shown once, however often its fragment comes.
ShownOnce == \A i, j \in DOMAIN chat : chat[i] = chat[j] => i = j

\* The same if the process is never killed.
ShownOnceAlive == count["kills"] = 0 => ShownOnce

\* Every message before the mark was shown, and none twice while the process lives.
ShownRight == NoneSkipped /\ ShownOnceAlive

\* Every message that the EOC sends is shown: again and again all are.
AllShown == []<>(0 .. (sent - 1) \subseteq Range(chat))

\* The server is asked again and again while there is a network.
AsksAgain == []<>(pc["http"] = "ask")
=============================================================================
