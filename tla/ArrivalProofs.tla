---------------------------- MODULE ArrivalProofs ----------------------------
(***************************************************************************)
(* Proofs about what arrives at a phone: the messages of the EOC, for any  *)
(* number of fragments, kills, outages and errors, and the files of other  *)
(* phones, for any number of peers, files, losses and lengths.             *)
(***************************************************************************)
EXTENDS Incoming, Transfers, SequenceTheorems, WellFoundedInduction, TLAPS

-----------------------------------------------------------------------------
(***************************************************************************)
(* The inductive invariant.  Types, with what a thread has in its hands;   *)
(* no mark and no iterator is beyond the end of the file.                  *)
(***************************************************************************)
Steps == {"idle", "ask", "track", "append", "reset", "next", "read", "mark"}

DiskTypes ==
    /\ file \in Seq(Seqs) /\ chat \in Seq(Seqs)
    /\ saved \in PropsType /\ saved.processed <= Len(file)

MemoryTypes ==
    /\ props \in PropsType /\ props.processed <= Len(file) /\ tracker \in SUBSET Seqs
    /\ iter \in [offset : Nat, length : {0, 1}] /\ iter.offset + iter.length <= Len(file)

ControlTypes ==
    /\ sent \in 0 .. MaxSeq
    /\ pc \in [Threads -> Steps] /\ got \in [Threads -> Nat]
    /\ \A t \in Threads : pc[t] \in {"track", "append"} => got[t] \in Seqs
    /\ alarm \in {"none", "now", "set"} /\ waiting \in BOOLEAN /\ net \in BOOLEAN
    /\ count \in [Counted -> Nat]

Types == DiskTypes /\ MemoryTypes /\ ControlTypes

(***************************************************************************)
(* With fragments from one side only, one thread stores and processes      *)
(* them.                                                                   *)
(***************************************************************************)
OneSource == HasNetwork = FALSE \/ MaxSatellite = 0

OneThread ==
    /\ HasNetwork = FALSE => net = FALSE /\ pc["http"] = "idle"
    /\ MaxSatellite = 0 => pc["ui"] = "idle"

\* What was received is in the file, or is just being appended to it.
Kept ==
    /\ saved.received \subseteq Range(file) /\ props.received \subseteq Range(file)
    /\ \A s \in tracker : s \in Range(file) \/ \E t \in Threads : pc[t] = "append" /\ got[t] = s

\* The first n fragments of the file are in the chat.
Shown(n) == \A i \in 1 .. n : file[i] \in Range(chat)

\* How far the fragments are shown, by where the thread is in processFragments.
Processed ==
    /\ saved.processed = props.processed /\ Shown(props.processed)
    /\ \A t \in Threads :
          /\ pc[t] = "next" => Shown(iter.offset + iter.length)
          /\ pc[t] = "read" => iter.length = 1 /\ Shown(iter.offset)
          /\ pc[t] = "mark" => iter.length = 0 /\ Shown(iter.offset)

\* While the process lives the tracker has exactly what is in the file, each fragment
\* once, and the chat is the beginning of the file.
Alive ==
    /\ \A i, j \in DOMAIN file : file[i] = file[j] => i = j
    /\ Range(file) \subseteq tracker
    /\ \A t \in Threads : pc[t] = "append" => got[t] \in tracker \ Range(file)
    /\ Len(chat) <= Len(file) /\ \A i \in 1 .. Len(chat) : chat[i] = file[i]
    /\ \A t \in Threads : pc[t] = "next" => Len(chat) = iter.offset + iter.length
    /\ \A t \in Threads : pc[t] \in {"read", "mark"} => Len(chat) = iter.offset
    /\ (\A t \in Threads : pc[t] \notin {"next", "read", "mark"}) => Len(chat) = props.processed

AliveInv == count["kills"] = 0 => Alive

IncomingInv == Types /\ OneThread /\ Kept /\ Processed /\ AliveInv

-----------------------------------------------------------------------------
\* A nonempty set of natural numbers has a least element.
LEMMA LeastNumber ==
    ASSUME NEW T \in SUBSET Nat, T # {}
    PROVE  \E x \in T : \A y \in T : x <= y
<1>1. \E x \in T : \A y \in T : ~ (<<y, x>> \in OpToRel(<, Nat))
  BY NatLessThanWellFounded, WFMin
<1>2. \A x, y \in T : <<y, x>> \in OpToRel(<, Nat) <=> y < x
  BY DEF OpToRel
<1>3. PICK x \in T : \A y \in T : ~ (y < x)
  BY <1>1, <1>2, Zenon
<1> QED  BY <1>3

\* nextMissing finds a number.
LEMMA MissingFacts ==
    ASSUME IncomingAssumption, tracker \in SUBSET Seqs
    PROVE  nextMissing \in 0 .. MaxSeq
<1> DEFINE T == (0 .. MaxSeq) \ tracker
<1>1. MaxSeq \in Nat
  BY DEF IncomingAssumption
<1>2. T \in SUBSET Nat /\ MaxSeq \in T
  BY <1>1 DEF Seqs
<1>3. PICK x \in T : \A y \in T : x <= y
  BY <1>2, LeastNumber
<1>4. \A y \in 0 .. (x - 1) : y \in tracker
  BY <1>1, <1>3
<1>5. \E s \in 0 .. MaxSeq : s \notin tracker /\ 0 .. (s - 1) \subseteq tracker
  BY <1>3, <1>4
<1> QED  BY <1>5 DEF nextMissing

-----------------------------------------------------------------------------
\* Steps that leave files, properties, tracker and iterator alone.
Quiet ==
    /\ UNCHANGED <<disk, memory>> /\ count'["kills"] = count["kills"]
    /\ \A t \in Threads :
          pc'[t] # pc[t] => pc[t] \in {"idle", "ask"} /\ pc'[t] \in {"idle", "ask", "track", "reset"}
    /\ \A t \in Threads : pc[t] = "append" => got'[t] = got[t]

QuietStep ==
    \/ EocSends \/ HttpAlarm \/ Ask \/ SatelliteFragment
    \/ MinutePasses \/ PrefsChanged \/ NetworkLost \/ NetworkBack

LEMMA QuietSteps ==
    ASSUME IncomingAssumption, Types, QuietStep
    PROVE  Quiet /\ ControlTypes'
<1> USE DEF Types, ControlTypes, Quiet
<1>0. MaxSeq \in Nat /\ Threads = {"http", "ui"}
      /\ {"kills", "satellite", "prefs", "errors", "refusals", "outages"} = Counted
  BY DEF IncomingAssumption, Threads, Counted
<1>1. CASE EocSends
  BY <1>0, <1>1 DEF EocSends
<1>2. CASE HttpAlarm
  BY <1>0, <1>2 DEF HttpAlarm, Goes, Steps
<1>3. CASE Nothing
  BY <1>0, <1>3 DEF Nothing, Goes, Happens, Steps
<1>4. CASE Fetched
  <2>1. nextMissing \in Nat /\ nextMissing \in Seqs
    BY <1>0, <1>4, MissingFacts DEF Fetched, Seqs, MemoryTypes
  <2> HIDE DEF Types
  <2> QED  BY <1>0, <1>4, <2>1 DEF Fetched, Goes, Steps, Types
<1>5. CASE ConnectionFails
  BY <1>0, <1>5 DEF ConnectionFails, Goes, Happens, Steps
<1>6. CASE SatelliteFragment
  BY <1>0, <1>6 DEF SatelliteFragment, Goes, Happens, Steps, Seqs
<1>7. CASE MinutePasses
  BY <1>0, <1>7 DEF MinutePasses
<1>8. CASE PrefsChanged
  BY <1>0, <1>8 DEF PrefsChanged, Happens
<1>9. CASE NetworkLost
  <2>1. net' = FALSE /\ alarm' = "set" /\ UNCHANGED <<sent, disk, memory, pc, got, waiting>>
    BY <1>9 DEF NetworkLost
  <2>2. count' \in [Counted -> Nat] /\ count'["kills"] = count["kills"]
    BY <1>0, <1>9 DEF NetworkLost, Happens
  <2> QED  BY <1>0, <2>1, <2>2
<1>10. CASE NetworkBack
  BY <1>0, <1>10 DEF NetworkBack
<1> QED  BY <1>1, <1>2, <1>3, <1>4, <1>5, <1>6, <1>7, <1>8, <1>9, <1>10 DEF QuietStep, Ask

-----------------------------------------------------------------------------
\* Appending to a sequence.
LEMMA AppendFacts ==
    ASSUME NEW S, NEW s \in Seq(S), NEW e \in S
    PROVE  /\ Append(s, e) \in Seq(S) /\ Len(Append(s, e)) = Len(s) + 1
           /\ \A i \in 1 .. Len(s) : Append(s, e)[i] = s[i]
           /\ Append(s, e)[Len(s) + 1] = e
           /\ Range(Append(s, e)) = Range(s) \cup {e}
<1>1. /\ Append(s, e) \in Seq(S) /\ Len(Append(s, e)) = Len(s) + 1
      /\ \A i \in 1 .. Len(s) : Append(s, e)[i] = s[i]
      /\ Append(s, e)[Len(s) + 1] = e
  OBVIOUS
<1>2. DOMAIN s = 1 .. Len(s) /\ DOMAIN Append(s, e) = 1 .. (Len(s) + 1) /\ Len(s) \in Nat
  BY <1>1
<1>3. Range(Append(s, e)) \subseteq Range(s) \cup {e}
  BY <1>1, <1>2 DEF Range
<1>4. Range(s) \cup {e} \subseteq Range(Append(s, e))
  BY <1>1, <1>2 DEF Range
<1> QED  BY <1>1, <1>3, <1>4

\* The steps of a thread keep types, ...
LEMMA StepTypes ==
    ASSUME IncomingAssumption, Types, NEW t \in Threads, Step(t)
    PROVE  Types'
<1>0. MaxSeq \in Nat /\ Len(file) \in Nat
  BY DEF IncomingAssumption, Types, DiskTypes
<1>1. ASSUME UNCHANGED <<sent, got, alarm, waiting, net, count>>, NEW s \in Steps \ {"track"}, Goes(t, s),
             s = "append" => pc[t] = "track"
      PROVE  ControlTypes'
  BY <1>1 DEF Types, ControlTypes, Goes, Steps
<1>2. CASE Track(t)
  <2>1. ControlTypes'
    BY <1>1, <1>2 DEF Track, Stored, Steps
  <2>2. got[t] \in Seqs
    BY <1>2 DEF Track, Types, ControlTypes
  <2> QED  BY <1>2, <2>1, <2>2 DEF Track, Types, DiskTypes, MemoryTypes, disk
<1>3. CASE StoreFragment(t)
  <2>1. ControlTypes'
    BY <1>1, <1>3 DEF StoreFragment, Stored, Steps
  <2>2. got[t] \in Seqs
    BY <1>3 DEF StoreFragment, Types, ControlTypes
  <2>3. file' \in Seq(Seqs) /\ Len(file') = Len(file) + 1
    BY <1>3, <2>2, AppendFacts DEF StoreFragment, Types, DiskTypes
  <2>4. props' \in PropsType /\ props'.processed = props.processed
    BY <1>3 DEF StoreFragment, Types, MemoryTypes, PropsType
  <2> QED  BY <1>0, <1>3, <2>1, <2>3, <2>4 DEF StoreFragment, Types, DiskTypes, MemoryTypes, PropsType
<1>4. CASE Reset(t)
  <2>1. ControlTypes'
    BY <1>1, <1>4 DEF Reset, Steps
  <2> QED  BY <1>0, <1>4, <2>1 DEF Reset, Types, DiskTypes, MemoryTypes, disk, PropsType
<1>5. CASE NextRecord(t)
  <2>1. ControlTypes'
    BY <1>1, <1>5 DEF NextRecord, Steps
  <2> QED  BY <1>0, <1>5, <2>1 DEF NextRecord, Types, DiskTypes, MemoryTypes, disk, PropsType
<1>6. CASE ReadRecord(t)
  <2>1. ControlTypes'
    BY <1>1, <1>6 DEF ReadRecord, Steps
  <2>2. chat' \in Seq(Seqs)
    <3>1. CASE iter.length = 0
      BY <1>6, <3>1 DEF ReadRecord, Types, DiskTypes
    <3>2. CASE iter.length # 0
      <4>1. file[iter.offset + 1] \in Seqs
        BY <1>0, <3>2 DEF Types, DiskTypes, MemoryTypes
      <4> QED  BY <1>6, <3>2, <4>1, AppendFacts DEF ReadRecord, Types, DiskTypes
    <3> QED  BY <3>1, <3>2
  <2> QED  BY <1>6, <2>1, <2>2 DEF ReadRecord, Types, DiskTypes, MemoryTypes, memory
<1>7. CASE Mark(t)
  <2>1. ControlTypes'
    BY <1>1, <1>7 DEF Mark, Steps
  <2>2. props' \in PropsType /\ props'.processed <= Len(file)
    BY <1>0, <1>7 DEF Mark, Types, MemoryTypes, PropsType
  <2> QED  BY <1>0, <1>7, <2>1, <2>2 DEF Mark, Types, DiskTypes, MemoryTypes
<1> QED  BY <1>2, <1>3, <1>4, <1>5, <1>6, <1>7 DEF Step

LEMMA TypesStart == ASSUME IncomingAssumption, Init PROVE Types
<1>1. file = << >> /\ chat = << >> /\ Len(<< >>) = 0
  BY DEF Init
<1>2. DiskTypes /\ MemoryTypes
  BY <1>1 DEF Init, DiskTypes, MemoryTypes, NoProps, PropsType
<1>3. net \in BOOLEAN
  BY DEF Init, IncomingAssumption
<1>4. MaxSeq \in Nat
  BY DEF IncomingAssumption
<1>5. /\ sent \in 0 .. MaxSeq /\ pc \in [Threads -> Steps] /\ got \in [Threads -> Nat]
      /\ \A t \in Threads : pc[t] = "idle"
      /\ alarm \in {"none", "now", "set"} /\ count \in [Counted -> Nat]
  BY <1>4 DEF Init, Steps
<1>6. waiting \in BOOLEAN
  BY DEF Init
<1>7. ControlTypes
  BY <1>3, <1>5, <1>6 DEF ControlTypes
<1> QED  BY <1>2, <1>7 DEF Types

LEMMA KillTypes == ASSUME IncomingAssumption, Types, Kill PROVE Types' /\ count'["kills"] # 0
<1>1. MemoryTypes' /\ DiskTypes'
  BY DEF Kill, Types, DiskTypes, MemoryTypes, disk, PropsType
<1>2. count' \in [Counted -> Nat] /\ count'["kills"] # 0
  BY DEF Kill, Happens, Types, ControlTypes, Counted
<1>3. pc' \in [Threads -> Steps] /\ \A t \in Threads : pc'[t] = "idle"
  BY DEF Kill, Steps
<1>4. ControlTypes'
  BY <1>2, <1>3 DEF Kill, Types, ControlTypes
<1> QED  BY <1>1, <1>2, <1>4 DEF Types

LEMMA TypesNext == ASSUME IncomingAssumption, Types, [Next]_vars PROVE Types'
<1>1. CASE QuietStep
  <2>1. Quiet /\ ControlTypes'
    BY <1>1, QuietSteps
  <2> QED  BY <2>1 DEF Quiet, Types, DiskTypes, MemoryTypes, disk, memory
<1>2. CASE UNCHANGED vars
  BY <1>2 DEF vars, Types, DiskTypes, MemoryTypes, ControlTypes
<1> QED  BY <1>1, <1>2, StepTypes, KillTypes DEF Next, QuietStep

-----------------------------------------------------------------------------
\* ... and one thread at a time stores and processes.
LEMMA OneThreadNext ==
    ASSUME IncomingAssumption, Types, OneThread, [Next]_vars
    PROVE  OneThread'
<1>0. MaxSeq \in Nat /\ Threads = {"http", "ui"} /\ "satellite" \in Counted
  BY DEF IncomingAssumption, Threads, Counted
<1>1. CASE HttpAlarm
  BY <1>0, <1>1 DEF HttpAlarm, Goes, OneThread, Types, ControlTypes
<1>2. CASE Ask
  BY <1>0, <1>2 DEF Ask, Nothing, Fetched, ConnectionFails, Goes, OneThread, Types, ControlTypes
<1>3. CASE SatelliteFragment
  BY <1>0, <1>3 DEF SatelliteFragment, Happens, Goes, OneThread, Types, ControlTypes
<1>4. ASSUME NEW t \in Threads, Step(t) PROVE OneThread'
  <2>1. pc[t] # "idle" /\ net' = net /\ \E s \in Steps : Goes(t, s)
    BY <1>4 DEF Step, Track, Stored, StoreFragment, Reset, NextRecord, ReadRecord, Mark, Steps
  <2> QED  BY <1>0, <2>1 DEF Goes, OneThread, Types, ControlTypes
<1>5. CASE EocSends \/ MinutePasses \/ PrefsChanged
  BY <1>5 DEF EocSends, MinutePasses, PrefsChanged, OneThread
<1>6. CASE NetworkLost
  BY <1>6 DEF NetworkLost, OneThread
<1>7. CASE NetworkBack
  BY <1>7 DEF NetworkBack, OneThread
<1>8. CASE Kill
  BY <1>0, <1>8 DEF Kill, OneThread
<1>9. CASE UNCHANGED vars
  BY <1>9 DEF vars, OneThread
<1> QED  BY <1>1, <1>2, <1>3, <1>4, <1>5, <1>6, <1>7, <1>8, <1>9 DEF Next

LEMMA OthersIdle ==
    ASSUME OneSource, OneThread, NEW t \in Threads, NEW u \in Threads, pc[t] # "idle", u # t
    PROVE  pc[u] = "idle"
BY DEF OneSource, OneThread, Threads

\* A quiet step changes nothing that the other parts of the invariant speak of.
LEMMA QuietKeeps ==
    ASSUME Kept, Processed, AliveInv, Quiet
    PROVE  Kept' /\ Processed' /\ AliveInv'
<1>1. file' = file /\ chat' = chat /\ saved' = saved /\ props' = props /\ tracker' = tracker /\ iter' = iter
  BY DEF Quiet, disk, memory
<1>2. Kept'
  BY <1>1 DEF Kept, Quiet
<1>3. Processed'
  <2>1. \A n : Shown(n)' <=> Shown(n)
    BY <1>1 DEF Shown
  <2> QED  BY <1>1, <2>1 DEF Processed, Quiet
<1>4. AliveInv'
  BY <1>1 DEF AliveInv, Alive, Quiet
<1> QED  BY <1>2, <1>3, <1>4

\* What was received is kept.
LEMMA StepKept ==
    ASSUME OneSource, OneThread, Types, Kept, NEW t \in Threads, Step(t)
    PROVE  Kept'
<1>0. \A u \in Threads : u # t => pc[u] = "idle"
  BY OthersIdle DEF Step, Track, StoreFragment, Reset, NextRecord, ReadRecord, Mark
<1>1. CASE Track(t)
  <2>1. got[t] \in tracker \/ pc'[t] = "append"
    BY <1>1 DEF Track, Goes, Types, ControlTypes
  <2>2. \A s \in tracker : s \in Range(file)
    BY <1>0, <1>1 DEF Kept, Track
  <2> QED  BY <1>1, <2>1, <2>2 DEF Kept, Track, disk
<1>2. CASE StoreFragment(t)
  <2>1. Range(file') = Range(file) \cup {got[t]}
    BY <1>2, AppendFacts DEF StoreFragment, Types, DiskTypes, ControlTypes
  <2>2. \A s \in tracker : s \in Range(file')
    BY <1>0, <1>2, <2>1 DEF Kept, StoreFragment
  <2>3. props'.received = tracker /\ saved' = saved /\ tracker' = tracker
    BY <1>2 DEF StoreFragment, Types, MemoryTypes, PropsType
  <2> QED  BY <2>1, <2>2, <2>3 DEF Kept
<1>3. CASE Reset(t) \/ NextRecord(t)
  BY <1>0, <1>3 DEF Kept, Reset, NextRecord, disk
<1>4. CASE ReadRecord(t)
  BY <1>0, <1>4 DEF Kept, ReadRecord, memory
<1>5. CASE Mark(t)
  <2>1. props'.received = props.received /\ saved'.received \in {saved.received, props.received}
    BY <1>5 DEF Mark, Types, MemoryTypes, PropsType
  <2>2. \A s \in tracker : s \in Range(file)
    BY <1>0, <1>5 DEF Kept, Mark
  <2> QED  BY <1>5, <2>1, <2>2 DEF Kept, Mark
<1> QED  BY <1>1, <1>2, <1>3, <1>4, <1>5 DEF Step

\* What is before the mark was shown.
LEMMA StepProcessed ==
    ASSUME OneSource, OneThread, Types, Processed, NEW t \in Threads, Step(t)
    PROVE  Processed'
<1>0. \A u \in Threads : u # t => pc[u] = "idle"
  BY OthersIdle DEF Step, Track, StoreFragment, Reset, NextRecord, ReadRecord, Mark
<1>1. /\ Len(file) \in Nat /\ iter.offset \in Nat /\ iter.length \in {0, 1}
      /\ iter.offset + iter.length <= Len(file) /\ props.processed \in Nat /\ props.processed <= Len(file)
      /\ DOMAIN file = 1 .. Len(file) /\ pc \in [Threads -> Steps]
  BY DEF Types, DiskTypes, MemoryTypes, ControlTypes, PropsType
<1>2. CASE Track(t)
  <2>1. UNCHANGED <<disk, props, iter>> /\ \A u \in Threads : pc'[u] \notin {"next", "read", "mark"}
    BY <1>0, <1>1, <1>2 DEF Track, Stored, Goes
  <2> QED  BY <2>1 DEF Processed, Shown, disk
<1>3. CASE StoreFragment(t)
  <2>1. \A u \in Threads : pc'[u] \notin {"next", "read", "mark"}
    BY <1>0, <1>1, <1>3 DEF StoreFragment, Stored, Goes
  <2>2. \A i \in 1 .. Len(file) : file'[i] = file[i]
    BY <1>3, AppendFacts DEF StoreFragment, Types, DiskTypes, ControlTypes
  <2>3. props'.processed = props.processed /\ UNCHANGED <<chat, saved>>
    BY <1>3 DEF StoreFragment, Types, MemoryTypes, PropsType
  <2> QED  BY <1>1, <2>1, <2>2, <2>3 DEF Processed, Shown
<1>4. CASE Reset(t)
  <2>1. UNCHANGED <<disk, props>> /\ iter'.offset + iter'.length = props.processed
        /\ \A u \in Threads : pc'[u] \notin {"read", "mark"}
    BY <1>0, <1>1, <1>4 DEF Reset, Goes
  <2> QED  BY <2>1 DEF Processed, Shown, disk
<1>5. CASE NextRecord(t)
  <2> DEFINE offset == iter.offset + iter.length
  <2>1. Shown(offset)
    BY <1>5 DEF NextRecord, Processed
  <2>2. UNCHANGED <<disk, props>> /\ iter'.offset = offset
        /\ \A u \in Threads : /\ pc'[u] # "next"
                              /\ pc'[u] = "read" => iter'.length = 1
                              /\ pc'[u] = "mark" => iter'.length = 0
    BY <1>0, <1>1, <1>5 DEF NextRecord, Goes
  <2> QED  BY <2>1, <2>2 DEF Processed, Shown, disk
<1>6. CASE ReadRecord(t)
  <2>1. iter.length = 1 /\ Shown(iter.offset)
    BY <1>6 DEF ReadRecord, Processed
  <2>2. Range(chat') = Range(chat) \cup {file[iter.offset + 1]}
    <3>1. file[iter.offset + 1] \in Seqs
      BY <1>1, <2>1 DEF Types, DiskTypes
    <3> QED  BY <1>6, <2>1, <3>1, AppendFacts DEF ReadRecord, Types, DiskTypes
  <2>3. UNCHANGED <<file, saved, props, iter>> /\ \A u \in Threads : pc'[u] \notin {"read", "mark"}
    BY <1>0, <1>1, <1>6 DEF ReadRecord, Goes, memory
  <2>4. Shown(iter.offset + 1)' /\ Shown(props.processed)'
    BY <1>1, <2>1, <2>2, <2>3 DEF Shown, Processed
  <2> QED  BY <2>1, <2>3, <2>4 DEF Processed
<1>7. CASE Mark(t)
  <2>1. props'.processed = iter.offset /\ saved'.processed = iter.offset
    BY <1>7 DEF Mark, Types, MemoryTypes, DiskTypes, PropsType, Processed
  <2>2. UNCHANGED <<file, chat, iter>> /\ \A u \in Threads : pc'[u] \notin {"next", "read", "mark"}
    BY <1>0, <1>1, <1>7 DEF Mark, Goes
  <2>3. Shown(iter.offset)
    BY <1>7 DEF Mark, Processed
  <2> QED  BY <2>1, <2>2, <2>3 DEF Processed, Shown
<1> QED  BY <1>2, <1>3, <1>4, <1>5, <1>6, <1>7 DEF Step

\* While the process lives each message is shown once.
LEMMA StepAlive ==
    ASSUME OneSource, OneThread, Types, Processed, Alive, NEW t \in Threads, Step(t)
    PROVE  Alive'
<1>0. \A u \in Threads : u # t => pc[u] = "idle"
  BY OthersIdle DEF Step, Track, StoreFragment, Reset, NextRecord, ReadRecord, Mark
<1>1. /\ Len(file) \in Nat /\ Len(chat) \in Nat /\ iter.offset \in Nat /\ iter.length \in {0, 1}
      /\ iter.offset + iter.length <= Len(file) /\ pc \in [Threads -> Steps]
      /\ DOMAIN file = 1 .. Len(file)
  BY DEF Types, DiskTypes, MemoryTypes, ControlTypes, PropsType
<1>2. CASE Track(t)
  <2>1. /\ UNCHANGED <<disk, props, got, iter>> /\ tracker' = tracker \cup {got[t]}
        /\ \A u \in Threads : pc[u] \notin {"next", "read", "mark"}
        /\ \A u \in Threads : pc'[u] \notin {"next", "read", "mark"}
        /\ \A u \in Threads : pc'[u] = "append" => u = t /\ got[t] \notin tracker
    BY <1>0, <1>1, <1>2 DEF Track, Stored, Goes
  <2> QED  BY <2>1 DEF Alive, disk
<1>3. CASE StoreFragment(t)
  <2>1. /\ \A u \in Threads : pc[u] \notin {"next", "read", "mark"}
        /\ \A u \in Threads : pc'[u] \notin {"next", "read", "mark", "append"}
    BY <1>0, <1>1, <1>3 DEF StoreFragment, Stored, Goes
  <2>2. /\ got[t] \notin Range(file) /\ \A i \in 1 .. Len(file) : file'[i] = file[i]
        /\ file'[Len(file) + 1] = got[t] /\ Len(file') = Len(file) + 1
        /\ DOMAIN file' = 1 .. (Len(file) + 1) /\ Range(file') = Range(file) \cup {got[t]}
    <3>1. got[t] \in Seqs /\ file \in Seq(Seqs) /\ file' = Append(file, got[t])
      BY <1>3 DEF StoreFragment, Types, DiskTypes, ControlTypes
    <3>2. file' \in Seq(Seqs)
      BY <3>1, AppendFacts
    <3> QED  BY <1>3, <3>1, <3>2, AppendFacts DEF StoreFragment, Alive
  <2>3. \A i, j \in DOMAIN file' : file'[i] = file'[j] => i = j
    <3>1. \A i \in 1 .. Len(file) : file[i] \in Range(file)
      BY <1>1 DEF Range
    <3> QED  BY <1>1, <2>2, <3>1 DEF Alive
  <2>4. got[t] \in tracker
    BY <1>3 DEF StoreFragment, Alive
  <2>5. props'.processed = props.processed /\ UNCHANGED <<chat, tracker>>
    BY <1>3 DEF StoreFragment, Types, MemoryTypes, PropsType
  <2> QED  BY <1>1, <2>1, <2>2, <2>3, <2>4, <2>5 DEF Alive
<1>4. CASE Reset(t)
  <2>1. /\ UNCHANGED <<disk, props, tracker, got>> /\ iter'.offset + iter'.length = props.processed
        /\ \A u \in Threads : pc[u] \notin {"next", "read", "mark"}
        /\ pc'[t] = "next" /\ \A u \in Threads : pc'[u] \notin {"read", "mark", "append"}
    BY <1>0, <1>1, <1>4 DEF Reset, Goes, Types, MemoryTypes, PropsType
  <2> QED  BY <2>1 DEF Alive, disk
<1>5. CASE NextRecord(t)
  <2>1. /\ UNCHANGED <<disk, props, tracker, got>> /\ iter'.offset = iter.offset + iter.length
        /\ pc[t] = "next" /\ pc'[t] \in {"read", "mark"}
        /\ \A u \in Threads : pc'[u] \notin {"next", "append"}
    BY <1>0, <1>1, <1>5 DEF NextRecord, Goes
  <2> QED  BY <2>1 DEF Alive, disk
<1>6. CASE ReadRecord(t)
  <2>1. iter.length = 1 /\ Len(chat) = iter.offset /\ file[iter.offset + 1] \in Seqs
    BY <1>1, <1>6 DEF ReadRecord, Processed, Alive, Types, DiskTypes
  <2>2. /\ Len(chat') = Len(chat) + 1 /\ chat'[Len(chat) + 1] = file[iter.offset + 1]
        /\ \A i \in 1 .. Len(chat) : chat'[i] = chat[i]
    BY <1>6, <2>1, AppendFacts DEF ReadRecord, Types, DiskTypes
  <2>3. /\ UNCHANGED <<file, tracker, got, iter>>
        /\ pc'[t] = "next" /\ \A u \in Threads : pc'[u] \notin {"read", "mark", "append"}
    BY <1>0, <1>1, <1>6 DEF ReadRecord, Goes, memory
  <2> QED  BY <1>1, <2>1, <2>2, <2>3 DEF Alive
<1>7. CASE Mark(t)
  <2>1. /\ UNCHANGED <<file, chat, tracker, got>> /\ props'.processed = iter.offset
        /\ pc[t] = "mark" /\ \A u \in Threads : pc'[u] \notin {"next", "read", "mark", "append"}
    BY <1>0, <1>1, <1>7 DEF Mark, Goes, Types, MemoryTypes, PropsType
  <2> QED  BY <2>1 DEF Alive
<1> QED  BY <1>2, <1>3, <1>4, <1>5, <1>6, <1>7 DEF Step

LEMMA IncomingStart == ASSUME IncomingAssumption, Init PROVE IncomingInv
<1>1. Types
  BY TypesStart
<1>2. /\ file = << >> /\ chat = << >> /\ saved = NoProps /\ props = NoProps /\ tracker = {}
      /\ \A t \in Threads : pc[t] = "idle"
  BY DEF Init
<1>3. OneThread
  BY <1>2 DEF Init, OneThread, Threads
<1>4. Kept /\ Processed
  BY <1>2 DEF Kept, Processed, Shown, NoProps
<1>5. AliveInv
  BY <1>2 DEF AliveInv, Alive, NoProps, Range
<1> QED  BY <1>1, <1>3, <1>4, <1>5 DEF IncomingInv

LEMMA IncomingStep ==
    ASSUME IncomingAssumption, OneSource, IncomingInv, [Next]_vars
    PROVE  IncomingInv'
<1>1. Types' /\ OneThread'
  BY TypesNext, OneThreadNext DEF IncomingInv
<1>2. CASE QuietStep
  BY <1>1, <1>2, QuietSteps, QuietKeeps DEF IncomingInv
<1>3. ASSUME NEW t \in Threads, Step(t)
      PROVE  IncomingInv'
  <2>1. count' = count
    BY <1>3 DEF Step, Track, StoreFragment, Reset, NextRecord, ReadRecord, Mark
  <2> QED  BY <1>1, <1>3, <2>1, StepKept, StepProcessed, StepAlive DEF IncomingInv, AliveInv
<1>4. CASE Kill
  <2>1. count'["kills"] # 0
    BY <1>4, KillTypes DEF IncomingInv
  <2>2. Kept' /\ Processed'
    BY <1>4 DEF Kill, IncomingInv, Kept, Processed, Shown, disk
  <2> QED  BY <1>1, <2>1, <2>2 DEF IncomingInv, AliveInv
<1>5. CASE UNCHANGED vars
  BY <1>1, <1>5 DEF vars, IncomingInv, Kept, Processed, Shown, AliveInv, Alive
<1> QED  BY <1>2, <1>3, <1>4, <1>5 DEF Next, QuietStep

-----------------------------------------------------------------------------
(***************************************************************************)
(* Types hold also when both threads store and process fragments: neither  *)
(* moves the iterator or the mark "processed" beyond the end of the file.  *)
(***************************************************************************)
THEOREM IncomingTypes == ASSUME IncomingAssumption PROVE Spec => []TypeOK
<1>1. Types => TypeOK
  <2> SUFFICES ASSUME Types PROVE TypeOK
    OBVIOUS
  <2>1. Range(file) \subseteq Seqs /\ Range(chat) \subseteq Seqs /\ Len(file) \in Nat
    BY DEF Types, DiskTypes, Range
  <2>2. iter \in [offset : 0 .. Len(file), length : {0, 1}]
    BY <2>1 DEF Types, MemoryTypes
  <2> QED  BY <2>1, <2>2 DEF Types, DiskTypes, MemoryTypes, ControlTypes, TypeOK, Steps
<1> QED  BY <1>1, TypesStart, TypesNext, PTL DEF Spec

(***************************************************************************)
(* With fragments from one side only, a fragment that the saved tracker    *)
(* has is in the file, whenever the process is killed (storeFragment).     *)
(***************************************************************************)
THEOREM IncomingKept ==
    ASSUME IncomingAssumption, OneSource
    PROVE  Spec => []ReceivedKept
<1>1. IncomingInv => ReceivedKept
  BY DEF IncomingInv, Kept, ReceivedKept
<1> QED  BY <1>1, IncomingStart, IncomingStep, PTL DEF Spec

(***************************************************************************)
(* With fragments from one side only, every fragment before the mark       *)
(* "processed" was shown, and until the process is killed no message is    *)
(* shown twice, however often its fragment comes (processFragments).       *)
(***************************************************************************)
THEOREM IncomingShown ==
    ASSUME IncomingAssumption, OneSource
    PROVE  Spec => []ShownRight
<1>1. IncomingInv => ShownRight
  <2> SUFFICES ASSUME IncomingInv PROVE ShownRight
    OBVIOUS
  <2>1. NoneSkipped
    BY DEF IncomingInv, Processed, Shown, NoneSkipped
  <2>2. ASSUME count["kills"] = 0
        PROVE  ShownOnce
    <3>1. DOMAIN chat = 1 .. Len(chat) /\ DOMAIN file = 1 .. Len(file) /\ Len(chat) \in Nat /\ Len(file) \in Nat
      BY DEF IncomingInv, Types, DiskTypes
    <3> QED  BY <2>2, <3>1 DEF IncomingInv, AliveInv, Alive, ShownOnce
  <2> QED  BY <2>1, <2>2 DEF ShownRight, ShownOnceAlive
<1> QED  BY <1>1, IncomingStart, IncomingStep, PTL DEF Spec

-----------------------------------------------------------------------------
(* Induction up to n, and functions that are defined by a loop.            *)
LEMMA Climb ==
    ASSUME NEW n \in Nat, NEW G, 0 \in G, \A i \in 1 .. n : i - 1 \in G => i \in G
    PROVE  \A i \in 0 .. n : i \in G
<1> DEFINE T == {i \in 0 .. n : i \notin G}
<1> SUFFICES ASSUME T # {} PROVE FALSE
  OBVIOUS
<1>1. PICK x \in T : \A y \in T : x <= y
  <2>1. T \in SUBSET Nat
    OBVIOUS
  <2> QED  BY <2>1, LeastNumber
<1>2. x \in 0 .. n /\ x \notin G
  OBVIOUS
<1>3. x \in 1 .. n
  BY <1>2
<1>4. x - 1 \in 0 .. n /\ ~ (x <= x - 1)
  BY <1>3
<1>5. x - 1 \in G
  BY <1>1, <1>4
<1> QED  BY <1>2, <1>3, <1>5

Iterates(f, n, a, E) == f[0] = a /\ \A i \in 1 .. n : f[i] = E[i][f[i - 1]]
\* Whatever a loop of n turns does to a state of X, the function of its states exists.
LEMMA LoopExists ==
    ASSUME NEW n \in Nat, NEW X, NEW a \in X, NEW E \in [1 .. n -> [X -> X]]
    PROVE  \E f \in [0 .. n -> X] : Iterates(f, n, a, E)
<1> DEFINE Runs(f, m) == f[0] = a /\ \A i \in 1 .. m : f[i] = E[i][f[i - 1]]
           G == {m \in 0 .. n : \E f \in [0 .. m -> X] : Runs(f, m)}
<1>1. 0 \in G
  <2> DEFINE f == [i \in 0 .. 0 |-> a]
  <2>1. f \in [0 .. 0 -> X] /\ f[0] = a /\ 1 .. 0 = {}
    OBVIOUS
  <2> HIDE DEF f
  <2>2. \E g \in [0 .. 0 -> X] : Runs(g, 0)
    BY <2>1
  <2> QED  BY <2>2
<1>2. ASSUME NEW m \in 1 .. n, m - 1 \in G PROVE m \in G
  <2>1. PICK f \in [0 .. (m - 1) -> X] : Runs(f, m - 1)
    BY <1>2
  <2>2. m - 1 \in 0 .. (m - 1) /\ f[m - 1] \in X
    OBVIOUS
  <2> DEFINE e == E[m][f[m - 1]]
             g == [i \in 0 .. m |-> IF i = m THEN e ELSE f[i]]
  <2>3. e \in X
    BY <2>2
  <2> HIDE DEF e
  <2>4. g \in [0 .. m -> X] /\ g[m] = e /\ \A i \in 0 .. (m - 1) : g[i] = f[i]
    BY <2>3
  <2> HIDE DEF g
  <2>5. g[0] = a
    BY <2>1, <2>4
  <2>6. ASSUME NEW i \in 1 .. m PROVE g[i] = E[i][g[i - 1]]
    <3>1. CASE i = m
      BY <2>2, <2>4, <3>1 DEF e
    <3>2. CASE i # m
      <4>1. i \in 1 .. (m - 1) /\ i \in 0 .. (m - 1) /\ i - 1 \in 0 .. (m - 1)
        BY <3>2
      <4> QED  BY <2>1, <2>4, <4>1
    <3> QED  BY <3>1, <3>2
  <2>7. Runs(g, m)
    BY <2>5, <2>6
  <2> HIDE DEF Runs
  <2> QED  BY <2>4, <2>7
<1>3. n \in G
  <2> HIDE DEF G
  <2>1. \A i \in 0 .. n : i \in G
    BY <1>1, <1>2, Climb
  <2> QED  BY <2>1
<1> QED  BY <1>3 DEF Iterates

-----------------------------------------------------------------------------
(* The inductive invariant.  A transfer of p is of a version that p has; a *)
(* message carries what its receiver relies on; and a file holds, up to    *)
(* its EOF, a version that a peer has.                                     *)
Offers(p) == [p : {p}, v : versions[p]]
AllOffers == UNION {Offers(p) : p \in Peers}

FileRecord == [c : Seq(Nat), eof : Nat, active : AllOffers \cup {NoTransfer}]
WholeFile(f) ==
    {x \in FileRecord :
        /\ x.eof <= Len(x.c)
        /\ x.active # NoTransfer => x.active.v.f = f
        /\ x.eof > 0 => \E p \in Peers : [f |-> f, c |-> SubSeq(x.c, 1, x.eof)] \in versions[p]}
WholeFiles == {g \in [Files -> FileRecord] : \A f \in Files : g[f] \in WholeFile(f)}

PeerRecord(p) == [possible : Seq(Offers(p)), requested : Int, received : Int]

Request == [t : {"RequestBlock"}, f : Files, off : Nat, len : Nat]
Block == [t : {"FileBlock"}, f : Files, off : Nat, data : Seq(Nat)]
Carried(ch) ==
    IF ch[1] = "to" THEN Request \cup [t : {"REQ_METADATA"}, v : AllVersions]
    ELSE Block \cup [t : {"SEND_METADATA"}, v : versions[ch[2]]]

VersionTypes ==
    /\ versions \in [Peers -> SUBSET AllVersions] /\ todo \in [Peers -> SUBSET AllVersions]
FileTypes == files \in WholeFiles
PeerTypes == DOMAIN peer = Peers /\ \A p \in Peers : peer[p] \in PeerRecord(p)
Messages ==
    /\ DOMAIN q = Channels /\ DOMAIN wire = Channels
    /\ \A ch \in Channels : q[ch] \in Seq(Carried(ch)) /\ wire[ch] \in Seq(Carried(ch))
MessageTypes == Messages /\ late \in Seq(Block)

TransferInv == VersionTypes /\ FileTypes /\ PeerTypes /\ MessageTypes

-----------------------------------------------------------------------------
\* A version names a file and has between one and MaxLen bytes.
LEMMA VersionFacts ==
    ASSUME TransferBounds, NEW v \in AllVersions
    PROVE  v \in [f : Files, c : Seq(Nat)] /\ Length(v) \in 1 .. MaxLen
<1>1. PICK p \in Peers, f \in Files, n \in 1 .. MaxLen : v = Version(p, f, n)
  BY DEF AllVersions
<1>2. n \in Nat
  BY DEF TransferBounds
<1>3. Copy(p, n) \in Seq(Nat) /\ Len(Copy(p, n)) = n
  <2>1. Copy(p, n) \in [1 .. n -> Nat]
    BY DEF Copy
  <2> QED  BY <1>2, <2>1, SeqDef
<1> QED  BY <1>1, <1>3 DEF Version, Length

\* The bytes of a peer's file.
LEMMA CopyFacts ==
    ASSUME NEW p, NEW n \in Nat
    PROVE  Copy(p, n) \in Seq(Nat) /\ Len(Copy(p, n)) = n
<1>1. Copy(p, n) \in [1 .. n -> Nat]
  BY DEF Copy
<1> QED  BY <1>1

\* A bounded set of numbers has its maximum.
LEMMA MaxIn ==
    ASSUME NEW n \in Nat, NEW S \in SUBSET (0 .. n), S # {}
    PROVE  Max(S) \in S /\ \A y \in S : Max(S) >= y
<1> DEFINE T == {n - x : x \in S}
<1>1. T \in SUBSET Nat /\ T # {}
  <2>1. \A x \in S : x \in 0 .. n /\ n - x \in Nat
    OBVIOUS
  <2> QED  BY <2>1
<1>2. PICK t \in T : \A y \in T : t <= y
  BY <1>1, LeastNumber
<1>3. PICK x \in S : t = n - x
  OBVIOUS
<1>4. \A y \in S : x >= y
  <2> SUFFICES ASSUME NEW y \in S PROVE x >= y
    OBVIOUS
  <2>1. n - y \in T
    OBVIOUS
  <2>2. n - x <= n - y
    BY <1>2, <1>3, <2>1
  <2> QED  BY <2>2
<1> QED  BY <1>4 DEF Max

\* The end of a peer's file is a length that it may have.
LEMMA EOFFacts ==
    ASSUME TransferBounds, VersionTypes, NEW p \in Peers, NEW f
    PROVE  EOF(p, f) \in 0 .. MaxLen
<1> DEFINE S == {Length(v) : v \in {u \in versions[p] : u.f = f}} \cup {0}
<1>1. MaxLen \in Nat /\ \A v \in versions[p] : v \in AllVersions
  BY DEF TransferBounds, VersionTypes
<1>2. S \in SUBSET (0 .. MaxLen) /\ S # {}
  <2>1. \A v \in versions[p] : Length(v) \in 0 .. MaxLen
    BY <1>1, VersionFacts
  <2> QED  BY <1>1, <2>1
<1>3. EOF(p, f) = Max(S)
  BY DEF EOF
<1> HIDE DEF S
<1> QED  BY <1>1, <1>2, <1>3, MaxIn

\* The first n bytes.
LEMMA PrefixFacts ==
    ASSUME NEW c \in Seq(Nat), NEW n \in 0 .. Len(c)
    PROVE  /\ SubSeq(c, 1, n) \in Seq(Nat) /\ Len(SubSeq(c, 1, n)) = n
           /\ \A i \in 1 .. n : SubSeq(c, 1, n)[i] = c[i]
<1>1. n \in Nat /\ 1 \in Nat /\ n <= Len(c) /\ Len(c) \in Nat
  OBVIOUS
<1>2. \A i \in 1 .. n : c[i] \in Nat
  OBVIOUS
<1>3. SubSeq(c, 1, n) = [i \in 1 .. n |-> c[i]]
  BY <1>1, <1>2
<1> QED  BY <1>1, <1>2, <1>3

\* Files that agree on n bytes have the same first n bytes.
LEMMA SamePrefix ==
    ASSUME NEW c \in Seq(Nat), NEW d \in Seq(Nat), NEW n \in 0 .. Len(c), n <= Len(d),
           \A i \in 1 .. n : c[i] = d[i]
    PROVE  SubSeq(c, 1, n) = SubSeq(d, 1, n)
<1>1. n \in 0 .. Len(d)
  OBVIOUS
<1> QED  BY <1>1, PrefixFacts, SeqEqual

\* flush commits the version that was asked for, or nothing: that is the digest it compares.
LEMMA FlushFacts ==
    ASSUME TransferBounds, VersionTypes, NEW f \in Files, NEW x \in WholeFile(f), x.active # NoTransfer
    PROVE  Flush(x) \in WholeFile(f)
<1>1. /\ x \in FileRecord /\ x.eof <= Len(x.c) /\ x.active.v.f = f /\ x.c \in Seq(Nat) /\ x.eof \in Nat
      /\ x.eof > 0 => \E p \in Peers : [f |-> f, c |-> SubSeq(x.c, 1, x.eof)] \in versions[p]
  BY DEF WholeFile, FileRecord
<1>2. CASE x.eof = Len(x.c)
  BY <1>1, <1>2 DEF Flush, WholeFile, FileRecord
<1>3. CASE x.eof # Len(x.c) /\ x.c = x.active.v.c
  <2>1. PICK p \in Peers : x.active \in Offers(p)
    BY <1>1 DEF FileRecord, AllOffers
  <2>2. x.active.v \in versions[p] /\ x.active.v \in AllVersions
    BY <2>1 DEF Offers, VersionTypes
  <2>3. x.active.v = [f |-> f, c |-> x.c]
    <3>1. x.active.v \in [f : Files, c : Seq(Nat)]
      BY <2>2, VersionFacts
    <3> QED  BY <1>1, <1>3, <3>1
  <2>4. SubSeq(x.c, 1, Len(x.c)) = x.c
    BY <1>1
  <2>5. [f |-> f, c |-> SubSeq(x.c, 1, Len(x.c))] \in versions[p]
    BY <2>2, <2>3, <2>4
  <2>6. Flush(x) = [x EXCEPT !.eof = Len(x.c), !.active = NoTransfer]
    BY <1>3 DEF Flush
  <2> DEFINE y == Flush(x)
  <2>7. y \in FileRecord /\ y.c = x.c /\ y.eof = Len(x.c) /\ y.active = NoTransfer
    <3>1. y = [x EXCEPT !.eof = Len(x.c), !.active = NoTransfer] /\ Len(x.c) \in Nat
      BY <1>1, <2>6
    <3> HIDE DEF y
    <3> QED  BY <1>1, <3>1 DEF FileRecord
  <2> HIDE DEF y
  <2>8. y.eof <= Len(y.c) /\ [f |-> f, c |-> SubSeq(y.c, 1, y.eof)] \in versions[p]
    BY <1>1, <2>5, <2>7
  <2>9. y \in WholeFile(f)
    BY <2>7, <2>8 DEF WholeFile
  <2> QED  BY <2>9 DEF y
<1>4. CASE x.eof # Len(x.c) /\ x.c # x.active.v.c
  <2> DEFINE d == SubSeq(x.c, 1, x.eof)
  <2>1. Flush(x) = [x EXCEPT !.c = d]
    BY <1>4 DEF Flush
  <2>2. x.eof \in 0 .. Len(x.c)
    BY <1>1
  <2>3. d \in Seq(Nat) /\ Len(d) = x.eof /\ \A i \in 1 .. x.eof : d[i] = x.c[i]
    BY <1>1, <2>2, PrefixFacts
  <2>4. SubSeq(d, 1, x.eof) = SubSeq(x.c, 1, x.eof)
    BY <1>1, <2>2, <2>3, SamePrefix
  <2> HIDE DEF d
  <2> DEFINE y == Flush(x)
  <2>5. y \in FileRecord /\ y.c = d /\ y.eof = x.eof /\ y.active = x.active
    <3>1. y = [x EXCEPT !.c = d]
      BY <2>1
    <3> HIDE DEF y
    <3> QED  BY <1>1, <2>3, <3>1 DEF FileRecord
  <2> HIDE DEF y
  <2>6. y \in WholeFile(f)
    <3>1. SubSeq(y.c, 1, y.eof) = SubSeq(x.c, 1, x.eof) /\ y.eof <= Len(y.c)
      BY <1>1, <2>3, <2>4, <2>5
    <3> QED  BY <1>1, <2>5, <3>1 DEF WholeFile
  <2> QED  BY <2>6 DEF y
<1> QED  BY <1>2, <1>3, <1>4

\* appendAt leaves what is committed as it is, whatever the block and wherever it starts.
LEMMA AppendAtFacts ==
    ASSUME TransferBounds, VersionTypes, NEW f \in Files, NEW x \in WholeFile(f),
           NEW off \in Nat, NEW data \in Seq(Nat)
    PROVE  AppendAt(x, off, data) \in WholeFile(f)
<1> DEFINE tail == SubSeq(data, Len(x.c) - off + 1, Len(data))
           y == [x EXCEPT !.c = @ \o tail]
<1>1. /\ x \in FileRecord /\ x.eof <= Len(x.c) /\ x.c \in Seq(Nat) /\ x.eof \in Nat
      /\ x.active # NoTransfer => x.active.v.f = f
      /\ x.eof > 0 => \E p \in Peers : [f |-> f, c |-> SubSeq(x.c, 1, x.eof)] \in versions[p]
  BY DEF WholeFile, FileRecord
<1>2. ASSUME ~ (off > Len(x.c)) PROVE y \in WholeFile(f)
  <2>1. tail \in Seq(Nat)
    <3>1. Len(x.c) - off + 1 \in Nat \ {0} /\ Len(data) \in Nat
      BY <1>1, <1>2
    <3>2. \A i \in 1 .. Len(data) : data[i] \in Nat
      OBVIOUS
    <3> QED  BY <3>1, <3>2
  <2> DEFINE d == x.c \o tail
  <2>2. d \in Seq(Nat) /\ Len(d) >= Len(x.c) /\ \A i \in 1 .. Len(x.c) : d[i] = x.c[i]
    <3> HIDE DEF tail
    <3>1. Len(tail) \in Nat /\ Len(x.c) \in Nat
      BY <1>1, <2>1
    <3> QED  BY <1>1, <2>1, <3>1, ConcatProperties
  <2>3. SubSeq(d, 1, x.eof) = SubSeq(x.c, 1, x.eof)
    <3> HIDE DEF d
    <3>1. Len(d) \in Nat /\ Len(x.c) \in Nat
      BY <1>1, <2>2
    <3>2. x.eof \in 0 .. Len(d) /\ \A i \in 1 .. x.eof : i \in 1 .. Len(x.c)
      BY <1>1, <2>2, <3>1
    <3> QED  BY <1>1, <2>2, <3>1, <3>2, SamePrefix
  <2>4. y = [x EXCEPT !.c = d]
    OBVIOUS
  <2> HIDE DEF d, y
  <2>5. y \in FileRecord /\ y.c = d /\ y.eof = x.eof /\ y.active = x.active
    BY <1>1, <2>2, <2>4 DEF FileRecord
  <2>6. x.eof <= Len(d)
    BY <1>1, <2>2
  <2> QED  BY <1>1, <2>3, <2>5, <2>6 DEF WholeFile
<1>3. y.active = x.active
  BY <1>1 DEF FileRecord
<1>4. AppendAt(x, off, data) = IF off > Len(x.c) THEN x
                               ELSE IF x.active # NoTransfer /\ Length(x.active.v) = Len(y.c) THEN Flush(y) ELSE y
  BY DEF AppendAt
<1> HIDE DEF y
<1> QED  BY <1>2, <1>3, <1>4, FlushFacts

-----------------------------------------------------------------------------
(* A turn of the loop that starts transfers changes no file's bytes.       *)
Walks(p) == [files : WholeFiles, peer : PeerRecord(p), msgs : Seq(Request), i : Nat \ {0}]

\* A sequence without one of its elements.
LEMMA RemoveAtFacts ==
    ASSUME NEW M, NEW s \in Seq(M), NEW i \in 1 .. Len(s)
    PROVE  RemoveAt(s, i) \in Seq(M)
<1>1. Len(s) \in Nat /\ \A j \in 1 .. Len(s) : s[j] \in M
  OBVIOUS
<1>2. SubSeq(s, 1, i - 1) \in Seq(M)
  BY <1>1, SubSeqProperties
<1>3. SubSeq(s, i + 1, Len(s)) \in Seq(M)
  BY <1>1, SubSeqProperties
<1> QED  BY <1>2, <1>3, ConcatProperties DEF RemoveAt

\* A transfer is of a file that I know.
LEMMA OfferFacts ==
    ASSUME TransferBounds, VersionTypes, NEW p \in Peers, NEW t \in Offers(p)
    PROVE  /\ t \in AllOffers /\ t.v.f \in Files /\ Length(t.v) \in Nat
<1>1. t.v \in AllVersions
  BY DEF Offers, VersionTypes
<1> QED  BY <1>1, VersionFacts DEF AllOffers, TransferBounds

\* One turn of nextTransfer: only the active transfer of a file changes, to one of the peer's.
LEMMA TurnFacts ==
    ASSUME TransferBounds, VersionTypes, NEW p \in Peers, NEW s \in Walks(p)
    PROVE  Turn(s) \in Walks(p)
<1> DEFINE t == s.peer.possible[s.i]
           x == s.files[t.v.f]
           len == Length(t.v) - x.eof
           Stops == s.peer.requested - s.peer.received > MaxRequest \/ s.i > Len(s.peer.possible)
           Starts == [s EXCEPT !.i = @ + 1, !.files[t.v.f].active = t, !.peer.requested = @ + len,
                               !.msgs = Append(@, RequestBlock(t.v.f, x.eof, len))]
<1>1. Turn(s) = IF Stops THEN s
                ELSE IF len <= 0 THEN [s EXCEPT !.peer.possible = RemoveAt(@, s.i)]
                ELSE IF x.active # NoTransfer THEN [s EXCEPT !.i = @ + 1]
                ELSE Starts
  BY DEF Turn
<1>2. s.files \in WholeFiles /\ s.peer \in PeerRecord(p) /\ s.msgs \in Seq(Request) /\ s.i \in Nat \ {0}
  BY DEF Walks
<1>3. s.peer.possible \in Seq(Offers(p)) /\ s.peer.requested \in Int /\ s.peer.received \in Int
  BY <1>2 DEF PeerRecord
<1>4. ASSUME ~Stops
      PROVE  /\ s.i \in 1 .. Len(s.peer.possible) /\ t \in Offers(p) /\ t \in AllOffers /\ t.v.f \in Files
             /\ Length(t.v) \in Nat /\ x \in WholeFile(t.v.f) /\ x \in FileRecord /\ x.eof \in Nat
  <2>1. s.i \in 1 .. Len(s.peer.possible)
    BY <1>2, <1>3, <1>4
  <2>2. t \in Offers(p)
    BY <1>3, <2>1
  <2> HIDE DEF t
  <2>3. t \in AllOffers /\ t.v.f \in Files /\ Length(t.v) \in Nat
    BY <2>2, OfferFacts
  <2>4. x \in WholeFile(t.v.f)
    BY <1>2, <2>3 DEF WholeFiles
  <2>5. x \in FileRecord /\ x.eof \in Nat
    BY <2>4 DEF WholeFile, FileRecord
  <2> QED  BY <2>1, <2>2, <2>3, <2>4, <2>5 DEF t
<1>5. CASE Stops
  BY <1>1, <1>5
<1>6. CASE ~Stops /\ len <= 0
  <2> DEFINE rest == RemoveAt(s.peer.possible, s.i)
  <2>1. rest \in Seq(Offers(p))
    BY <1>3, <1>4, <1>6, RemoveAtFacts
  <2>2. Turn(s) = [s EXCEPT !.peer = [s.peer EXCEPT !.possible = rest]]
    <3>1. Turn(s) = [s EXCEPT !.peer.possible = RemoveAt(@, s.i)]
      BY <1>1, <1>6
    <3> QED  BY <3>1
  <2> HIDE DEF rest, t, x, len, Stops, Starts
  <2>3. [s.peer EXCEPT !.possible = rest] \in PeerRecord(p)
    BY <1>2, <2>1 DEF PeerRecord
  <2> QED  BY <1>2, <2>2, <2>3 DEF Walks
<1>7. CASE ~Stops /\ ~ (len <= 0) /\ x.active # NoTransfer
  <2>1. Turn(s) = [s EXCEPT !.i = s.i + 1]
    BY <1>1, <1>7
  <2> HIDE DEF t, x, len, Stops, Starts
  <2> QED  BY <1>2, <2>1 DEF Walks
<1>8. CASE ~Stops /\ ~ (len <= 0) /\ ~ (x.active # NoTransfer)
  <2> DEFINE y == [x EXCEPT !.active = t]
             g == [s.files EXCEPT ![t.v.f] = y]
             h == [s.peer EXCEPT !.requested = @ + len]
             m == RequestBlock(t.v.f, x.eof, len)
  <2>1. Turn(s) = [s EXCEPT !.i = s.i + 1, !.files = g, !.peer = h, !.msgs = Append(s.msgs, m)]
    <3>1. Turn(s) = Starts
      BY <1>1, <1>8
    <3> QED  BY <3>1
  <2>2. len \in Nat
    <3>1. Length(t.v) \in Nat /\ x.eof \in Nat /\ ~ (len <= 0)
      BY <1>4, <1>8
    <3> HIDE DEF t, x
    <3> QED  BY <3>1
  <2>3. m \in Request
    BY <1>4, <1>8, <2>2 DEF RequestBlock, Request
  <2>4. h \in PeerRecord(p)
    <3> HIDE DEF len
    <3> QED  BY <1>2, <1>3, <2>2 DEF PeerRecord
  <2>5. y \in WholeFile(t.v.f)
    <3>1. t \in AllOffers /\ x \in WholeFile(t.v.f) /\ x \in FileRecord
      BY <1>4, <1>8
    <3> HIDE DEF t, x
    <3>2. y \in FileRecord /\ y.c = x.c /\ y.eof = x.eof /\ y.active = t
      BY <3>1 DEF FileRecord
    <3> HIDE DEF y
    <3>3. /\ x.eof <= Len(x.c)
          /\ x.eof > 0 => \E r \in Peers : [f |-> t.v.f, c |-> SubSeq(x.c, 1, x.eof)] \in versions[r]
      BY <3>1 DEF WholeFile
    <3> QED  BY <3>2, <3>3 DEF WholeFile
  <2>6. g \in WholeFiles
    <3>1. t.v.f \in Files
      BY <1>4, <1>8
    <3> HIDE DEF t, y
    <3>2. y \in FileRecord
      BY <2>5 DEF WholeFile
    <3> QED  BY <1>2, <2>5, <3>1, <3>2 DEF WholeFiles
  <2>7. Append(s.msgs, m) \in Seq(Request)
    <3> HIDE DEF m
    <3> QED  BY <1>2, <2>3, AppendProperties
  <2> HIDE DEF t, x, len, Stops, Starts, y, g, h, m
  <2> DEFINE k == s.i + 1
             ms == Append(s.msgs, m)
  <2>8. k \in Nat \ {0} /\ ms \in Seq(Request)
    BY <1>2, <2>7
  <2> HIDE DEF k, ms
  <2>9. Turn(s) = [s EXCEPT !.i = k, !.files = g, !.peer = h, !.msgs = ms]
    BY <2>1 DEF k, ms
  <2> DEFINE r == [s EXCEPT !.i = k, !.files = g, !.peer = h, !.msgs = ms]
  <2>10. r \in Walks(p)
    BY <1>2, <2>4, <2>6, <2>8 DEF Walks
  <2> QED  BY <2>9, <2>10
<1> QED  BY <1>5, <1>6, <1>7, <1>8

\* So does the whole loop.
LEMMA NextTransferFacts ==
    ASSUME TransferBounds, VersionTypes, NEW p \in Peers, NEW s \in Walks(p), NEW r \in nextTransfer(s)
    PROVE  r \in Walks(p)
<1> DEFINE n == Len(s.peer.possible)
           X == Walks(p)
           a == {[s EXCEPT !.i = 1]}
           step(T) == {Turn(u) : u \in T}
           Is(f) == f = [i \in 0 .. n |-> IF i = 0 THEN a ELSE step(f[i - 1])]
           turns == CHOOSE f : Is(f)
<1>1. n \in Nat
  BY DEF Walks, PeerRecord
<1>2. a \in SUBSET X
  BY DEF Walks
<1>3. \A T \in SUBSET X : step(T) \in SUBSET X
  BY TurnFacts
<1>4. nextTransfer(s) = turns[n]
  BY DEF nextTransfer
<1> HIDE DEF n, X, a
<1>5. \E f : Is(f)
  <2> DEFINE E == [i \in 1 .. n |-> [T \in SUBSET X |-> step(T)]]
  <2>1. E \in [1 .. n -> [SUBSET X -> SUBSET X]]
    <3> HIDE DEF step
    <3> QED  BY <1>3
  <2>2. PICK f \in [0 .. n -> SUBSET X] : f[0] = a /\ \A i \in 1 .. n : f[i] = E[i][f[i - 1]]
    <3> HIDE DEF E
    <3>1. \E f \in [0 .. n -> SUBSET X] : Iterates(f, n, a, E)
      BY <1>1, <1>2, <2>1, LoopExists
    <3> QED  BY <3>1 DEF Iterates
  <2> HIDE DEF step
  <2>3. \A i \in 1 .. n : f[i - 1] \in SUBSET X
    BY <1>1, <2>2
  <2>4. \A i \in 1 .. n : f[i] = step(f[i - 1])
    BY <2>2, <2>3
  <2>5. \A i \in 0 .. n : i = 0 \/ i \in 1 .. n
    BY <1>1
  <2>6. f = [i \in 0 .. n |-> f[i]]
    BY <2>2
  <2>7. f = [i \in 0 .. n |-> IF i = 0 THEN a ELSE step(f[i - 1])]
    BY <1>1, <2>2, <2>4, <2>5, <2>6
  <2> QED  BY <2>7
<1>6. Is(turns)
  BY <1>5
<1> HIDE DEF turns, step
<1>7. turns[0] = a /\ \A i \in 1 .. n : turns[i] = step(turns[i - 1])
  <2>1. \A i \in 0 .. n : turns[i] = IF i = 0 THEN a ELSE step(turns[i - 1])
    BY <1>6
  <2>2. 0 \in 0 .. n /\ \A i \in 1 .. n : i \in 0 .. n /\ i # 0
    BY <1>1
  <2> QED  BY <2>1, <2>2, Zenon
<1> DEFINE G == {i \in 0 .. n : turns[i] \in SUBSET X}
<1>8. 0 \in G
  BY <1>1, <1>2, <1>7
<1>9. ASSUME NEW i \in 1 .. n, i - 1 \in G PROVE i \in G
  BY <1>1, <1>3, <1>7, <1>9
<1>10. n \in G
  <2> HIDE DEF G
  <2>1. \A i \in 0 .. n : i \in G
    BY <1>1, <1>8, <1>9, Climb
  <2> QED  BY <1>1, <2>1
<1> QED  BY <1>4, <1>10 DEF X

-----------------------------------------------------------------------------
(* What is written to a connection is what was queued, or a part of it.    *)
LEMMA WriteOneFacts ==
    ASSUME NEW M, \A m \in M : Written(m) \in M /\ Remains(m) \in Seq(M),
           NEW s \in [queue : Seq(M), wire : Seq(M)], NEW r \in WriteOne(s)
    PROVE  r \in [queue : Seq(M), wire : Seq(M)]
<1>1. CASE s.queue = << >> \/ Len(s.wire) >= WireCap
  BY <1>1 DEF WriteOne
<1>2. CASE ~ (s.queue = << >> \/ Len(s.wire) >= WireCap)
  <2>1. PICK i \in Urgent(s.queue) :
           r = [queue |-> Remains(s.queue[i]) \o RemoveAt(s.queue, i), wire |-> Append(s.wire, Written(s.queue[i]))]
    BY <1>2 DEF WriteOne
  <2>2. s.queue \in Seq(M) /\ s.wire \in Seq(M) /\ i \in 1 .. Len(s.queue)
    BY DEF Urgent
  <2>3. s.queue[i] \in M
    BY <2>2
  <2>4. RemoveAt(s.queue, i) \in Seq(M)
    BY <2>2, RemoveAtFacts
  <2>5. Written(s.queue[i]) \in M /\ Remains(s.queue[i]) \in Seq(M)
    BY <2>3
  <2>6. Remains(s.queue[i]) \o RemoveAt(s.queue, i) \in Seq(M)
    BY <2>4, <2>5, ConcatProperties
  <2>7. Append(s.wire, Written(s.queue[i])) \in Seq(M)
    BY <2>2, <2>5, AppendProperties
  <2> QED  BY <2>1, <2>6, <2>7
<1> QED  BY <1>1, <1>2

\* So are as many as fit.
LEMMA FillFacts ==
    ASSUME TransferBounds, NEW M, \A m \in M : Written(m) \in M /\ Remains(m) \in Seq(M),
           NEW s \in [queue : Seq(M), wire : Seq(M)], NEW r \in Fill(s)
    PROVE  r.queue \in Seq(M) /\ r.wire \in Seq(M)
<1> DEFINE n == WireCap
           X == [queue : Seq(M), wire : Seq(M)]
           a == {s}
           step(T) == UNION {WriteOne(u) : u \in T}
           Is(f) == f = [i \in 0 .. n |-> IF i = 0 THEN a ELSE step(f[i - 1])]
           filled == CHOOSE f : Is(f)
<1>1. n \in Nat
  BY DEF TransferBounds
<1>2. a \in SUBSET X
  OBVIOUS
<1>3. \A T \in SUBSET X : step(T) \in SUBSET X
  <2>1. \A u \in X : \A v \in WriteOne(u) : v \in X
    BY WriteOneFacts
  <2> HIDE DEF X
  <2> QED  BY <2>1
<1>4. Fill(s) = filled[n]
  BY DEF Fill
<1> HIDE DEF n, X, a
<1>5. \E f : Is(f)
  <2> DEFINE E == [i \in 1 .. n |-> [T \in SUBSET X |-> step(T)]]
  <2>1. E \in [1 .. n -> [SUBSET X -> SUBSET X]]
    <3> HIDE DEF step
    <3> QED  BY <1>3
  <2>2. PICK f \in [0 .. n -> SUBSET X] : f[0] = a /\ \A i \in 1 .. n : f[i] = E[i][f[i - 1]]
    <3> HIDE DEF E
    <3>1. \E f \in [0 .. n -> SUBSET X] : Iterates(f, n, a, E)
      BY <1>1, <1>2, <2>1, LoopExists
    <3> QED  BY <3>1 DEF Iterates
  <2> HIDE DEF step
  <2>3. \A i \in 1 .. n : f[i - 1] \in SUBSET X
    BY <1>1, <2>2
  <2>4. \A i \in 1 .. n : f[i] = step(f[i - 1])
    BY <2>2, <2>3
  <2>5. \A i \in 0 .. n : i = 0 \/ i \in 1 .. n
    BY <1>1
  <2>6. f = [i \in 0 .. n |-> f[i]]
    BY <2>2
  <2>7. f = [i \in 0 .. n |-> IF i = 0 THEN a ELSE step(f[i - 1])]
    BY <1>1, <2>2, <2>4, <2>5, <2>6
  <2> QED  BY <2>7
<1>6. Is(filled)
  BY <1>5
<1> HIDE DEF filled, step
<1>7. filled[0] = a /\ \A i \in 1 .. n : filled[i] = step(filled[i - 1])
  <2>1. \A i \in 0 .. n : filled[i] = IF i = 0 THEN a ELSE step(filled[i - 1])
    BY <1>6
  <2>2. 0 \in 0 .. n /\ \A i \in 1 .. n : i \in 0 .. n /\ i # 0
    BY <1>1
  <2> QED  BY <2>1, <2>2, Zenon
<1> DEFINE G == {i \in 0 .. n : filled[i] \in SUBSET X}
<1>8. 0 \in G
  BY <1>1, <1>2, <1>7
<1>9. ASSUME NEW i \in 1 .. n, i - 1 \in G PROVE i \in G
  BY <1>1, <1>3, <1>7, <1>9
<1>10. n \in G
  <2> HIDE DEF G
  <2>1. \A i \in 0 .. n : i \in G
    BY <1>1, <1>8, <1>9, Climb
  <2> QED  BY <1>1, <2>1
<1>11. r \in X
  BY <1>4, <1>10
<1> QED  BY <1>11 DEF X

\* A part of a block is a block.
LEMMA CarriedFacts ==
    ASSUME TransferBounds, NEW ch, NEW m \in Carried(ch)
    PROVE  Written(m) \in Carried(ch) /\ Remains(m) \in Seq(Carried(ch))
<1>1. CASE ~ (m.t = "FileBlock" /\ Len(m.data) > Chunk)
  <2>1. Written(m) = m /\ Remains(m) = << >>
    BY <1>1 DEF Written, Remains
  <2>2. << >> \in Seq(Carried(ch))
    BY EmptySeq
  <2> QED  BY <2>1, <2>2, Zenon
<1>2. CASE m.t = "FileBlock" /\ Len(m.data) > Chunk
  <2>1. ch[1] # "to" /\ m \in Block
    BY <1>2 DEF Carried, Request, Block
  <2>2. \A b \in Block : b \in Carried(ch)
    BY <2>1 DEF Carried
  <2>3. Chunk \in Nat \ {0} /\ m.data \in Seq(Nat) /\ m.off \in Nat
    BY <2>1 DEF TransferBounds, Block
  <2> DEFINE d == SubSeq(m.data, 1, Chunk)
             e == SubSeq(m.data, Chunk + 1, Len(m.data))
             o == m.off + Chunk
  <2>4. d \in Seq(Nat) /\ e \in Seq(Nat) /\ o \in Nat
    <3>1. Len(m.data) \in Nat /\ \A i \in 1 .. Len(m.data) : m.data[i] \in Nat
      BY <2>3
    <3> QED  BY <1>2, <2>3, <3>1, SubSeqProperties
  <2>5. Written(m) = [m EXCEPT !.data = d] /\ Remains(m) = <<[m EXCEPT !.off = o, !.data = e]>>
    BY <1>2 DEF Written, Remains
  <2> HIDE DEF d, e, o
  <2>6. [m EXCEPT !.data = d] \in Block /\ [m EXCEPT !.off = o, !.data = e] \in Block
    BY <2>1, <2>4 DEF Block
  <2>7. Written(m) \in Carried(ch)
    BY <2>2, <2>5, <2>6
  <2>8. Remains(m) \in Seq(Carried(ch))
    <3> DEFINE b == [m EXCEPT !.off = o, !.data = e]
    <3>1. b \in Carried(ch) /\ Remains(m) = <<b>>
      BY <2>2, <2>5, <2>6
    <3> HIDE DEF b
    <3> QED  BY <3>1
  <2> QED  BY <2>7, <2>8
<1> QED  BY <1>1, <1>2

(* The messages of the next state, for the versions of this one.           *)
Sends ==
    /\ DOMAIN q' = Channels /\ DOMAIN wire' = Channels
    /\ \A ch \in Channels : q'[ch] \in Seq(Carried(ch)) /\ wire'[ch] \in Seq(Carried(ch))

\* The two directions of a connection.
LEMMA ChannelFacts ==
    ASSUME NEW p \in Peers
    PROVE  /\ ToPeer(p) \in Channels /\ FromPeer(p) \in Channels /\ ToPeer(p) # FromPeer(p)
           /\ Carried(ToPeer(p)) = Request \cup [t : {"REQ_METADATA"}, v : AllVersions]
           /\ Carried(FromPeer(p)) = Block \cup [t : {"SEND_METADATA"}, v : versions[p]]
BY DEF ToPeer, FromPeer, Channels, Carried

\* Queueing a message.
LEMMA SendFacts ==
    ASSUME TransferBounds, Messages, NEW ch \in Channels, NEW msgs \in Seq(Carried(ch)), Send(ch, msgs)
    PROVE  Sends
<1> DEFINE M == Carried(ch)
           s == [queue |-> q[ch] \o msgs, wire |-> wire[ch]]
<1>1. PICK r \in Fill(s) : q' = [q EXCEPT ![ch] = r.queue] /\ wire' = [wire EXCEPT ![ch] = r.wire]
  BY DEF Send
<1>2. s \in [queue : Seq(M), wire : Seq(M)]
  <2>1. q[ch] \in Seq(M) /\ wire[ch] \in Seq(M)
    BY DEF Messages
  <2>2. q[ch] \o msgs \in Seq(M)
    BY <2>1, ConcatProperties
  <2> QED  BY <2>1, <2>2
<1>3. r.queue \in Seq(M) /\ r.wire \in Seq(M)
  <2>1. \A m \in M : Written(m) \in M /\ Remains(m) \in Seq(M)
    BY CarriedFacts
  <2> HIDE DEF M, s
  <2> QED  BY <1>1, <1>2, <2>1, FillFacts
<1> HIDE DEF s
<1> QED  BY <1>1, <1>3 DEF Messages, Sends

\* Reading a message and queueing answers.
LEMMA AnswerFacts ==
    ASSUME TransferBounds, Messages, NEW ch \in Channels, NEW other \in Channels, ch # other,
           wire[ch] # << >>, NEW msgs \in Seq(Carried(other)), Answer(ch, other, msgs)
    PROVE  Sends
<1> DEFINE M == Carried(ch)
           N == Carried(other)
           s == [queue |-> q[ch], wire |-> Tail(wire[ch])]
           u == [queue |-> q[other] \o msgs, wire |-> wire[other]]
<1>1. PICK x \in Fill(s), r \in Fill(u) :
         /\ q' = [q EXCEPT ![ch] = x.queue, ![other] = r.queue]
         /\ wire' = [wire EXCEPT ![ch] = x.wire, ![other] = r.wire]
  BY DEF Answer
<1>2. s \in [queue : Seq(M), wire : Seq(M)]
  <2>1. q[ch] \in Seq(M) /\ wire[ch] \in Seq(M)
    BY DEF Messages
  <2>2. Tail(wire[ch]) \in Seq(M)
    BY <2>1, HeadTailProperties
  <2> QED  BY <2>1, <2>2
<1>3. u \in [queue : Seq(N), wire : Seq(N)]
  <2>1. q[other] \in Seq(N) /\ wire[other] \in Seq(N)
    BY DEF Messages
  <2>2. q[other] \o msgs \in Seq(N)
    BY <2>1, ConcatProperties
  <2> QED  BY <2>1, <2>2
<1>4. x.queue \in Seq(M) /\ x.wire \in Seq(M)
  <2>1. \A m \in M : Written(m) \in M /\ Remains(m) \in Seq(M)
    BY CarriedFacts
  <2> HIDE DEF M, s
  <2> QED  BY <1>1, <1>2, <2>1, FillFacts
<1>5. r.queue \in Seq(N) /\ r.wire \in Seq(N)
  <2>1. \A m \in N : Written(m) \in N /\ Remains(m) \in Seq(N)
    BY CarriedFacts
  <2> HIDE DEF N, u
  <2> QED  BY <1>1, <1>3, <2>1, FillFacts
<1> HIDE DEF s, u
<1> QED  BY <1>1, <1>4, <1>5 DEF Messages, Sends

(* The versions of a peer only grow, and with them what may be in a file,  *)
(* in a peer's list and in a message.                                      *)
Grows == \A p \in Peers : versions[p] \subseteq versions'[p]

\* A larger set of versions allows what a smaller one did.
LEMMA Monotone ==
    ASSUME Grows
    PROVE  /\ \A g \in WholeFiles : g \in WholeFiles'
           /\ \A p \in Peers : \A x \in PeerRecord(p) : x \in PeerRecord(p)'
           /\ \A ch \in Channels : \A s \in Seq(Carried(ch)) : s \in Seq(Carried(ch)')
<1>1. \A p \in Peers : \A t \in Offers(p) : t \in Offers(p)'
  BY DEF Grows, Offers
<1>2. \A t \in AllOffers : t \in AllOffers'
  <2> SUFFICES ASSUME NEW t \in AllOffers PROVE t \in AllOffers'
    OBVIOUS
  <2>1. PICK p \in Peers : t \in Offers(p)
    BY DEF AllOffers
  <2>2. t \in Offers(p)'
    BY <1>1, <2>1
  <2> QED  BY <2>2 DEF AllOffers
<1>3. \A x \in FileRecord : x \in FileRecord'
  BY <1>2 DEF FileRecord
<1>4. \A f \in Files : \A x \in WholeFile(f) : x \in WholeFile(f)'
  <2> SUFFICES ASSUME NEW f \in Files, NEW x \in WholeFile(f) PROVE x \in WholeFile(f)'
    OBVIOUS
  <2>1. x \in FileRecord'
    BY <1>3 DEF WholeFile
  <2>2. /\ x.eof <= Len(x.c)
        /\ x.active # NoTransfer => x.active.v.f = f
        /\ x.eof > 0 => \E p \in Peers : [f |-> f, c |-> SubSeq(x.c, 1, x.eof)] \in versions'[p]
    BY DEF WholeFile, Grows
  <2> QED  BY <2>1, <2>2 DEF WholeFile
<1>5. \A g \in WholeFiles : g \in WholeFiles'
  <2> SUFFICES ASSUME NEW g \in WholeFiles PROVE g \in WholeFiles'
    OBVIOUS
  <2>1. g \in [Files -> FileRecord] /\ \A f \in Files : g[f] \in WholeFile(f)
    BY DEF WholeFiles
  <2>2. g \in [Files -> FileRecord'] /\ \A f \in Files : g[f] \in WholeFile(f)'
    BY <1>3, <1>4, <2>1
  <2> QED  BY <2>2 DEF WholeFiles
<1>6. \A p \in Peers : \A x \in PeerRecord(p) : x \in PeerRecord(p)'
  <2> SUFFICES ASSUME NEW p \in Peers, NEW x \in PeerRecord(p) PROVE x \in PeerRecord(p)'
    OBVIOUS
  <2>1. x.possible \in Seq(Offers(p)')
    <3>1. x.possible \in Seq(Offers(p))
      BY DEF PeerRecord
    <3> QED  BY <1>1, <3>1, SeqDef
  <2> QED  BY <2>1 DEF PeerRecord
<1>7. \A ch \in Channels : \A s \in Seq(Carried(ch)) : s \in Seq(Carried(ch)')
  <2> SUFFICES ASSUME NEW ch \in Channels, NEW s \in Seq(Carried(ch)) PROVE s \in Seq(Carried(ch)')
    OBVIOUS
  <2>1. \A m \in Carried(ch) : m \in Carried(ch)'
    BY DEF Carried, Channels, Grows, Request, Block
  <2> QED  BY <2>1, SeqDef
<1> QED  BY <1>5, <1>6, <1>7

\* So the next state may be judged by the versions of this one.
LEMMA Preserved ==
    ASSUME VersionTypes', Grows, files' \in WholeFiles, Sends, late' \in Seq(Block),
           DOMAIN peer' = Peers, \A p \in Peers : peer'[p] \in PeerRecord(p)
    PROVE  TransferInv'
<1>1. FileTypes'
  BY Monotone DEF FileTypes
<1>2. PeerTypes'
  BY Monotone DEF PeerTypes
<1>3. MessageTypes'
  <2>1. late' \in Seq(Block')
    BY DEF Block
  <2>2. Messages'
    BY Monotone DEF Messages, Sends
  <2> QED  BY <2>1, <2>2 DEF MessageTypes
<1> QED  BY <1>1, <1>2, <1>3 DEF TransferInv

\* Most steps leave the versions alone.
LEMMA SameVersions ==
    ASSUME VersionTypes, versions' = versions, todo' \in [Peers -> SUBSET AllVersions]
    PROVE  VersionTypes' /\ Grows
<1>1. AllVersions' = AllVersions
  BY DEF AllVersions, Version, Copy
<1>2. versions' \in [Peers -> SUBSET AllVersions] /\ Grows
  BY DEF VersionTypes, Grows
<1> QED  BY <1>1, <1>2 DEF VersionTypes

\* The blocks that a dead connection still delivers.
LEMMA BlocksFacts ==
    ASSUME NEW p \in Peers, NEW w \in Seq(Carried(FromPeer(p)))
    PROVE  Blocks(w) \in Seq(Block)
<1> DEFINE n == Len(w)
           X == Seq(Block)
           step(i, u) == IF w[i].t = "FileBlock" THEN Append(u, w[i]) ELSE u
           Is(f) == f = [i \in 0 .. n |->
                           IF i = 0 THEN << >>
                           ELSE IF w[i].t = "FileBlock" THEN Append(f[i - 1], w[i]) ELSE f[i - 1]]
           blocks == CHOOSE f : Is(f)
<1>1. n \in Nat /\ << >> \in X
  BY EmptySeq
<1>2. \A i \in 1 .. n : \A u \in X : step(i, u) \in X
  <2> SUFFICES ASSUME NEW i \in 1 .. n, NEW u \in X PROVE step(i, u) \in X
    OBVIOUS
  <2>1. w[i] \in Carried(FromPeer(p))
    OBVIOUS
  <2>2. w[i].t = "FileBlock" => w[i] \in Block
    BY <2>1, ChannelFacts
  <2>3. w[i] \in Block => Append(u, w[i]) \in X
    BY AppendProperties
  <2> QED  BY <2>2, <2>3
<1>3. Blocks(w) = blocks[n]
  BY DEF Blocks
<1>4. \E f : Is(f)
  <2> DEFINE E == [i \in 1 .. n |-> [u \in X |-> step(i, u)]]
  <2>1. E \in [1 .. n -> [X -> X]]
    <3> HIDE DEF step, X, n
    <3> QED  BY <1>2
  <2>2. PICK f \in [0 .. n -> X] : f[0] = << >> /\ \A i \in 1 .. n : f[i] = E[i][f[i - 1]]
    <3> HIDE DEF E, X, n
    <3>1. \E f \in [0 .. n -> X] : Iterates(f, n, << >>, E)
      BY <1>1, <2>1, LoopExists
    <3> QED  BY <3>1 DEF Iterates
  <2> HIDE DEF X, n
  <2>3. \A i \in 1 .. n : f[i - 1] \in X
    BY <1>1, <2>2
  <2>4. \A i \in 1 .. n : f[i] = IF w[i].t = "FileBlock" THEN Append(f[i - 1], w[i]) ELSE f[i - 1]
    BY <2>2, <2>3
  <2>5. \A i \in 0 .. n : i = 0 \/ i \in 1 .. n
    BY <1>1
  <2>6. f = [i \in 0 .. n |-> f[i]]
    BY <2>2
  <2>7. Is(f)
    BY <1>1, <2>2, <2>4, <2>5, <2>6
  <2> QED  BY <2>7
<1>5. Is(blocks)
  BY <1>4
<1> HIDE DEF blocks, X, n
<1>6. blocks[0] = << >> /\ \A i \in 1 .. n : blocks[i] = step(i, blocks[i - 1])
  <2>1. \A i \in 0 .. n :
           blocks[i] = IF i = 0 THEN << >>
                       ELSE IF w[i].t = "FileBlock" THEN Append(blocks[i - 1], w[i]) ELSE blocks[i - 1]
    BY <1>5
  <2>2. 0 \in 0 .. n /\ \A i \in 1 .. n : i \in 0 .. n /\ i # 0
    BY <1>1
  <2> QED  BY <2>1, <2>2, Zenon
<1> HIDE DEF step
<1> DEFINE G == {i \in 0 .. n : blocks[i] \in X}
<1>7. 0 \in G
  BY <1>1, <1>6
<1>8. ASSUME NEW i \in 1 .. n, i - 1 \in G PROVE i \in G
  BY <1>1, <1>2, <1>6, <1>8
<1>9. n \in G
  <2> HIDE DEF G
  <2>1. \A i \in 0 .. n : i \in G
    BY <1>1, <1>7, <1>8, Climb
  <2> QED  BY <1>1, <2>1
<1> QED  BY <1>3, <1>9 DEF X

-----------------------------------------------------------------------------
(* One lemma for each action.                                              *)
LEMMA QuietSends == ASSUME Messages, UNCHANGED <<q, wire>> PROVE Sends
BY DEF Messages, Sends

\* A message that arrives is one that the channel carries.
LEMMA HeadFacts ==
    ASSUME Messages, NEW ch \in Channels, NEW type, Arrives(ch, type)
    PROVE  wire[ch] # << >> /\ Head(wire[ch]) \in Carried(ch) /\ Head(wire[ch]).t = type
<1>1. wire[ch] \in Seq(Carried(ch)) /\ wire[ch] # << >> /\ Head(wire[ch]).t = type
  BY DEF Messages, Arrives
<1> QED  BY <1>1, HeadTailProperties

\* A connection that is cut carries nothing.
LEMMA CutFacts == ASSUME Messages, NEW p \in Peers, Cut(p) PROVE Sends
<1>1. \A ch \in Channels : << >> \in Seq(Carried(ch))
  BY EmptySeq
<1> QED  BY <1>1, ChannelFacts DEF Messages, Sends, Cut

\* The state in which a handler begins.
LEMMA StateFacts == ASSUME TransferInv, NEW p \in Peers PROVE State(p) \in Walks(p)
<1>1. << >> \in Seq(Request)
  BY EmptySeq
<1> QED  BY <1>1 DEF State, Walks, TransferInv, FileTypes, PeerTypes

\* Reconciliation reports a version.
LEMMA DifferenceKeeps ==
    ASSUME TransferBounds, TransferInv, NEW p \in Peers, Difference(p)
    PROVE  TransferInv'
<1>1. VersionTypes /\ FileTypes /\ PeerTypes /\ MessageTypes /\ Messages
  BY DEF TransferInv, MessageTypes
<1>2. PICK v \in todo[p] : process_difference(p, v) \/ Settled(p, v)
  BY DEF Difference
<1>3. v \in AllVersions
  BY <1>1 DEF VersionTypes
<1>4. Sends
  <2>1. CASE process_difference(p, v)
    <3>1. ReqMetadata(v) \in Carried(ToPeer(p))
      BY <1>3, ChannelFacts DEF ReqMetadata
    <3>2. <<ReqMetadata(v)>> \in Seq(Carried(ToPeer(p))) /\ ToPeer(p) \in Channels
      BY <3>1, ChannelFacts
    <3>3. Send(ToPeer(p), <<ReqMetadata(v)>>)
      BY <2>1 DEF process_difference
    <3> QED  BY <1>1, <3>2, <3>3, SendFacts
  <2>2. CASE Settled(p, v)
    BY <1>1, <2>2, QuietSends DEF Settled
  <2> QED  BY <1>2, <2>1, <2>2
<1>5. /\ versions' = versions /\ files' = files /\ peer' = peer /\ late' = late
      /\ todo' = [todo EXCEPT ![p] = @ \ {v}]
  BY <1>2 DEF process_difference, Settled
<1>6. todo' \in [Peers -> SUBSET AllVersions]
  BY <1>1, <1>5 DEF VersionTypes
<1>7. VersionTypes' /\ Grows
  BY <1>1, <1>5, <1>6, SameVersions
<1> QED  BY <1>1, <1>4, <1>5, <1>7, Preserved DEF FileTypes, PeerTypes, MessageTypes

\* The peer names a version that it has.
LEMMA SendMetadataKeeps ==
    ASSUME TransferBounds, TransferInv, NEW p \in Peers, send_metadata(p)
    PROVE  TransferInv'
<1>1. VersionTypes /\ FileTypes /\ PeerTypes /\ MessageTypes /\ Messages
  BY DEF TransferInv, MessageTypes
<1> DEFINE ch == ToPeer(p)
           v == Head(wire[ch]).v
           msgs == IF v \in versions[p] THEN <<SendMetadata(v)>> ELSE << >>
<1>2. /\ Arrives(ch, "REQ_METADATA") /\ Answer(ch, FromPeer(p), msgs)
      /\ UNCHANGED <<files, index, mine, versions, todo, peer, late, losses, deaths>>
  BY DEF send_metadata
<1>3. msgs \in Seq(Carried(FromPeer(p)))
  <2> HIDE DEF v
  <2>1. CASE v \in versions[p]
    <3>1. SendMetadata(v) \in Carried(FromPeer(p))
      BY <2>1, ChannelFacts DEF SendMetadata
    <3> QED  BY <2>1, <3>1
  <2>2. CASE v \notin versions[p]
    BY <2>2, EmptySeq
  <2> QED  BY <2>1, <2>2
<1>4. Sends
  <2> HIDE DEF msgs
  <2>1. ch \in Channels /\ FromPeer(p) \in Channels /\ ch # FromPeer(p)
    BY ChannelFacts
  <2>2. wire[ch] # << >>
    BY <1>2 DEF Arrives
  <2> HIDE DEF ch
  <2> QED  BY <1>1, <1>2, <1>3, <2>1, <2>2, AnswerFacts
<1>5. VersionTypes' /\ Grows
  BY <1>1, <1>2, SameVersions DEF VersionTypes
<1> QED  BY <1>1, <1>2, <1>4, <1>5, Preserved DEF FileTypes, PeerTypes, MessageTypes

\* The peer sends bytes of its file.
LEMMA RequestKeeps ==
    ASSUME TransferBounds, TransferInv, NEW p \in Peers, processRequest(p)
    PROVE  TransferInv'
<1>1. VersionTypes /\ FileTypes /\ PeerTypes /\ MessageTypes /\ Messages
  BY DEF TransferInv, MessageTypes
<1> DEFINE ch == ToPeer(p)
           m == Head(wire[ch])
           eof == EOF(p, m.f)
           len == Min({m.len, eof - m.off})
           data == SubSeq(Copy(p, eof), m.off + 1, m.off + len)
           msgs == IF len <= 0 THEN << >> ELSE <<FileBlock(m.f, m.off, data)>>
<1>2. /\ Arrives(ch, "RequestBlock") /\ Answer(ch, FromPeer(p), msgs)
      /\ UNCHANGED <<files, index, mine, versions, todo, peer, late, losses, deaths>>
  BY DEF processRequest
<1>3. ch \in Channels /\ FromPeer(p) \in Channels /\ ch # FromPeer(p)
  BY ChannelFacts
<1>4. m \in Request /\ wire[ch] # << >>
  <2>1. m \in Carried(ch) /\ m.t = "RequestBlock" /\ wire[ch] # << >>
    BY <1>1, <1>2, <1>3, HeadFacts
  <2> HIDE DEF m
  <2> QED  BY <2>1, ChannelFacts
<1> HIDE DEF m
<1>5. m.f \in Files /\ m.off \in Nat /\ m.len \in Nat /\ eof \in Nat
  <2>1. eof \in 0 .. MaxLen
    BY <1>1, EOFFacts
  <2> QED  BY <1>4, <2>1 DEF Request, TransferBounds
<1> HIDE DEF eof
<1>6. len \in {m.len, eof - m.off} /\ len <= eof - m.off
  <2> DEFINE a == m.len
             b == eof - m.off
  <2>1. a \in Int /\ b \in Int
    BY <1>5
  <2> HIDE DEF a, b
  <2>2. \E x \in {a, b} : \A y \in {a, b} : x =< y
    <3>1. a <= b \/ b <= a
      BY <2>1
    <3> QED  BY <2>1, <3>1
  <2>3. Min({a, b}) \in {a, b} /\ \A y \in {a, b} : Min({a, b}) =< y
    BY <2>2 DEF Min
  <2> QED  BY <2>3 DEF a, b
<1>7. msgs \in Seq(Carried(FromPeer(p)))
  <2>1. CASE len <= 0
    BY <2>1, EmptySeq
  <2>2. CASE ~ (len <= 0)
    <3>1. len \in Nat /\ m.off + len <= eof
      BY <1>5, <1>6, <2>2
    <3> HIDE DEF len
    <3>2. Copy(p, eof) \in Seq(Nat) /\ Len(Copy(p, eof)) = eof
      BY <1>5, CopyFacts
    <3>3. data \in Seq(Nat)
      <4> DEFINE c == Copy(p, eof)
                 i == m.off + 1
                 j == m.off + len
      <4>1. c \in Seq(Nat) /\ Len(c) = eof
        BY <3>2
      <4>2. i \in 1 .. Len(c) + 1 /\ j \in 0 .. Len(c)
        BY <1>5, <3>1, <3>2
      <4> HIDE DEF c, i, j
      <4>3. SubSeq(c, i, j) \in Seq(Nat)
        BY <4>1, <4>2, SubSeqProperties
      <4> QED  BY <4>3 DEF c, i, j
    <3> HIDE DEF data
    <3>4. FileBlock(m.f, m.off, data) \in Carried(FromPeer(p))
      BY <1>5, <3>3, ChannelFacts DEF FileBlock, Block
    <3> QED  BY <2>2, <3>4
  <2> QED  BY <2>1, <2>2
<1>8. Sends
  <2> HIDE DEF msgs, ch
  <2> QED  BY <1>1, <1>2, <1>3, <1>4, <1>7, AnswerFacts
<1>9. VersionTypes' /\ Grows
  BY <1>1, <1>2, SameVersions DEF VersionTypes
<1> QED  BY <1>1, <1>2, <1>8, <1>9, Preserved DEF FileTypes, PeerTypes, MessageTypes

(* What a walk over the transfers of p leaves behind is taken over.        *)
LEMMA WalkKeeps ==
    ASSUME TransferBounds, TransferInv, NEW p \in Peers, NEW s \in Walks(p), wire[FromPeer(p)] # << >>,
           files' = s.files, peer' = [peer EXCEPT ![p] = s.peer],
           Answer(FromPeer(p), ToPeer(p), s.msgs), UNCHANGED <<versions, todo, late>>
    PROVE  TransferInv'
<1>1. VersionTypes /\ FileTypes /\ PeerTypes /\ MessageTypes /\ Messages
  BY DEF TransferInv, MessageTypes
<1>2. s.files \in WholeFiles /\ s.peer \in PeerRecord(p) /\ s.msgs \in Seq(Request)
  BY DEF Walks
<1>3. s.msgs \in Seq(Carried(ToPeer(p)))
  <2>1. \A m \in Request : m \in Carried(ToPeer(p))
    BY ChannelFacts
  <2> QED  BY <1>2, <2>1, SeqDef
<1>4. Sends
  BY <1>1, <1>3, ChannelFacts, AnswerFacts
<1>5. DOMAIN peer' = Peers /\ \A r \in Peers : peer'[r] \in PeerRecord(r)
  BY <1>1, <1>2 DEF PeerTypes
<1>6. VersionTypes' /\ Grows
  BY <1>1, SameVersions DEF VersionTypes
<1> QED  BY <1>1, <1>2, <1>4, <1>5, <1>6, Preserved DEF MessageTypes

\* peerHas adds a transfer of a version that the peer has.
LEMMA ReceiveMetadataKeeps ==
    ASSUME TransferBounds, TransferInv, NEW p \in Peers, receive_metadata(p)
    PROVE  TransferInv'
<1>1. VersionTypes /\ FileTypes /\ PeerTypes /\ MessageTypes /\ Messages
  BY DEF TransferInv, MessageTypes
<1> DEFINE ch == FromPeer(p)
           v == Head(wire[ch]).v
<1>2. /\ Arrives(ch, "SEND_METADATA")
      /\ UNCHANGED <<versions, todo, late, losses, deaths>>
      /\ \E s \in peerHas(State(p), p, v) :
            files' = s.files /\ peer' = [peer EXCEPT ![p] = s.peer] /\ Answer(ch, ToPeer(p), s.msgs)
  BY DEF receive_metadata
<1>3. v \in versions[p] /\ wire[ch] # << >>
  <2> DEFINE m == Head(wire[ch])
  <2>1. m \in Carried(ch) /\ m.t = "SEND_METADATA" /\ wire[ch] # << >>
    BY <1>1, <1>2, ChannelFacts, HeadFacts
  <2> HIDE DEF m
  <2>2. m.v \in versions[p]
    BY <2>1, ChannelFacts DEF Block
  <2> QED  BY <2>1, <2>2 DEF m
<1>4. PICK s \in peerHas(State(p), p, v) :
         files' = s.files /\ peer' = [peer EXCEPT ![p] = s.peer] /\ Answer(ch, ToPeer(p), s.msgs)
  BY <1>2
<1> HIDE DEF v
<1>5. s \in Walks(p)
  <2> DEFINE a == State(p)
             t == [p |-> p, v |-> v]
             more == Append(a.peer.possible, t)
             b == [a EXCEPT !.peer.possible = Append(@, t)]
  <2>1. a \in Walks(p)
    BY StateFacts
  <2>2. s = a \/ s \in nextTransfer(b)
    BY DEF peerHas
  <2> HIDE DEF a
  <2>3. b \in Walks(p)
    <3>1. t \in Offers(p)
      BY <1>3 DEF Offers
    <3>2. a.peer \in PeerRecord(p) /\ a.peer.possible \in Seq(Offers(p))
      BY <2>1 DEF Walks, PeerRecord
    <3>3. more \in Seq(Offers(p))
      BY <3>1, <3>2, AppendProperties
    <3>4. b = [a EXCEPT !.peer = [a.peer EXCEPT !.possible = more]]
      OBVIOUS
    <3> HIDE DEF t, more, b
    <3>5. [a.peer EXCEPT !.possible = more] \in PeerRecord(p)
      BY <3>2, <3>3 DEF PeerRecord
    <3> QED  BY <2>1, <3>4, <3>5 DEF Walks
  <2> HIDE DEF b
  <2> QED  BY <1>1, <2>1, <2>2, <2>3, NextTransferFacts
<1> QED  BY <1>2, <1>3, <1>4, <1>5, WalkKeeps

\* A block is appended.
LEMMA ProcessDataKeeps ==
    ASSUME TransferBounds, TransferInv, NEW p \in Peers, ProcessData(p)
    PROVE  TransferInv'
<1>1. VersionTypes /\ FileTypes /\ PeerTypes /\ MessageTypes /\ Messages
  BY DEF TransferInv, MessageTypes
<1> DEFINE ch == FromPeer(p)
           m == Head(wire[ch])
<1>2. /\ Arrives(ch, "FileBlock")
      /\ UNCHANGED <<versions, todo, late, losses, deaths>>
      /\ \E s \in processData(State(p), m) :
            files' = s.files /\ peer' = [peer EXCEPT ![p] = s.peer] /\ Answer(ch, ToPeer(p), s.msgs)
  BY DEF ProcessData
<1>3. m \in Block /\ wire[ch] # << >>
  <2>1. m \in Carried(ch) /\ m.t = "FileBlock" /\ wire[ch] # << >>
    BY <1>1, <1>2, ChannelFacts, HeadFacts
  <2> HIDE DEF m
  <2> QED  BY <2>1, ChannelFacts
<1>4. PICK s \in processData(State(p), m) :
         files' = s.files /\ peer' = [peer EXCEPT ![p] = s.peer] /\ Answer(ch, ToPeer(p), s.msgs)
  BY <1>2
<1> HIDE DEF m
<1>5. s \in Walks(p)
  <2> DEFINE a == State(p)
             x == AppendAt(a.files[m.f], m.off, m.data)
             g == [a.files EXCEPT ![m.f] = x]
             h == [a.peer EXCEPT !.received = @ + Len(m.data)]
             b == [a EXCEPT !.files[m.f] = AppendAt(@, m.off, m.data), !.peer.received = @ + Len(m.data)]
  <2>1. a \in Walks(p)
    BY StateFacts
  <2>2. s \in nextTransfer(b)
    BY DEF processData
  <2> HIDE DEF a
  <2>3. a.files \in WholeFiles /\ a.peer \in PeerRecord(p) /\ m.f \in Files /\ m.off \in Nat /\ m.data \in Seq(Nat)
    BY <1>3, <2>1 DEF Walks, Block
  <2>4. x \in WholeFile(m.f)
    <3>1. a.files[m.f] \in WholeFile(m.f)
      BY <2>3 DEF WholeFiles
    <3> QED  BY <1>1, <2>3, <3>1, AppendAtFacts
  <2>5. b = [a EXCEPT !.files = g, !.peer = h]
    OBVIOUS
  <2> HIDE DEF b, x
  <2>6. g \in WholeFiles
    <3>1. x \in FileRecord
      BY <2>4 DEF WholeFile
    <3> QED  BY <2>3, <2>4, <3>1 DEF WholeFiles
  <2>7. h \in PeerRecord(p)
    <3>1. Len(m.data) \in Int
      BY <2>3
    <3> QED  BY <2>3, <3>1 DEF PeerRecord
  <2> HIDE DEF g, h
  <2>8. b \in Walks(p)
    BY <2>1, <2>5, <2>6, <2>7 DEF Walks
  <2> QED  BY <1>1, <2>2, <2>8, NextTransferFacts
<1> QED  BY <1>2, <1>3, <1>4, <1>5, WalkKeeps

\* The file of a peer grows.
LEMMA AppendsKeeps ==
    ASSUME TransferBounds, TransferInv, NEW p \in Peers, NEW f \in Files, PeerAppends(p, f)
    PROVE  TransferInv'
<1>1. VersionTypes /\ FileTypes /\ PeerTypes /\ MessageTypes /\ Messages
  BY DEF TransferInv, MessageTypes
<1> DEFINE n == EOF(p, f) + 1
           v == Version(p, f, n)
<1>2. /\ EOF(p, f) < MaxLen
      /\ versions' = [versions EXCEPT ![p] = @ \cup {v}] /\ todo' = [todo EXCEPT ![p] = @ \cup {v}]
      /\ UNCHANGED <<files, index, mine, peer, q, wire, late, losses, deaths>>
  BY DEF PeerAppends
<1>3. v \in AllVersions
  <2>1. n \in 1 .. MaxLen
    BY <1>1, <1>2, EOFFacts DEF TransferBounds
  <2> HIDE DEF n
  <2> QED  BY <2>1 DEF AllVersions
<1> HIDE DEF v
<1>4. Grows
  BY <1>1, <1>2 DEF VersionTypes, Grows
<1>5. VersionTypes'
  <2>1. AllVersions' = AllVersions
    BY DEF AllVersions, Version, Copy
  <2>2. versions' \in [Peers -> SUBSET AllVersions] /\ todo' \in [Peers -> SUBSET AllVersions]
    BY <1>1, <1>2, <1>3 DEF VersionTypes
  <2> QED  BY <2>1, <2>2 DEF VersionTypes
<1>6. Sends
  BY <1>1, <1>2, QuietSends
<1> QED  BY <1>1, <1>2, <1>4, <1>5, <1>6, Preserved DEF FileTypes, PeerTypes, MessageTypes

\* A connection breaks.
LEMMA LostKeeps ==
    ASSUME TransferBounds, TransferInv, NEW p \in Peers, ConnectionLost(p)
    PROVE  TransferInv'
<1>1. VersionTypes /\ FileTypes /\ PeerTypes /\ MessageTypes /\ Messages
  BY DEF TransferInv, MessageTypes
<1>2. Cut(p) /\ UNCHANGED <<files, index, mine, versions, todo, peer, late, deaths>>
  BY DEF ConnectionLost
<1>3. Sends
  BY <1>1, <1>2, CutFacts
<1>4. VersionTypes' /\ Grows
  BY <1>1, <1>2, SameVersions DEF VersionTypes
<1> QED  BY <1>1, <1>2, <1>3, <1>4, Preserved DEF FileTypes, PeerTypes, MessageTypes

\* The transfers of a dead peer are cancelled, which leaves the bytes where they are.
LEMMA DiedKeeps ==
    ASSUME TransferBounds, TransferInv, NEW p \in Peers, linksDied(p)
    PROVE  TransferInv'
<1>1. VersionTypes /\ FileTypes /\ PeerTypes /\ MessageTypes /\ Messages
  BY DEF TransferInv, MessageTypes
<1> DEFINE Cancels(f) == \E i \in DOMAIN peer[p].possible : peer[p].possible[i] = files[f].active
           Cancelled(f) == IF Cancels(f) THEN [files[f] EXCEPT !.active = NoTransfer] ELSE files[f]
<1>2. /\ Cut(p) /\ UNCHANGED <<index, mine, versions, losses>>
      /\ files' = [f \in DOMAIN files |-> Cancelled(f)]
      /\ peer' = [peer EXCEPT ![p] = NoPeer]
      /\ todo' = [todo EXCEPT ![p] = versions[p] \ mine]
      /\ late' \in {late, late \o Blocks(wire[FromPeer(p)])}
  BY DEF linksDied
<1>3. Sends
  BY <1>1, <1>2, CutFacts
<1>4. VersionTypes' /\ Grows
  <2>1. todo' \in [Peers -> SUBSET AllVersions]
    BY <1>1, <1>2 DEF VersionTypes
  <2> QED  BY <1>1, <1>2, <2>1, SameVersions
<1>5. DOMAIN peer' = Peers /\ \A r \in Peers : peer'[r] \in PeerRecord(r)
  <2>1. NoPeer \in PeerRecord(p)
    BY EmptySeq DEF NoPeer, PeerRecord
  <2> QED  BY <1>1, <1>2, <2>1 DEF PeerTypes
<1>6. files' \in WholeFiles
  <2>1. files \in [Files -> FileRecord] /\ \A f \in Files : files[f] \in WholeFile(f)
    BY <1>1 DEF FileTypes, WholeFiles
  <2>2. ASSUME NEW f \in Files PROVE Cancelled(f) \in WholeFile(f)
    <3> DEFINE x == files[f]
               y == [x EXCEPT !.active = NoTransfer]
    <3>1. x \in WholeFile(f) /\ x \in FileRecord
      BY <2>1
    <3> HIDE DEF x
    <3>2. y \in FileRecord /\ y.c = x.c /\ y.eof = x.eof /\ y.active = NoTransfer
      BY <3>1 DEF FileRecord
    <3> HIDE DEF y
    <3>3. y \in WholeFile(f)
      BY <3>1, <3>2 DEF WholeFile
    <3> HIDE DEF Cancels
    <3> QED  BY <3>1, <3>3 DEF x, y
  <2>3. DOMAIN files = Files
    BY <2>1
  <2> HIDE DEF Cancelled
  <2>4. \A f \in Files : Cancelled(f) \in FileRecord
    BY <2>2 DEF WholeFile
  <2> QED  BY <1>2, <2>2, <2>3, <2>4 DEF WholeFiles
<1>7. late' \in Seq(Block)
  <2>1. wire[FromPeer(p)] \in Seq(Carried(FromPeer(p)))
    BY <1>1, ChannelFacts DEF Messages
  <2>2. Blocks(wire[FromPeer(p)]) \in Seq(Block) /\ late \in Seq(Block)
    BY <1>1, <2>1, BlocksFacts DEF MessageTypes
  <2>3. late \o Blocks(wire[FromPeer(p)]) \in Seq(Block)
    BY <2>2, ConcatProperties
  <2> QED  BY <1>2, <2>2, <2>3
<1> QED  BY <1>3, <1>4, <1>5, <1>6, <1>7, Preserved

\* A block of a dead connection is appended, whatever fills the file by now.
LEMMA LateKeeps ==
    ASSUME TransferBounds, TransferInv, LateData
    PROVE  TransferInv'
<1>1. VersionTypes /\ FileTypes /\ PeerTypes /\ MessageTypes /\ Messages
  BY DEF TransferInv, MessageTypes
<1> DEFINE m == Head(late)
           x == AppendAt(files[m.f], m.off, m.data)
<1>2. /\ late # << >> /\ late' = Tail(late)
      /\ files' = [files EXCEPT ![m.f] = x]
      /\ UNCHANGED <<versions, todo, peer, q, wire, losses, deaths>>
  BY DEF LateData
<1>3. m \in Block /\ late' \in Seq(Block)
  BY <1>1, <1>2, HeadTailProperties DEF MessageTypes
<1> HIDE DEF m
<1>4. m.f \in Files /\ m.off \in Nat /\ m.data \in Seq(Nat)
  BY <1>3 DEF Block
<1>5. files \in [Files -> FileRecord] /\ \A f \in Files : files[f] \in WholeFile(f)
  BY <1>1 DEF FileTypes, WholeFiles
<1>6. x \in WholeFile(m.f)
  BY <1>1, <1>4, <1>5, AppendAtFacts
<1> HIDE DEF x
<1>7. x \in FileRecord
  BY <1>6 DEF WholeFile
<1>8. files' \in WholeFiles
  BY <1>2, <1>4, <1>5, <1>6, <1>7 DEF WholeFiles
<1>9. VersionTypes' /\ Grows
  BY <1>1, <1>2, SameVersions DEF VersionTypes
<1>10. Sends
  BY <1>1, <1>2, QuietSends
<1> QED  BY <1>1, <1>2, <1>3, <1>8, <1>9, <1>10, Preserved DEF PeerTypes

\* All files are empty at first.
LEMMA TransferStart == ASSUME TransferBounds, TransferInit PROVE TransferInv
<1>1. VersionTypes
  BY DEF TransferInit, VersionTypes
<1>2. FileTypes
  <2> DEFINE x == [c |-> << >>, eof |-> 0, active |-> NoTransfer]
  <2>1. << >> \in Seq(Nat) /\ Len(<< >>) = 0
    BY EmptySeq
  <2>2. x \in FileRecord
    BY <2>1 DEF FileRecord
  <2>3. \A f \in Files : x \in WholeFile(f)
    BY <2>1, <2>2 DEF WholeFile
  <2>4. files = [f \in Files |-> x]
    BY DEF TransferInit
  <2> HIDE DEF x
  <2> QED  BY <2>2, <2>3, <2>4 DEF FileTypes, WholeFiles
<1>3. PeerTypes
  <2>1. \A p \in Peers : NoPeer \in PeerRecord(p)
    BY EmptySeq DEF NoPeer, PeerRecord
  <2> QED  BY <2>1 DEF TransferInit, PeerTypes
<1>4. MessageTypes
  <2>1. << >> \in Seq(Block) /\ \A ch \in Channels : << >> \in Seq(Carried(ch))
    BY EmptySeq
  <2> QED  BY <2>1 DEF TransferInit, MessageTypes, Messages
<1> QED  BY <1>1, <1>2, <1>3, <1>4 DEF TransferInv

\* One action after the other.
LEMMA TransferStep == ASSUME TransferBounds, TransferInv, [TransferNext]_transferVars PROVE TransferInv'
<1>1. CASE UNCHANGED transferVars
  <2>1. VersionTypes /\ FileTypes /\ PeerTypes /\ MessageTypes /\ Messages
    BY DEF TransferInv, MessageTypes
  <2>2. UNCHANGED <<files, versions, todo, peer, q, wire, late>>
    BY <1>1 DEF transferVars
  <2>3. VersionTypes' /\ Grows
    BY <2>1, <2>2, SameVersions DEF VersionTypes
  <2>4. Sends
    BY <2>1, <2>2, QuietSends
  <2> QED  BY <2>1, <2>2, <2>3, <2>4, Preserved DEF FileTypes, PeerTypes, MessageTypes
<1>2. CASE TransferNext
  <2>1. ASSUME NEW p \in Peers, Difference(p) PROVE TransferInv'
    BY <2>1, DifferenceKeeps
  <2>2. ASSUME NEW p \in Peers, send_metadata(p) PROVE TransferInv'
    BY <2>2, SendMetadataKeeps
  <2>3. ASSUME NEW p \in Peers, receive_metadata(p) PROVE TransferInv'
    BY <2>3, ReceiveMetadataKeeps
  <2>4. ASSUME NEW p \in Peers, processRequest(p) PROVE TransferInv'
    BY <2>4, RequestKeeps
  <2>5. ASSUME NEW p \in Peers, ProcessData(p) PROVE TransferInv'
    BY <2>5, ProcessDataKeeps
  <2>6. ASSUME NEW p \in Peers, ConnectionLost(p) PROVE TransferInv'
    BY <2>6, LostKeeps
  <2>7. ASSUME NEW p \in Peers, linksDied(p) PROVE TransferInv'
    BY <2>7, DiedKeeps
  <2>8. ASSUME NEW p \in Peers, NEW f \in Files, PeerAppends(p, f) PROVE TransferInv'
    BY <2>8, AppendsKeeps
  <2>9. CASE LateData
    BY <2>9, LateKeeps
  <2> QED  BY <1>2, <2>1, <2>2, <2>3, <2>4, <2>5, <2>6, <2>7, <2>8, <2>9 DEF TransferNext
<1> QED  BY <1>1, <1>2

(* What is committed to a file is a version that one peer had, all of it   *)
(* and nothing of another one's: for any number of peers and files, of any *)
(* length, however transfers were cancelled, repeated and mixed and        *)
(* whatever arrived late (RecordStore.appendAt, file_flush).               *)
THEOREM TransfersWhole == ASSUME TransferBounds PROVE TransferSpec => []CommittedWhole
<1>1. TransferInit => TransferInv
  BY TransferStart
<1>2. TransferInv /\ [TransferNext]_transferVars => TransferInv'
  BY TransferStep
<1>3. TransferInv => CommittedWhole
  BY DEF TransferInv, FileTypes, WholeFiles, WholeFile, CommittedWhole
<1> QED  BY <1>1, <1>2, <1>3, PTL DEF TransferSpec
=============================================================================
