------------------------ MODULE MessageQueueProofs ------------------------
(* Proofs about the queue of outgoing messages, for messages and fragments   *)
(* of any size and any number of records, people, kills and errors.          *)
EXTENDS MessageQueue, SequenceTheorems, FiniteSetTheorems, WellFoundedInduction, TLAPS

-----------------------------------------------------------------------------
(* Greatest and least elements of sets of numbers.                           *)
LEMMA LeastNatural ==
    ASSUME NEW T \in SUBSET Nat, T # {}
    PROVE  \E x \in T : \A y \in T : x <= y
<1>1. \E x \in T : \A y \in T : ~ (<<y, x>> \in OpToRel(<, Nat))
  BY NatLessThanWellFounded, WFMin
<1>2. \A x, y \in T : <<y, x>> \in OpToRel(<, Nat) <=> y < x
  BY DEF OpToRel
<1>3. PICK x \in T : \A y \in T : ~ (y < x)
  BY <1>1, <1>2, Zenon
<1>. QED  BY <1>3

(* A nonempty set of integers with an upper bound has a greatest element.    *)
LEMMA MaxFacts ==
    ASSUME NEW T \in SUBSET Int, T # {}, NEW b \in Int, \A t \in T : t <= b
    PROVE  Max(T) \in T /\ \A y \in T : y <= Max(T)
<1> DEFINE U == {b - t : t \in T}
<1>1. U \in SUBSET Nat /\ U # {}
  <2>1. \A t \in T : b - t \in Nat
    OBVIOUS
  <2>2. PICK t \in T : TRUE
    OBVIOUS
  <2>3. b - t \in U
    OBVIOUS
  <2>. QED  BY <2>1, <2>3
<1>2. PICK u \in U : \A v \in U : u <= v
  BY <1>1, LeastNatural
<1>3. PICK x \in T : u = b - x
  OBVIOUS
<1>4. \A y \in T : x >= y
  BY <1>2, <1>3
<1>5. \E z \in T : \A y \in T : z >= y
  BY <1>4
<1>6. Max(T) \in T /\ \A y \in T : Max(T) >= y
  BY <1>5 DEF Max
<1>. QED  BY <1>6
-----------------------------------------------------------------------------
(* The inductive invariant.  Types, ...                                      *)
Iterator == [at : Nat, on : BOOLEAN]
Buffer == [open : BOOLEAN, seq : Nat, units : Seq(Unit)]

DataTypes ==
    /\ recs \in [SourceNames -> Nat] /\ smark \in [SourceNames -> Nat] /\ persons \in Nat
    /\ frags \in Seq(Fragment) /\ buf \in Buffer /\ work \in Seq(Unit)
    /\ handed \in SUBSET Fragment /\ received \in SUBSET Fragment /\ IsFiniteSet(received)
    /\ nextSeq \in Nat

ControlTypes ==
    /\ up \in BOOLEAN /\ pc \in Pcs /\ mode \in {"http", "svc"} /\ src \in 0..3
    /\ it \in Iterator /\ cur \in Iterator /\ send \in Nat
    /\ sending \in 0..Len(frags) /\ acked \in 0..Len(frags)

QueueTypes == DataTypes /\ ControlTypes

(* ... where the background thread is and what its iterator is at, ...       *)
AtSource == {"poll", "take", "read", "mark", "after", "put"}

Where ==
    /\ pc \in AtSource => src > 0
    /\ pc \notin AtSource \cup {"end", "clear"} => src = 0
    /\ cur.at <= Len(frags) /\ (cur.on => cur.at < Len(frags))
    /\ pc = "send" => send \in 1..Len(frags)
    /\ pc \in {"end", "clear"} => buf.open
    /\ pc = "clear" => frags # <<>> /\ frags[Len(frags)].seq = buf.seq

(* ... how fragments are numbered, the partial one and the next included, ...*)
Numbered ==
    /\ \A i \in 1..Len(frags) :
          IF i = 1 THEN frags[i].seq = 0 ELSE frags[i].seq - frags[i - 1].seq \in {0, 1}
    /\ \A i, j \in 1..Len(frags) : i <= j => frags[i].seq <= frags[j].seq
    /\ buf.open => IF frags = <<>> THEN buf.seq = 0 ELSE buf.seq - LastSeq \in {0, 1}
    /\ up => nextSeq = (IF buf.open THEN buf.seq ELSE LastSeq) + 1

(* ... and what others were given.                                           *)
Given ==
    /\ \A g \in received : \E i \in 1..Len(frags) : frags[i].seq = g.seq
    /\ \A f \in handed : \E i \in 1..Len(frags) : frags[i] = f

QueueInv == QueueTypes /\ Where /\ Numbered /\ Given

-----------------------------------------------------------------------------
(* Operators of the model.                                                   *)
LEMMA MovedFacts ==
    ASSUME NEW p \in Iterator, NEW n \in Nat, p.at <= n, p.on => p.at < n
    PROVE  /\ Moved(p, n) \in Iterator /\ Moved(p, n).at <= n
           /\ Moved(p, n).on <=> Moved(p, n).at < n
           /\ Moved(p, n).at = IF p.on THEN p.at + 1 ELSE p.at
<1> DEFINE k == IF p.on THEN p.at + 1 ELSE p.at
<1>1. k \in Nat /\ k <= n
  BY DEF Iterator
<1>2. Moved(p, n) = [at |-> k, on |-> k < n]
  BY DEF Moved
<1> DEFINE b == k < n
<1>3. b \in BOOLEAN
  OBVIOUS
<1> HIDE DEF k, b
<1>4. Moved(p, n) \in Iterator /\ Moved(p, n).at = k /\ Moved(p, n).on = b
  <2>1. Moved(p, n) = [at |-> k, on |-> b]
    BY <1>2, Zenon DEF b
  <2>. QED  BY <1>1, <1>3, <2>1 DEF Iterator
<1>5. Moved(p, n).on <=> Moved(p, n).at < n
  BY <1>4, Zenon DEF b
<1>. QED  BY <1>1, <1>4, <1>5 DEF k

LEMMA AtMarkFacts ==
    ASSUME NEW n \in Nat
    PROVE  AtMark(n) \in Iterator /\ AtMark(n).at = n /\ ~AtMark(n).on
BY DEF AtMark, Iterator

LEMMA FragsFacts ==
    ASSUME frags \in Seq(Fragment)
    PROVE  /\ Len(frags) \in Nat /\ (frags # <<>> <=> Len(frags) > 0)
           /\ \A i \in 1..Len(frags) : frags[i] \in Fragment /\ frags[i].seq \in Nat
<1>1. Len(frags) \in Nat /\ (frags # <<>> <=> Len(frags) > 0)
  BY EmptySeq
<1>2. \A i \in 1..Len(frags) : frags[i] \in Fragment
  BY ElementOfSeq
<1>. QED  BY <1>1, <1>2 DEF Fragment

(* The server's ack: all seqs up to it are there.                            *)
LEMMA ServerAckFacts ==
    ASSUME NEW r, IsFiniteSet(r)
    PROVE  /\ ServerAck(r) \in -1..Cardinality(r)
           /\ \A k \in 0..ServerAck(r) : HasSeq(r, k)
<1> DEFINE T == {n \in -1..Cardinality(r) : \A k \in 0..n : \E g \in r : g.seq = k}
<1>1. Cardinality(r) \in Nat
  BY FS_CardinalityType
<1>2. -1 \in T
  <2>1. -1 \in -1..Cardinality(r) /\ 0..-1 = {}
    BY <1>1
  <2>. QED  BY <2>1
<1>3. T \in SUBSET Int /\ \A t \in T : t <= Cardinality(r)
  BY <1>1
<1>4. Max(T) \in T
  <2> HIDE DEF T
  <2>1. T # {} /\ Cardinality(r) \in Int
    BY <1>1, <1>2
  <2>. QED  BY <1>3, <2>1, MaxFacts, Zenon
<1>5. ServerAck(r) = Max(T)
  BY DEF ServerAck
<1>. QED  BY <1>4, <1>5 DEF HasSeq

(* The ack is below the next number, and about a fragment in the file.       *)
LEMMA AckFacts ==
    ASSUME QueueTypes, Numbered, up, NEW r, IsFiniteSet(r),
           \A g \in r : \E i \in 1..Len(frags) : frags[i].seq = g.seq
    PROVE  /\ ServerAck(r) \in Int /\ ServerAck(r) >= -1
           /\ \A k \in 0..ServerAck(r) : HasSeq(r, k)
           /\ ~OutOfRange(ServerAck(r))
           /\ ServerAck(r) >= 0 => \E i \in 1..Len(frags) : frags[i].seq = ServerAck(r)
<1> DEFINE seq == ServerAck(r)
<1>1. seq \in Int /\ seq >= -1 /\ \A k \in 0..seq : HasSeq(r, k)
  <2>1. Cardinality(r) \in Nat
    BY FS_CardinalityType
  <2>. QED  BY <2>1, ServerAckFacts
<1>2. /\ Len(frags) \in Nat /\ (frags # <<>> <=> Len(frags) > 0)
      /\ \A i \in 1..Len(frags) : frags[i].seq \in Nat
      /\ nextSeq \in Nat /\ buf.open \in BOOLEAN /\ buf.seq \in Nat
  BY FragsFacts DEF QueueTypes, DataTypes, Buffer
<1> HIDE DEF seq
<1>3. CASE seq < 0
  BY <1>1, <1>2, <1>3 DEF OutOfRange, seq
<1>4. CASE seq >= 0
  <2>1. HasSeq(r, seq)
    BY <1>1, <1>4
  <2>2. PICK i \in 1..Len(frags) : frags[i].seq = seq
    BY <2>1 DEF HasSeq
  <2>4. frags # <<>> /\ frags[i].seq <= LastSeq /\ LastSeq \in Nat
    BY <1>2, <2>2 DEF Numbered, LastSeq
  <2>5. seq < nextSeq
    <3>1. CASE buf.open
      <4>1. buf.seq - LastSeq \in {0, 1} /\ nextSeq = buf.seq + 1
        BY <2>4, <3>1 DEF Numbered
      <4>. QED  BY <1>2, <2>2, <2>4, <4>1
    <3>2. CASE ~buf.open
      <4>1. nextSeq = LastSeq + 1
        BY <3>2 DEF Numbered
      <4>. QED  BY <1>2, <2>2, <2>4, <4>1
    <3>. QED  BY <3>1, <3>2
  <2>6. ~(seq >= nextSeq)
    BY <1>1, <1>2, <2>5
  <2>. QED  BY <1>1, <2>2, <2>6 DEF seq, OutOfRange
<1>. QED  BY <1>1, <1>3, <1>4

(* What the server has after it got a fragment of the file.                  *)
LEMMA KeepFacts ==
    ASSUME QueueTypes, Given, NEW i \in 1..Len(frags)
    PROVE  LET r == Keep(received, frags[i])
           IN  /\ r \in SUBSET Fragment /\ IsFiniteSet(r) /\ received \subseteq r
               /\ \A g \in r : \E j \in 1..Len(frags) : frags[j].seq = g.seq
<1>1. frags[i] \in Fragment
  BY FragsFacts DEF QueueTypes, DataTypes
<1>2. IsFiniteSet(received \cup {frags[i]})
  BY FS_AddElement DEF QueueTypes, DataTypes
<1>. QED  BY <1>1, <1>2 DEF Keep, QueueTypes, DataTypes, Given

-----------------------------------------------------------------------------
(* What a step does to the file and the buffer, as far as seqs go.           *)
Kept == /\ frags' = frags /\ buf'.open = buf.open /\ buf'.seq = buf.seq
        /\ up' => up /\ nextSeq' = nextSeq

Begun == /\ up /\ up' = up /\ frags' = frags
         /\ ~buf.open /\ buf'.open /\ buf'.seq = nextSeq /\ nextSeq' = nextSeq + 1

Ended == /\ up /\ up' = up /\ buf' = buf /\ nextSeq' = nextSeq /\ buf.open
         /\ \E u \in Seq(Unit) : frags' = Append(frags, [seq |-> buf.seq, units |-> u])

Cleared == /\ up /\ up' = up /\ frags' = frags /\ nextSeq' = nextSeq
           /\ buf' = NoBuf /\ LastSeq + 1 = nextSeq

Restarted == /\ frags' = frags /\ buf' = buf
             /\ nextSeq' = IF buf.open THEN buf.seq + 1 ELSE LastSeq + 1

(* What it does to what the services took and the server has.                *)
Grows ==
    /\ \/ received' = received
       \/ \E i \in 1..Len(frags) : received' = Keep(received, frags[i])
    /\ \/ handed' = handed
       \/ send \in 1..Len(frags) /\ handed' = handed \cup {frags[send]}

LEMMA HeldType == ASSUME QueueTypes PROVE Held \in Seq(Unit)
BY DEF Held, QueueTypes, DataTypes, Buffer, Unit

(* The steps that only move a thread on, with its iterators and the marks on *)
(* the fragments; ...                                                        *)
Moves ==
    \/ SendViaHttp \/ NotYetAcked \/ AckFound \/ MarkAcked \/ SendingFollows
    \/ NextFragment \/ FirstFragment \/ Poll \/ Take \/ AfterSource
    \/ GetFragment \/ GoToEnded \/ ReadEnded \/ PassSent \/ MarkSending \/ UIThread

LEMMA MovesFacts ==
    ASSUME Moves
    PROVE  up /\ UNCHANGED <<recs, smark, persons, frags, buf, gap, nextSeq, work, handed,
                             received, up>>
<1> USE DEF store, log, partial, loop, wake, life, world
<1>1. CASE SendViaHttp \/ NotYetAcked \/ AckFound \/ MarkAcked \/ SendingFollows
  BY <1>1 DEF SendViaHttp, NotYetAcked, AckFound, MarkAcked, SendingFollows
<1>2. CASE NextFragment \/ FirstFragment \/ Poll \/ Take \/ AfterSource
  BY <1>2 DEF NextFragment, FirstFragment, Poll, Take, AfterSource
<1>3. CASE GetFragment \/ GoToEnded \/ ReadEnded \/ PassSent \/ MarkSending
  BY <1>3 DEF GetFragment, GoToEnded, ReadEnded, PassSent, MarkSending
<1>4. CASE UIThread
  BY <1>4 DEF UIThread, HasUnsent, UnsentFragment, HasMessage
<1>. QED  BY <1>1, <1>2, <1>3, <1>4 DEF Moves

(* ... and those that do so, or end the process.                             *)
MayDie == AckReply \/ AckStep \/ AckScan \/ NoFragment

LEMMA MayDieFacts ==
    ASSUME MayDie
    PROVE  \/ Dies
           \/ up /\ UNCHANGED <<recs, smark, persons, frags, buf, gap, nextSeq, work, handed,
                                received, up, sending, acked, mode, src, it, send>>
<1> USE DEF store, log, partial, loop, wake, life, world
<1>1. CASE AckReply
  BY <1>1 DEF AckReply
<1>2. CASE AckStep
  BY <1>2 DEF AckStep
<1>3. CASE AckScan
  BY <1>3 DEF AckScan
<1>4. CASE NoFragment
  BY <1>4 DEF NoFragment
<1>. QED  BY <1>1, <1>2, <1>3, <1>4 DEF MayDie

LEMMA DiesFacts ==
    ASSUME Dies
    PROVE  /\ up' = FALSE /\ pc' = "idle"
           /\ UNCHANGED <<recs, smark, persons, frags, sending, acked, buf, handed, received>>
BY DEF Dies, Gone, store, log, world

(* Every step is one of those, and only adds to what others were given.      *)
LEMMA StepSeqs ==
    ASSUME QueueInv, Next
    PROVE  Kept \/ Begun \/ Ended \/ Cleared \/ Restarted
<1> USE DEF QueueInv
<1>d. Dies => Kept
  BY DiesFacts DEF Kept
<1>m. CASE Moves
  BY <1>m, MovesFacts DEF Kept
<1>e. CASE MayDie
  BY <1>d, <1>e, MayDieFacts DEF Kept
<1> USE DEF store, log, partial, loop, wake, life, world
<1>1. CASE RunAlarm
  BY <1>1 DEF RunAlarm, Kept
<1>4. CASE AckRequestFails \/ UploadFails
  BY <1>4 DEF AckRequestFails, UploadFails, RequestFails, HttpReturns, Kept
<1>7. CASE ReadRecord
  BY <1>7, <1>d DEF ReadRecord, Kept
<1>8. CASE MarkSent
  BY <1>8 DEF MarkSent, Kept
<1>9. CASE BeginFragment
  BY <1>9 DEF BeginFragment, Begun
<1>10. CASE Put
  <2>1. CASE Dies
    BY <2>1, <1>d
  <2>2. CASE ~Dies
    <3>1. /\ \E u : buf' = [buf EXCEPT !.units = u]
          /\ UNCHANGED <<frags, nextSeq, up>> /\ up
      BY <1>10, <2>2 DEF Put
    <3>2. buf \in Buffer
      BY DEF QueueTypes, DataTypes
    <3>. QED  BY <3>1, <3>2 DEF Kept, Buffer
  <2>. QED  BY <2>1, <2>2
<1>11. CASE EndFragment
  BY <1>11, HeldType DEF EndFragment, Ended, Where
<1>12. CASE ClearBuffer
  <2>1. LastSeq = buf.seq /\ buf.open
    BY <1>12 DEF ClearBuffer, Where, LastSeq
  <2>. QED  BY <1>12, <2>1 DEF ClearBuffer, Cleared, Numbered
<1>14. CASE Uploaded
  BY <1>14 DEF Uploaded, Kept, Gone
<1>15. CASE TrySend
  BY <1>15 DEF TrySend, Kept
<1>16. CASE Done
  BY <1>16 DEF Done, Kept
<1>17. CASE \E w \in {"person", "chat"} : Visit(w)
  BY <1>17 DEF Visit, Kept
<1>18. CASE DeadlinePasses \/ TimerFires \/ AppendChat \/ PersonJoins
  BY <1>18 DEF DeadlinePasses, TimerFires, AppendChat, PersonJoins, Kept
<1>19. CASE LeaveBegins \/ LeaveRecorded
  BY <1>19 DEF LeaveBegins, LeaveRecorded, Kept
<1>20. CASE NetChanges \/ ServiceChanges \/ \E f \in handed : Delivered(f)
  BY <1>20 DEF NetChanges, ServiceChanges, Delivered, Kept
<1>21. CASE Killed
  BY <1>21 DEF Killed, Kept, Gone
<1>22. CASE Restart
  BY <1>22 DEF Restart, Restarted
<1>. QED
  BY <1>m, <1>e, <1>1, <1>4, <1>7, <1>8, <1>9, <1>10, <1>11, <1>12, <1>14, <1>15, <1>16,
     <1>17, <1>18, <1>19, <1>20, <1>21, <1>22 DEF Next, Background, Moves, MayDie

LEMMA StepGives == ASSUME QueueInv, Next PROVE Grows
<1> USE DEF QueueInv
<1>d. Dies => Grows
  BY DiesFacts DEF Grows
<1>m. CASE Moves
  BY <1>m, MovesFacts DEF Grows
<1>e. CASE MayDie
  BY <1>d, <1>e, MayDieFacts DEF Grows
<1> USE DEF store, log, partial, loop, wake, life, world
<1>1. CASE RunAlarm
  BY <1>1 DEF RunAlarm, Grows
<1>4. CASE AckRequestFails \/ UploadFails
  <2>1. CASE AckRequestFails
    BY <2>1 DEF AckRequestFails, RequestFails, Grows
  <2>2. CASE UploadFails
    BY <2>2 DEF UploadFails, RequestFails, Grows, Where
  <2>. QED  BY <1>4, <2>1, <2>2
<1>7. CASE ReadRecord
  BY <1>7, <1>d DEF ReadRecord, Grows
<1>8. CASE MarkSent
  BY <1>8 DEF MarkSent, Grows
<1>9. CASE BeginFragment
  BY <1>9 DEF BeginFragment, Grows
<1>10. CASE Put
  BY <1>10, <1>d DEF Put, Grows
<1>11. CASE EndFragment
  BY <1>11 DEF EndFragment, Grows
<1>12. CASE ClearBuffer
  BY <1>12 DEF ClearBuffer, Grows
<1>14. CASE Uploaded
  BY <1>14 DEF Uploaded, Grows, Where
<1>15. CASE TrySend
  BY <1>15 DEF TrySend, Grows, Where
<1>16. CASE Done
  BY <1>16 DEF Done, Grows
<1>17. CASE \E w \in {"person", "chat"} : Visit(w)
  BY <1>17 DEF Visit, Grows
<1>18. CASE DeadlinePasses \/ TimerFires \/ AppendChat \/ PersonJoins
  BY <1>18 DEF DeadlinePasses, TimerFires, AppendChat, PersonJoins, Grows
<1>19. CASE LeaveBegins \/ LeaveRecorded
  BY <1>19 DEF LeaveBegins, LeaveRecorded, Grows
<1>20. CASE NetChanges \/ ServiceChanges
  BY <1>20 DEF NetChanges, ServiceChanges, Grows
<1>23. CASE \E f \in handed : Delivered(f)
  <2>1. PICK f \in handed : Delivered(f)
    BY <1>23
  <2>2. PICK i \in 1..Len(frags) : frags[i] = f
    BY DEF Given
  <2>. QED  BY <2>1, <2>2 DEF Delivered, Grows
<1>21. CASE Killed
  BY <1>21 DEF Killed, Grows, Where
<1>22. CASE Restart
  BY <1>22 DEF Restart, Grows
<1>. QED
  BY <1>m, <1>e, <1>1, <1>4, <1>7, <1>8, <1>9, <1>10, <1>11, <1>12, <1>14, <1>15, <1>16,
     <1>17, <1>18, <1>19, <1>20, <1>21, <1>22, <1>23 DEF Next, Background, Moves, MayDie

-----------------------------------------------------------------------------
(* Each part of the invariant is kept.                                       *)
LEMMA NumberedNext ==
    ASSUME QueueInv, Next
    PROVE  Numbered'
<1>1. /\ Len(frags) \in Nat /\ (frags # <<>> <=> Len(frags) > 0)
      /\ \A i \in 1..Len(frags) : frags[i].seq \in Nat
      /\ frags \in Seq(Fragment) /\ nextSeq \in Nat /\ buf.seq \in Nat /\ buf.open \in BOOLEAN
      /\ up \in BOOLEAN
  BY FragsFacts DEF QueueInv, QueueTypes, DataTypes, ControlTypes, Buffer
<1>2. LastSeq \in Int /\ (frags = <<>> => LastSeq = -1) /\ (frags # <<>> => LastSeq = frags[Len(frags)].seq /\ LastSeq \in Nat)
  BY <1>1 DEF LastSeq
<1>3. Numbered
  BY DEF QueueInv
<1>4. ASSUME frags' = frags
      PROVE  /\ LastSeq' = LastSeq
             /\ (\A i \in 1..Len(frags) :
                   IF i = 1 THEN frags[i].seq = 0 ELSE frags[i].seq - frags[i - 1].seq \in {0, 1})'
             /\ (\A i, j \in 1..Len(frags) : i <= j => frags[i].seq <= frags[j].seq)'
  BY <1>3, <1>4 DEF Numbered, LastSeq
<1>5. CASE Kept
  BY <1>3, <1>4, <1>5 DEF Kept, Numbered
<1>6. CASE Begun
  <2>1. nextSeq = LastSeq + 1
    BY <1>3, <1>6 DEF Begun, Numbered
  <2>. QED  BY <1>1, <1>2, <1>3, <1>4, <1>6, <2>1 DEF Begun, Numbered
<1>7. CASE Ended
  <2>1. PICK u \in Seq(Unit) : frags' = Append(frags, [seq |-> buf.seq, units |-> u])
    BY <1>7 DEF Ended
  <2> DEFINE f == [seq |-> buf.seq, units |-> u]
  <2>2. f \in Fragment /\ f.seq = buf.seq
    BY <1>1 DEF Fragment
  <2> HIDE DEF f
  <2>3. /\ Len(frags') = Len(frags) + 1 /\ frags'[Len(frags) + 1] = f
        /\ \A i \in 1..Len(frags) : frags'[i] = frags[i]
        /\ frags' # <<>>
    BY <1>1, <2>1, <2>2 DEF f
  <2>4. LastSeq' = buf.seq
    BY <2>2, <2>3 DEF LastSeq
  <2>5. IF frags = <<>> THEN buf.seq = 0 ELSE buf.seq - LastSeq \in {0, 1}
    BY <1>3, <1>7 DEF Ended, Numbered
  <2>6. (\A i \in 1..Len(frags) :
            IF i = 1 THEN frags[i].seq = 0 ELSE frags[i].seq - frags[i - 1].seq \in {0, 1})'
    <3>1. ASSUME NEW i \in 1..(Len(frags) + 1)
          PROVE  IF i = 1 THEN frags'[i].seq = 0 ELSE frags'[i].seq - frags'[i - 1].seq \in {0, 1}
      <4>1. CASE i \in 1..Len(frags)
        BY <1>1, <1>3, <2>3, <4>1 DEF Numbered
      <4>2. CASE i = Len(frags) + 1
        BY <1>1, <1>2, <2>2, <2>3, <2>5, <4>2
      <4>. QED  BY <1>1, <4>1, <4>2
    <3>. QED  BY <2>3, <3>1
  <2>7. (\A i, j \in 1..Len(frags) : i <= j => frags[i].seq <= frags[j].seq)'
    <3>1. ASSUME NEW i \in 1..(Len(frags) + 1), NEW j \in 1..(Len(frags) + 1), i <= j
          PROVE  frags'[i].seq <= frags'[j].seq
      <4>1. CASE j \in 1..Len(frags)
        BY <1>1, <1>3, <2>3, <3>1, <4>1 DEF Numbered
      <4>2. CASE j = Len(frags) + 1 /\ i \in 1..Len(frags)
        <5>1. frags[i].seq <= frags[Len(frags)].seq /\ frags # <<>>
          BY <1>1, <1>3, <4>2 DEF Numbered
        <5>. QED  BY <1>1, <1>2, <2>2, <2>3, <2>5, <4>2, <5>1
      <4>3. CASE j = Len(frags) + 1 /\ i = Len(frags) + 1
        BY <1>1, <2>2, <2>3, <4>3
      <4>. QED  BY <1>1, <3>1, <4>1, <4>2, <4>3
    <3>. QED  BY <2>3, <3>1
  <2>8. nextSeq' = buf'.seq + 1 /\ buf'.open /\ buf'.seq = buf.seq
    BY <1>3, <1>7 DEF Ended, Numbered
  <2>. QED  BY <1>1, <2>3, <2>4, <2>6, <2>7, <2>8 DEF Numbered
<1>8. CASE Cleared
  BY <1>3, <1>4, <1>8 DEF Cleared, Numbered, NoBuf
<1>9. CASE Restarted
  BY <1>3, <1>4, <1>9 DEF Restarted, Numbered
<1>. QED  BY StepSeqs, <1>5, <1>6, <1>7, <1>8, <1>9

(* Fragments are only appended, and nobody loses what he was given.          *)
LEMMA StepKeeps ==
    ASSUME QueueInv, Next
    PROVE  /\ Len(frags) \in Nat /\ sending \in 0..Len(frags) /\ acked \in 0..Len(frags)
           /\ Len(frags') \in Nat /\ Len(frags) <= Len(frags')
           /\ \A i \in 1..Len(frags) : frags'[i] = frags[i]
           /\ received \subseteq received' /\ handed \subseteq handed'
           /\ \A g \in received' : \E i \in 1..Len(frags) : frags[i].seq = g.seq
           /\ \A f \in handed' : \E i \in 1..Len(frags) : frags[i] = f
<1>1. /\ Len(frags) \in Nat /\ frags \in Seq(Fragment) /\ buf.seq \in Nat
      /\ sending \in 0..Len(frags) /\ acked \in 0..Len(frags)
  BY FragsFacts DEF QueueInv, QueueTypes, DataTypes, ControlTypes, Buffer
<1>2. Len(frags') \in Nat /\ Len(frags) <= Len(frags') /\ \A i \in 1..Len(frags) : frags'[i] = frags[i]
  <2>1. CASE frags' = frags
    BY <1>1, <2>1
  <2>2. CASE Ended
    <3>1. PICK u \in Seq(Unit) : frags' = Append(frags, [seq |-> buf.seq, units |-> u])
      BY <2>2 DEF Ended
    <3>2. [seq |-> buf.seq, units |-> u] \in Fragment
      BY <1>1 DEF Fragment
    <3>. QED  BY <1>1, <3>1, <3>2
  <2>. QED  BY <2>1, <2>2, StepSeqs DEF Kept, Begun, Cleared, Restarted
<1>3. /\ received \subseteq received'
      /\ \A g \in received' : \E i \in 1..Len(frags) : frags[i].seq = g.seq
  <2>1. CASE received' = received
    BY <2>1 DEF QueueInv, Given
  <2>2. CASE \E i \in 1..Len(frags) : received' = Keep(received, frags[i])
    BY <2>2, KeepFacts DEF QueueInv
  <2>. QED  BY <2>1, <2>2, StepGives DEF Grows
<1>4. handed \subseteq handed' /\ \A f \in handed' : \E i \in 1..Len(frags) : frags[i] = f
  BY StepGives DEF Grows, QueueInv, Given
<1>. QED  BY <1>1, <1>2, <1>3, <1>4

LEMMA GivenNext ==
    ASSUME QueueInv, Next
    PROVE  Given'
<1>1. Len(frags) \in Nat
  BY StepKeeps
<1>2. Len(frags') \in Nat /\ Len(frags) <= Len(frags') /\ \A i \in 1..Len(frags) : frags'[i] = frags[i]
  BY StepKeeps
<1>3. \A g \in received' : \E i \in 1..Len(frags) : frags[i].seq = g.seq
  BY StepKeeps
<1>4. \A f \in handed' : \E i \in 1..Len(frags) : frags[i] = f
  BY StepKeeps
<1>5. (\A g \in received : \E i \in 1..Len(frags) : frags[i].seq = g.seq)'
  BY <1>1, <1>2, <1>3
<1>6. (\A f \in handed : \E i \in 1..Len(frags) : frags[i] = f)'
  BY <1>1, <1>2, <1>4
<1>. QED  BY <1>5, <1>6 DEF Given

(* Wherever it was, the iterator stays in the file.                          *)
LEMMA CurFacts ==
    ASSUME QueueTypes, Where
    PROVE  /\ Len(frags) \in Nat /\ cur.at \in 0..Len(frags)
           /\ \A n \in 0..Len(frags) : AtMark(n) \in Iterator /\ AtMark(n).at = n /\ ~AtMark(n).on
           /\ Moved(cur, Len(frags)) \in Iterator
           /\ Moved(cur, Len(frags)).at \in 0..Len(frags)
           /\ Moved(cur, Len(frags)).at = IF cur.on THEN cur.at + 1 ELSE cur.at
           /\ Moved(cur, Len(frags)).on <=> Moved(cur, Len(frags)).at < Len(frags)
           /\ MovedBack(cur) \in Iterator
           /\ MovedBack(cur).at \in 0..Len(frags)
           /\ MovedBack(cur).at = IF cur.at = 0 THEN 0 ELSE cur.at - 1
           /\ MovedBack(cur).on <=> cur.at # 0
           /\ MovedBack(cur).on => MovedBack(cur).at < Len(frags)
<1>1. /\ Len(frags) \in Nat /\ cur \in Iterator /\ cur.at \in 0..Len(frags)
      /\ (cur.on => cur.at < Len(frags))
  BY FragsFacts DEF QueueTypes, DataTypes, ControlTypes, Where, Iterator
<1>2. \A n \in 0..Len(frags) : AtMark(n) \in Iterator /\ AtMark(n).at = n /\ ~AtMark(n).on
  BY <1>1, AtMarkFacts
<1>3. /\ Moved(cur, Len(frags)) \in Iterator /\ Moved(cur, Len(frags)).at <= Len(frags)
      /\ Moved(cur, Len(frags)).on <=> Moved(cur, Len(frags)).at < Len(frags)
      /\ Moved(cur, Len(frags)).at = IF cur.on THEN cur.at + 1 ELSE cur.at
  BY <1>1, MovedFacts
<1>4. Moved(cur, Len(frags)).at \in 0..Len(frags)
  BY <1>1, <1>3 DEF Iterator
<1>5. CASE cur.at = 0
  <2>1. MovedBack(cur) = AtMark(0)
    BY <1>5 DEF MovedBack
  <2>2. AtMark(0) \in Iterator /\ AtMark(0).at = 0 /\ ~AtMark(0).on
    BY AtMarkFacts
  <2>. QED  BY <1>1, <1>2, <1>3, <1>4, <1>5, <2>1, <2>2
<1>6. CASE cur.at # 0
  <2>1. MovedBack(cur) = [at |-> cur.at - 1, on |-> TRUE] /\ cur.at - 1 \in Nat
    BY <1>1, <1>6 DEF MovedBack
  <2>2. MovedBack(cur) \in Iterator /\ MovedBack(cur).at = cur.at - 1 /\ MovedBack(cur).on
    BY <2>1 DEF Iterator
  <2>. QED  BY <1>1, <1>2, <1>3, <1>4, <1>6, <2>2
<1>. QED  BY <1>5, <1>6

(* So markAck's search does too, and nextFragment's loop returns somewhere.  *)
LEMMA SearchFacts ==
    ASSUME QueueTypes, Where, MayDie, ~Dies
    PROVE  /\ cur' \in Iterator /\ cur'.at <= Len(frags) /\ (cur'.on => cur'.at < Len(frags))
           /\ pc \in {"ack", "step", "scan", "null"} /\ pc' \in {"found", "step", "scan", "idle"}
<1>0. cur \in Iterator /\ (cur.on => cur.at < Len(frags))
  BY DEF QueueTypes, ControlTypes, Where
<1>1. CASE AckReply
  <2>1. PICK seq : MarkAck(seq) /\ pc = "ack"
    BY <1>1 DEF AckReply
  <2>2. cur' \in {AtMark(0), AtMark(Len(frags)), cur} /\ pc' \in {"found", "step", "scan"}
    BY <2>1 DEF MarkAck
  <2>. QED  BY <1>0, <2>1, <2>2, CurFacts
<1>2. CASE AckStep
  <2>1. cur' \in {Moved(cur, Len(frags)), MovedBack(cur)} /\ pc = "step" /\ pc' = "scan"
    BY <1>2 DEF AckStep, Stepped
  <2>. QED  BY <2>1, CurFacts
<1>3. CASE AckScan
  <2>1. cur' = cur /\ pc = "scan" /\ pc' \in {"found", "step"}
    BY <1>3 DEF AckScan
  <2>. QED  BY <1>0, <2>1, CurFacts
<1>4. CASE NoFragment
  <2>1. cur' = cur /\ pc = "null" /\ pc' = "idle"
    BY <1>4 DEF NoFragment
  <2>. QED  BY <1>0, <2>1, CurFacts
<1>. QED  BY <1>1, <1>2, <1>3, <1>4 DEF MayDie

(* The same of an upload's ack.                                              *)
LEMMA UploadedFacts ==
    ASSUME QueueTypes, Where, Uploaded
    PROVE  \/ Gone /\ UNCHANGED <<recs, smark, persons, frags, sending, acked, buf>>
           \/ /\ cur' \in Iterator /\ cur'.at <= Len(frags) /\ (cur'.on => cur'.at < Len(frags))
              /\ pc = "send" /\ pc' \in {"found", "step", "scan"} /\ up
              /\ UNCHANGED <<recs, smark, persons, frags, sending, acked, buf, gap, nextSeq, up,
                             mode, src, it, work, send>>
<1> DEFINE seq == ServerAck(Keep(received, frags[send]))
<1>0. cur \in Iterator /\ (cur.on => cur.at < Len(frags)) /\ pc = "send" /\ up
  BY DEF QueueTypes, ControlTypes, Where, Uploaded
<1>1. CASE OutOfRange(seq)
  BY <1>1 DEF Uploaded, store, log
<1>2. CASE ~OutOfRange(seq)
  <2>1. /\ MarkAck(seq)
        /\ UNCHANGED <<recs, smark, persons, frags, sending, acked, buf, gap, nextSeq, up,
                       mode, src, it, work, send>>
    BY <1>2 DEF Uploaded, store, log, partial, life
  <2>2. cur' \in {AtMark(0), AtMark(Len(frags)), cur} /\ pc' \in {"found", "step", "scan"}
    BY <2>1 DEF MarkAck
  <2>. QED  BY <1>0, <2>1, <2>2, CurFacts
<1>. QED  BY <1>1, <1>2

LEMMA ReturnsFacts ==
    ASSUME NEW found, Returns(found)
    PROVE  src' = 0 /\ pc' \in {"have", "next", "done"} /\ mode' \in {mode, "svc"}
           /\ (pc' = "have" => mode' = mode)
BY DEF Returns

(* After a source was asked, in one disjunction.                             *)
LEMMA AfterFacts ==
    ASSUME AfterSource
    PROVE  /\ pc = "after" /\ cur' = Moved(cur, Len(frags)) /\ it' = AtMark(0)
           /\ \/ src' = 0 /\ pc' \in {"have", "next", "done"} /\ mode' \in {mode, "svc"}
                 /\ (pc' = "have" => mode' = mode)
              \/ ~cur'.on /\ src < 3 /\ src' = src + 1 /\ pc' = "poll" /\ mode' = mode
           /\ UNCHANGED <<frags, buf, send, up, sending, acked>>
<1>1. Len(Sources) = 3
  BY DEF Sources
<1>. QED  BY <1>1, ReturnsFacts DEF AfterSource, store, log, partial, life

LEMMA FirstFacts ==
    ASSUME FirstFragment
    PROVE  /\ pc = "first" /\ cur' = Moved(cur, Len(frags)) /\ it' = it
           /\ \/ cur'.on /\ src' = 0 /\ pc' = "have" /\ mode' = mode
              \/ ~cur'.on /\ src' = 1 /\ pc' = "poll" /\ mode' = mode
           /\ UNCHANGED <<frags, buf, send, up, sending, acked>>
BY DEF FirstFragment, Returns, store, log, partial, life

LEMMA WhereNext ==
    ASSUME QueueInv, Next, QueueTypes'
    PROVE  Where'
<1> USE DEF QueueInv, AtSource
<1>0. /\ Len(frags) \in Nat /\ cur \in Iterator /\ cur.at \in Nat /\ cur.on \in BOOLEAN
      /\ sending \in 0..Len(frags) /\ acked \in 0..Len(frags) /\ src \in 0..3
  BY FragsFacts DEF QueueTypes, DataTypes, ControlTypes, Iterator
<1>m. \A n \in 0..Len(frags) : AtMark(n).at = n /\ ~AtMark(n).on
  BY CurFacts
<1>c. /\ Moved(cur, Len(frags)).at <= Len(frags)
      /\ Moved(cur, Len(frags)).on => Moved(cur, Len(frags)).at < Len(frags)
  BY CurFacts
<1> USE DEF store, log, partial, loop, wake, life, world
<1>g. ASSUME Gone, frags' = frags
      PROVE  Where'
  BY <1>g, <1>0 DEF Gone, Where, AtMark
<1>d. Dies => Where'
  BY <1>g, DiesFacts DEF Dies
<1>1. CASE RunAlarm
  BY <1>1 DEF RunAlarm, Where
<1>2. CASE SendViaHttp
  BY <1>0, <1>2, <1>m DEF SendViaHttp, Where
<1>3. CASE MayDie
  <2>1. CASE ~Dies
    <3>1. UNCHANGED <<frags, buf, src, send>>
      BY <1>3, <2>1, MayDieFacts
    <3>. QED  BY <1>3, <2>1, <3>1, SearchFacts DEF Where
  <2>. QED  BY <1>d, <2>1
<1>4. CASE AckRequestFails \/ UploadFails
  BY <1>4 DEF AckRequestFails, UploadFails, RequestFails, HttpReturns, Where
<1>a. CASE NotYetAcked \/ AckFound \/ GoToEnded \/ PassSent
  BY <1>a, <1>c DEF NotYetAcked, AckFound, GoToEnded, PassSent, Where
<1>b. CASE MarkAcked \/ SendingFollows \/ MarkSending
  BY <1>b DEF MarkAcked, SendingFollows, MarkSending, Where
<1>5. CASE NextFragment
  BY <1>0, <1>5, <1>m DEF NextFragment, Where
<1>f. CASE FirstFragment
  BY <1>c, <1>f, FirstFacts DEF Where
<1>6. CASE Poll
  BY <1>6 DEF Poll, Where
<1>7. CASE Take
  BY <1>7 DEF Take, Where
<1>r. CASE ReadRecord
  BY <1>r, <1>d DEF ReadRecord, Where
<1>8. CASE MarkSent
  BY <1>8 DEF MarkSent, Where
<1>s. CASE AfterSource
  BY <1>0, <1>c, <1>s, AfterFacts DEF Where
<1>9. CASE BeginFragment
  BY <1>9 DEF BeginFragment, Where
<1>10. CASE Put
  <2>2. CASE ~Dies
    <3>1. /\ \E u : buf' = [buf EXCEPT !.units = u]
          /\ UNCHANGED <<frags, src, cur, send>> /\ pc = "put" /\ buf.open /\ pc' \in {"end", "take"}
      BY <1>10, <2>2 DEF Put
    <3>2. buf'.open
      BY <3>1 DEF QueueTypes, DataTypes, Buffer
    <3>. QED  BY <1>0, <3>1, <3>2 DEF Where
  <2>. QED  BY <1>d, <2>2
<1>11. CASE EndFragment
  <2>1. /\ frags' = Append(frags, [seq |-> buf.seq, units |-> Held])
        /\ UNCHANGED <<buf, src, cur, send>> /\ pc = "end" /\ pc' = "clear"
    BY <1>11 DEF EndFragment
  <2>2. [seq |-> buf.seq, units |-> Held] \in Fragment
    BY HeldType DEF Fragment, QueueTypes, DataTypes, Buffer
  <2>3. /\ Len(frags') = Len(frags) + 1 /\ frags' # <<>>
        /\ frags'[Len(frags')].seq = buf.seq
    <3> DEFINE f == [seq |-> buf.seq, units |-> Held]
    <3>1. f.seq = buf.seq /\ f \in Fragment /\ frags' = Append(frags, f) /\ frags \in Seq(Fragment)
      BY <2>1, <2>2 DEF QueueTypes, DataTypes
    <3> HIDE DEF f
    <3>. QED  BY <1>0, <3>1
  <2>. QED  BY <1>0, <2>1, <2>3 DEF Where
<1>12. CASE ClearBuffer
  BY <1>0, <1>12 DEF ClearBuffer, Where
<1>13. CASE GetFragment
  BY <1>0, <1>13 DEF GetFragment, Where
<1>h. CASE ReadEnded
  BY <1>0, <1>h DEF ReadEnded, Where
<1>14. CASE Uploaded
  BY <1>0, <1>14, <1>g, UploadedFacts DEF Where
<1>15. CASE TrySend
  BY <1>15 DEF TrySend, Where
<1>16. CASE Done
  BY <1>16 DEF Done, Where
<1>17. CASE \E w \in {"person", "chat"} : Visit(w)
  BY <1>17 DEF Visit, Where
<1>18. CASE DeadlinePasses \/ TimerFires \/ AppendChat \/ PersonJoins
  BY <1>18 DEF DeadlinePasses, TimerFires, AppendChat, PersonJoins, Where
<1>19. CASE LeaveBegins \/ LeaveRecorded
  BY <1>19 DEF LeaveBegins, LeaveRecorded, Where
<1>20. CASE UIThread
  <2>1. CASE HasUnsent
    BY <1>0, <2>1, <1>m DEF HasUnsent, Where
  <2>2. CASE UnsentFragment
    BY <1>c, <2>2 DEF UnsentFragment, Where
  <2>3. CASE \E s \in {"team", "member"} : HasMessage(s)
    BY <2>3 DEF HasMessage, Where
  <2>. QED  BY <1>20, <2>1, <2>2, <2>3 DEF UIThread
<1>21. CASE NetChanges \/ ServiceChanges \/ \E f \in handed : Delivered(f)
  BY <1>21 DEF NetChanges, ServiceChanges, Delivered, Where
<1>22. CASE Killed
  BY <1>22, <1>g DEF Killed
<1>23. CASE Restart
  BY <1>23 DEF Restart, Where
<1>. QED
  BY <1>1, <1>2, <1>3, <1>4, <1>a, <1>b, <1>5, <1>f, <1>6, <1>7, <1>r, <1>8, <1>s, <1>9,
     <1>10, <1>11, <1>12, <1>13, <1>h, <1>14, <1>15, <1>16, <1>17, <1>18, <1>19, <1>20, <1>21,
     <1>22, <1>23 DEF Next, Background, MayDie

LEMMA SourceFacts ==
    Len(Sources) = 3 /\ \A i \in 1..3 : Sources[i] \in SourceNames
BY DEF Sources, SourceNames

(* A message's units.                                                        *)
LEMMA UnitsFacts ==
    ASSUME NEW s \in SourceNames, NEW i \in Nat
    PROVE  UnitsOf(s, i) \in Seq(Unit)
<1>1. Size[s] \in Nat
  BY SizeAssumption DEF SourceNames
<1>2. \A k \in 1..Size[s] : <<s, i, k>> \in Unit
  BY <1>1 DEF Unit
<1>. QED  BY <1>1, <1>2 DEF UnitsOf

LEMMA DataNext ==
    ASSUME QueueInv, Next
    PROVE  DataTypes'
<1> USE DEF QueueInv, QueueTypes
<1>0. /\ recs \in [SourceNames -> Nat] /\ smark \in [SourceNames -> Nat] /\ persons \in Nat
      /\ frags \in Seq(Fragment) /\ buf \in Buffer /\ work \in Seq(Unit)
      /\ nextSeq \in Nat /\ it \in Iterator /\ it.at \in Nat
      /\ buf.open \in BOOLEAN /\ buf.seq \in Nat /\ buf.units \in Seq(Unit)
  BY DEF DataTypes, ControlTypes, Iterator, Buffer
<1>1. (handed \in SUBSET Fragment /\ received \in SUBSET Fragment /\ IsFiniteSet(received))'
  <2>1. \A i \in 1..Len(frags) : frags[i] \in Fragment
    BY <1>0, FragsFacts
  <2>2. handed' \in SUBSET Fragment
    <3>1. handed \in SUBSET Fragment
      BY DEF DataTypes
    <3>2. handed' = handed \/ (send \in 1..Len(frags) /\ handed' = handed \cup {frags[send]})
      BY StepGives DEF Grows
    <3>. QED  BY <2>1, <3>1, <3>2
  <2>3. received' \in SUBSET Fragment /\ IsFiniteSet(received')
    <3>1. CASE received' = received
      BY <3>1 DEF DataTypes
    <3>2. CASE \E i \in 1..Len(frags) : received' = Keep(received, frags[i])
      BY <3>2, KeepFacts
    <3>. QED  BY <3>1, <3>2, StepGives DEF Grows
  <2>. QED  BY <2>2, <2>3
<1>2. (frags \in Seq(Fragment))'
  <2>1. CASE Ended
    <3>1. PICK u \in Seq(Unit) : frags' = Append(frags, [seq |-> buf.seq, units |-> u])
      BY <2>1 DEF Ended
    <3>2. [seq |-> buf.seq, units |-> u] \in Fragment
      BY <1>0 DEF Fragment
    <3>. QED  BY <1>0, <3>1, <3>2
  <2>. QED  BY <1>0, <2>1, StepSeqs DEF Kept, Begun, Cleared, Restarted
<1>3. ASSUME UNCHANGED <<recs, smark, persons, buf, work, nextSeq>>
      PROVE  DataTypes'
  BY <1>0, <1>1, <1>2, <1>3 DEF DataTypes
<1> USE DEF store, log, partial, loop, wake, life, world
<1>4. ASSUME Gone, UNCHANGED <<recs, persons, buf>>, smark' \in [SourceNames -> Nat]
      PROVE  DataTypes'
  <2>1. work' = <<>> /\ nextSeq' = 0
    BY <1>4 DEF Gone
  <2>2. <<>> \in Seq(Unit)
    OBVIOUS
  <2>. QED  BY <1>0, <1>1, <1>2, <1>4, <2>1, <2>2 DEF DataTypes
<1>5. ASSUME UNCHANGED <<persons, buf, work, nextSeq>>,
             recs' \in [SourceNames -> Nat], smark' \in [SourceNames -> Nat]
      PROVE  DataTypes'
  BY <1>0, <1>1, <1>2, <1>5 DEF DataTypes
<1>6. [recs EXCEPT !["member"] = persons] \in [SourceNames -> Nat]
  BY <1>0
<1>7. CASE RunAlarm
  <2>1. recs' \in {recs, [recs EXCEPT !["member"] = persons]}
    BY <1>7 DEF RunAlarm
  <2>2. UNCHANGED <<smark, persons, buf, work, nextSeq>>
    BY <1>7 DEF RunAlarm
  <2>. QED  BY <1>0, <1>5, <1>6, <2>1, <2>2
<1>8. CASE \E w \in {"person", "chat"} : Visit(w)
  <2>1. recs' \in {recs, [recs EXCEPT !["member"] = persons]}
    BY <1>8 DEF Visit
  <2>2. UNCHANGED <<smark, persons, buf, work, nextSeq>>
    BY <1>8 DEF Visit
  <2>. QED  BY <1>0, <1>5, <1>6, <2>1, <2>2
<1>d. Dies => DataTypes'
  BY <1>0, <1>4, DiesFacts DEF Dies
<1>9. CASE Moves
  BY <1>3, <1>9, MovesFacts
<1>10. CASE MayDie
  BY <1>3, <1>10, <1>d, MayDieFacts
<1>11. CASE AckRequestFails \/ UploadFails
  BY <1>3, <1>11 DEF AckRequestFails, UploadFails, RequestFails, HttpReturns
<1>12. CASE ReadRecord
  <2>1. src \in 1..3
    BY <1>12 DEF ReadRecord, Where, ControlTypes, AtSource
  <2>2. Sources[src] \in SourceNames /\ it.at + 1 \in Nat
    BY <1>0, <2>1, SourceFacts
  <2>3. CASE ~Dies
    <3>1. /\ work' = UnitsOf(Sources[src], it.at + 1)
          /\ UNCHANGED <<recs, smark, persons, buf, nextSeq>>
      BY <1>12, <2>3 DEF ReadRecord
    <3>2. work' \in Seq(Unit)
      BY <2>2, <3>1, UnitsFacts
    <3>. QED  BY <1>0, <1>1, <1>2, <3>1, <3>2 DEF DataTypes
  <2>. QED  BY <1>d, <2>3
<1>13. CASE MarkSent
  <2>1. smark' = [smark EXCEPT ![Sources[src]] = it.at]
    BY <1>13 DEF MarkSent
  <2>2. smark' \in [SourceNames -> Nat]
    BY <1>0, <2>1
  <2>3. UNCHANGED <<recs, persons, buf, work, nextSeq>>
    BY <1>13 DEF MarkSent
  <2>. QED  BY <1>0, <1>5, <2>2, <2>3
<1>14. CASE BeginFragment
  <2>1. /\ buf' = [open |-> TRUE, seq |-> nextSeq, units |-> <<>>] /\ nextSeq' = nextSeq + 1
        /\ UNCHANGED <<recs, smark, persons, work>>
    BY <1>14 DEF BeginFragment
  <2>2. <<>> \in Seq(Unit)
    OBVIOUS
  <2>3. buf' \in Buffer
    BY <1>0, <2>1, <2>2 DEF Buffer
  <2>. QED  BY <1>0, <1>1, <1>2, <2>1, <2>3 DEF DataTypes
<1>15. CASE Put
  <2>1. CASE Dies
    BY <1>0, <1>4, <2>1 DEF Dies
  <2>2. CASE ~Dies
    <3> DEFINE room == Cap - Len(Held)
               n == IF Len(work) < room THEN Len(work) ELSE room
    <3>1. /\ room > 0
          /\ buf' = [buf EXCEPT !.units = Held \o SubSeq(work, 1, n)]
          /\ work' = SubSeq(work, n + 1, Len(work))
          /\ UNCHANGED <<recs, smark, persons, nextSeq>>
      BY <1>15, <2>2 DEF Put
    <3>2. Held \in Seq(Unit) /\ Len(Held) \in Nat /\ Len(work) \in Nat /\ Cap \in Nat
      BY <1>0, HeldType, CapAssumption
    <3>3. n \in 0..Len(work)
      BY <3>1, <3>2
    <3> HIDE DEF n, room
    <3>4. SubSeq(work, 1, n) \in Seq(Unit) /\ SubSeq(work, n + 1, Len(work)) \in Seq(Unit)
      <4>1. \A i \in 1..n : i \in 1..Len(work)
        BY <3>2, <3>3
      <4>2. \A i \in (n + 1)..Len(work) : i \in 1..Len(work)
        BY <3>2, <3>3
      <4>. QED  BY <1>0, <3>2, <3>3, <4>1, <4>2, SubSeqProperties
    <3>5. Held \o SubSeq(work, 1, n) \in Seq(Unit)
      BY <3>2, <3>4, ConcatProperties
    <3>6. buf' \in Buffer
      BY <1>0, <3>1, <3>5 DEF Buffer
    <3>. QED  BY <1>0, <1>1, <1>2, <3>1, <3>4, <3>6 DEF DataTypes
  <2>. QED  BY <2>1, <2>2
<1>16. CASE EndFragment
  BY <1>3, <1>16 DEF EndFragment
<1>17. CASE ClearBuffer
  <2>1. buf' = NoBuf /\ UNCHANGED <<recs, smark, persons, work, nextSeq>>
    BY <1>17 DEF ClearBuffer
  <2>2. <<>> \in Seq(Unit)
    OBVIOUS
  <2>3. NoBuf \in Buffer
    BY <2>2 DEF NoBuf, Buffer
  <2>. QED  BY <1>0, <1>1, <1>2, <2>1, <2>3 DEF DataTypes
<1>19. CASE Uploaded
  BY <1>0, <1>3, <1>4, <1>19, UploadedFacts
<1>20. CASE TrySend \/ Done \/ DeadlinePasses \/ TimerFires
  BY <1>3, <1>20 DEF TrySend, Done, DeadlinePasses, TimerFires
<1>21. CASE AppendChat
  <2>1. recs' \in [SourceNames -> Nat]
    BY <1>0, <1>21 DEF AppendChat, SourceNames
  <2>. QED  BY <1>0, <1>5, <1>21, <2>1 DEF AppendChat
<1>22. CASE PersonJoins
  <2>1. persons' \in Nat /\ UNCHANGED <<recs, smark, buf, work, nextSeq>>
    BY <1>0, <1>22 DEF PersonJoins
  <2>. QED  BY <1>0, <1>1, <1>2, <2>1 DEF DataTypes
<1>23. CASE LeaveRecorded
  <2>1. recs' \in [SourceNames -> Nat]
    BY <1>0, <1>23 DEF LeaveRecorded, SourceNames
  <2>. QED  BY <1>0, <1>5, <1>23, <2>1 DEF LeaveRecorded
<1>24. CASE LeaveBegins \/ NetChanges \/ ServiceChanges
  BY <1>3, <1>24 DEF LeaveBegins, NetChanges, ServiceChanges
<1>25. CASE \E f \in handed : Delivered(f)
  BY <1>3, <1>25 DEF Delivered
<1>26. CASE Killed
  <2>1. smark' \in [SourceNames -> Nat]
    <3>1. smark' = smark \/ smark' = [smark EXCEPT ![Sources[src]] = 0]
      BY <1>26 DEF Killed
    <3>2. [smark EXCEPT ![Sources[src]] = 0] \in [SourceNames -> Nat]
      BY <1>0
    <3>. QED  BY <1>0, <3>1, <3>2
  <2>. QED  BY <1>4, <1>26, <2>1 DEF Killed
<1>27. CASE Restart
  <2>1. nextSeq' \in Nat
    <3>1. LastSeq + 1 \in Nat
      BY <1>0, FragsFacts DEF LastSeq
    <3>. QED  BY <1>0, <1>27, <3>1 DEF Restart
  <2>2. UNCHANGED <<recs, smark, persons, buf, work>>
    BY <1>27 DEF Restart
  <2>. QED  BY <1>0, <1>1, <1>2, <2>1, <2>2 DEF DataTypes
<1>. QED
  BY <1>7, <1>8, <1>9, <1>10, <1>11, <1>12, <1>13, <1>14, <1>15, <1>16, <1>17, <1>19,
     <1>20, <1>21, <1>22, <1>23, <1>24, <1>25, <1>26, <1>27
  DEF Next, Background, Moves, MayDie

LEMMA ControlNext ==
    ASSUME QueueInv, Next, DataTypes'
    PROVE  ControlTypes'
<1> USE DEF QueueInv, QueueTypes
<1>0. /\ up \in BOOLEAN /\ pc \in Pcs /\ mode \in {"http", "svc"} /\ src \in 0..3
      /\ it \in Iterator /\ cur \in Iterator /\ send \in Nat
      /\ sending \in 0..Len(frags) /\ acked \in 0..Len(frags) /\ Len(frags) \in Nat
      /\ recs \in [SourceNames -> Nat] /\ smark \in [SourceNames -> Nat]
      /\ frags \in Seq(Fragment)
  BY FragsFacts DEF DataTypes, ControlTypes
<1>i. it.at \in Nat /\ it.on \in BOOLEAN /\ cur.at \in 0..Len(frags) /\ cur.on \in BOOLEAN
  BY <1>0, CurFacts DEF Iterator
<1>m. \A n \in 0..Len(frags) : AtMark(n) \in Iterator
  BY <1>0, AtMarkFacts
<1>c. Moved(cur, Len(frags)) \in Iterator
  BY CurFacts
<1>r. ASSUME NEW p \in Iterator, NEW n \in Nat
      PROVE  Moved(p, n) \in Iterator
  <2> DEFINE k == IF p.on THEN p.at + 1 ELSE p.at
             b == k < n
  <2>1. k \in Nat /\ b \in BOOLEAN
    BY DEF Iterator
  <2>2. Moved(p, n) = [at |-> k, on |-> b]
    BY DEF Moved
  <2> HIDE DEF k, b
  <2>. QED  BY <2>1, <2>2 DEF Iterator
<1>z. AtMark(0) \in Iterator
  BY AtMarkFacts
<1> USE DEF store, log, partial, loop, wake, life, world
<1>g. ASSUME Gone, frags' = frags, sending' \in {sending, 0}, acked' \in {acked, 0}
      PROVE  ControlTypes'
  <2>1. /\ up' = FALSE /\ pc' = "idle" /\ mode' = "http" /\ src' = 0 /\ send' = 0
        /\ it' = AtMark(0) /\ cur' = AtMark(0)
    BY <1>g DEF Gone
  <2>2. sending' \in 0..Len(frags) /\ acked' \in 0..Len(frags)
    BY <1>0, <1>g
  <2>3. /\ up' \in BOOLEAN /\ pc' \in Pcs /\ mode' \in {"http", "svc"} /\ src' \in 0..3
        /\ send' \in Nat /\ it' \in Iterator /\ cur' \in Iterator
    <3>1. it' \in Iterator /\ cur' \in Iterator
      BY <1>z, <2>1, Zenon
    <3>2. "idle" \in Pcs /\ "http" \in {"http", "svc"} /\ 0 \in 0..3 /\ 0 \in Nat
      BY DEF Pcs
    <3>. QED  BY <2>1, <3>1, <3>2, Zenon
  <2>. QED  BY <1>0, <1>g, <2>2, <2>3 DEF ControlTypes
<1>d. Dies => ControlTypes'
  BY <1>g, DiesFacts DEF Dies
<1>1. CASE RunAlarm
  BY <1>0, <1>1 DEF RunAlarm, ControlTypes, Pcs
<1>2. CASE SendViaHttp
  BY <1>0, <1>2, <1>m DEF SendViaHttp, ControlTypes, Pcs
<1>3. CASE MayDie
  <2>1. CASE ~Dies
    <3>1. UNCHANGED <<frags, up, sending, acked, mode, src, it, send>>
      BY <1>3, <2>1, MayDieFacts
    <3>2. cur' \in Iterator /\ pc' \in Pcs
      BY <1>3, <2>1, SearchFacts DEF Pcs
    <3>. QED  BY <1>0, <3>1, <3>2 DEF ControlTypes
  <2>. QED  BY <1>d, <2>1
<1>4. CASE AckRequestFails \/ UploadFails
  BY <1>0, <1>4 DEF AckRequestFails, UploadFails, RequestFails, HttpReturns, ControlTypes, Pcs
<1>a. CASE NotYetAcked \/ AckFound \/ GoToEnded \/ PassSent
  BY <1>0, <1>a, <1>c DEF NotYetAcked, AckFound, GoToEnded, PassSent, ControlTypes, Pcs
<1>b. CASE MarkAcked \/ SendingFollows \/ MarkSending
  BY <1>0, <1>b, <1>i DEF MarkAcked, SendingFollows, MarkSending, ControlTypes, Pcs
<1>5. CASE NextFragment
  BY <1>0, <1>5, <1>m DEF NextFragment, ControlTypes, Pcs
<1>f. CASE FirstFragment
  BY <1>0, <1>c, <1>f, FirstFacts DEF ControlTypes, Pcs
<1>6. CASE Poll
  <2>1. Sources[src] \in SourceNames
    BY <1>0, <1>6, SourceFacts DEF Poll, Where, AtSource
  <2>2. it' \in {it, AtMark(smark[Sources[src]])} /\ pc' \in {"take", "after"}
    BY <1>6 DEF Poll
  <2>3. it' \in Iterator
    BY <1>0, <2>1, <2>2, AtMarkFacts
  <2>. QED  BY <1>0, <1>6, <2>2, <2>3 DEF Poll, ControlTypes, Pcs
<1>7. CASE Take
  <2>1. Sources[src] \in SourceNames
    BY <1>0, <1>7, SourceFacts DEF Take, Where, AtSource
  <2>2. it' \in Iterator
    BY <1>0, <1>7, <1>r, <2>1 DEF Take, NextRecord
  <2>3. pc' \in {"read", "mark"}
    BY <1>7 DEF Take
  <2>. QED  BY <1>0, <1>7, <2>2, <2>3 DEF Take, ControlTypes, Pcs
<1>t. CASE ReadRecord
  BY <1>0, <1>d, <1>t DEF ReadRecord, ControlTypes, Pcs
<1>8. CASE MarkSent
  BY <1>0, <1>8 DEF MarkSent, ControlTypes, Pcs
<1>s. CASE AfterSource
  BY <1>0, <1>c, <1>s, <1>z, AfterFacts DEF ControlTypes, Pcs
<1>9. CASE BeginFragment
  BY <1>0, <1>9 DEF BeginFragment, ControlTypes
<1>10. CASE Put
  <2>2. CASE ~Dies
    <3>1. UNCHANGED <<up, mode, src, it, cur, send, frags, sending, acked>> /\ pc' \in {"end", "take"}
      BY <1>10, <2>2 DEF Put
    <3>. QED  BY <1>0, <3>1 DEF ControlTypes, Pcs
  <2>. QED  BY <1>d, <2>2
<1>11. CASE EndFragment
  <2>1. Len(frags') = Len(frags) + 1
    <3>1. [seq |-> buf.seq, units |-> Held] \in Fragment
      BY HeldType DEF Fragment, DataTypes, Buffer
    <3>. QED  BY <1>0, <1>11, <3>1 DEF EndFragment
  <2>2. sending' \in 0..Len(frags') /\ acked' \in 0..Len(frags')
    BY <1>0, <1>11, <2>1 DEF EndFragment
  <2>. QED  BY <1>0, <1>11, <2>2 DEF EndFragment, ControlTypes, Pcs
<1>12. CASE ClearBuffer
  BY <1>0, <1>12 DEF ClearBuffer, ControlTypes, Pcs
<1>13. CASE GetFragment
  BY <1>0, <1>13, <1>i DEF GetFragment, ControlTypes, Pcs
<1>h. CASE ReadEnded
  BY <1>0, <1>h, <1>i DEF ReadEnded, ControlTypes, Pcs
<1>14. CASE Uploaded
  BY <1>0, <1>14, <1>g, UploadedFacts DEF ControlTypes, Pcs
<1>15. CASE TrySend
  BY <1>0, <1>15 DEF TrySend, ControlTypes, Pcs
<1>16. CASE Done
  BY <1>0, <1>16 DEF Done, ControlTypes, Pcs
<1>17. CASE \E w \in {"person", "chat"} : Visit(w)
  BY <1>0, <1>17 DEF Visit, ControlTypes
<1>18. CASE DeadlinePasses \/ TimerFires \/ AppendChat \/ PersonJoins
  BY <1>0, <1>18 DEF DeadlinePasses, TimerFires, AppendChat, PersonJoins, ControlTypes
<1>19. CASE LeaveBegins \/ LeaveRecorded
  BY <1>0, <1>19 DEF LeaveBegins, LeaveRecorded, ControlTypes
<1>20. CASE UIThread
  <2>1. CASE HasUnsent
    BY <1>0, <1>m, <2>1 DEF HasUnsent, ControlTypes
  <2>2. CASE UnsentFragment
    BY <1>0, <1>c, <2>2 DEF UnsentFragment, ControlTypes
  <2>3. ASSUME NEW s \in {"team", "member"}, HasMessage(s)
        PROVE  ControlTypes'
    <3> DEFINE p == IF Using(s) THEN it ELSE AtMark(smark[s])
    <3>1. AtMark(smark[s]) \in Iterator /\ recs[s] \in Nat
      BY <1>0, AtMarkFacts DEF SourceNames
    <3>2. p \in Iterator
      BY <1>0, <3>1
    <3> HIDE DEF p
    <3>3. Moved(p, recs[s]) \in Iterator
      BY <1>r, <3>1, <3>2
    <3>4. /\ it' \in {it, AtMark(smark[s]), Moved(p, recs[s])}
          /\ UNCHANGED <<up, pc, mode, src, cur, send, frags, sending, acked>>
      BY <2>3 DEF HasMessage, p
    <3>. QED  BY <1>0, <3>1, <3>3, <3>4 DEF ControlTypes
  <2>. QED  BY <1>20, <2>1, <2>2, <2>3 DEF UIThread
<1>21. CASE NetChanges \/ ServiceChanges \/ \E f \in handed : Delivered(f)
  BY <1>0, <1>21 DEF NetChanges, ServiceChanges, Delivered, ControlTypes
<1>22. CASE Killed
  BY <1>22, <1>g DEF Killed
<1>23. CASE Restart
  BY <1>0, <1>23 DEF Restart, ControlTypes
<1>. QED
  BY <1>1, <1>2, <1>3, <1>4, <1>a, <1>b, <1>5, <1>f, <1>6, <1>7, <1>t, <1>8, <1>s, <1>9,
     <1>10, <1>11, <1>12, <1>13, <1>h, <1>14, <1>15, <1>16, <1>17, <1>18, <1>19, <1>20, <1>21,
     <1>22, <1>23 DEF Next, Background, MayDie

-----------------------------------------------------------------------------
LEMMA QueueInit == Init => QueueInv
<1> SUFFICES ASSUME Init
             PROVE  QueueInv
  OBVIOUS
<1>1. /\ frags = <<>> /\ Len(frags) = 0 /\ buf = NoBuf /\ work = <<>> /\ nextSeq = 0
      /\ handed = {} /\ received = {} /\ persons = 1 /\ sending = 0 /\ acked = 0
      /\ up = TRUE /\ pc = "idle" /\ mode = "http" /\ src = 0 /\ send = 0
      /\ it = AtMark(0) /\ cur = AtMark(0)
  BY DEF Init
<1>2. recs \in [SourceNames -> Nat] /\ smark \in [SourceNames -> Nat]
  BY DEF Init
<1>3. DataTypes
  <2>1. <<>> \in Seq(Unit) /\ <<>> \in Seq(Fragment)
    OBVIOUS
  <2>2. buf \in Buffer
    BY <1>1, <2>1 DEF NoBuf, Buffer
  <2>3. IsFiniteSet(received)
    BY <1>1, FS_EmptySet
  <2>. QED  BY <1>1, <1>2, <2>1, <2>2, <2>3 DEF DataTypes
<1>4. AtMark(0) \in Iterator /\ AtMark(0).at = 0 /\ ~AtMark(0).on
  BY AtMarkFacts
<1>5. ControlTypes
  BY <1>1, <1>4 DEF ControlTypes, Pcs
<1>6. Where
  BY <1>1, <1>4 DEF Where, AtSource
<1>7. Numbered
  BY <1>1 DEF Numbered, NoBuf, LastSeq
<1>8. Given
  BY <1>1 DEF Given
<1>. QED  BY <1>3, <1>5, <1>6, <1>7, <1>8 DEF QueueInv, QueueTypes

LEMMA QueueNext == QueueInv /\ [Next]_vars => QueueInv'
<1> SUFFICES ASSUME QueueInv, [Next]_vars
             PROVE  QueueInv'
  OBVIOUS
<1>1. CASE Next
  <2>1. QueueTypes'
    BY <1>1, DataNext, ControlNext DEF QueueTypes
  <2>2. Where' /\ Numbered'
    BY <1>1, <2>1, WhereNext, NumberedNext
  <2>. QED  BY <1>1, <2>1, <2>2, GivenNext DEF QueueInv
<1>2. CASE UNCHANGED vars
  BY <1>2 DEF vars, QueueInv, QueueTypes, DataTypes, ControlTypes, Where, Numbered, LastSeq,
              Given
<1>. QED  BY <1>1, <1>2

(* Fragments are numbered from 0 without a gap, and a number is used again   *)
(* only for the buffer that a kill left in both files - whatever the UI      *)
(* thread does to the iterators, and when that ends the process.             *)
THEOREM QueueSeqs == Spec => []SeqsContiguous
<1>1. QueueInv => SeqsContiguous
  <2> SUFFICES ASSUME QueueInv
               PROVE  SeqsContiguous
    OBVIOUS
  <2> DEFINE a == [i \in 1..Len(frags) |-> frags[i].seq]
             b == IF buf.open THEN <<buf.seq>> ELSE <<>>
             seqs == a \o b
  <2>1. /\ Len(frags) \in Nat /\ (frags # <<>> <=> Len(frags) > 0)
        /\ \A i \in 1..Len(frags) : frags[i].seq \in Nat
        /\ buf.seq \in Nat /\ buf.open \in BOOLEAN
    BY FragsFacts DEF QueueInv, QueueTypes, DataTypes, Buffer
  <2>2. a \in Seq(Nat) /\ Len(a) = Len(frags) /\ \A i \in 1..Len(frags) : a[i] = frags[i].seq
    BY <2>1
  <2>3. b \in Seq(Nat) /\ Len(b) = IF buf.open THEN 1 ELSE 0
    BY <2>1
  <2>4. buf.open => b[1] = buf.seq
    OBVIOUS
  <2> HIDE DEF a, b
  <2>5. /\ Len(seqs) = Len(frags) + Len(b)
        /\ \A i \in 1..Len(frags) : seqs[i] = frags[i].seq
        /\ buf.open => seqs[Len(frags) + 1] = buf.seq
    <3>1. /\ Len(seqs) = Len(a) + Len(b)
          /\ \A i \in 1..(Len(a) + Len(b)) : seqs[i] = IF i <= Len(a) THEN a[i] ELSE b[i - Len(a)]
      <4>1. a \in Seq(Nat) /\ b \in Seq(Nat)
        BY <2>2, <2>3
      <4>. QED  BY <4>1, ConcatProperties, Zenon
    <3>2. \A i \in 1..Len(frags) : seqs[i] = frags[i].seq
      BY <2>1, <2>2, <2>3, <3>1
    <3>3. ASSUME buf.open
          PROVE  seqs[Len(frags) + 1] = buf.seq
      <4>1. Len(b) = 1 /\ (Len(frags) + 1) - Len(frags) = 1 /\ ~(Len(frags) + 1 <= Len(frags))
        BY <2>1, <2>3, <3>3
      <4>2. Len(frags) + 1 \in 1..(Len(frags) + 1)
        BY <2>1
      <4>. QED  BY <2>2, <2>4, <3>1, <3>3, <4>1, <4>2
    <3>. QED  BY <2>2, <3>1, <3>2, <3>3
  <2> HIDE DEF seqs
  <2>6. ASSUME NEW i \in 1..Len(seqs)
        PROVE  IF i = 1 THEN seqs[i] = 0 ELSE seqs[i] - seqs[i - 1] \in {0, 1}
    <3>1. CASE i \in 1..Len(frags)
      BY <2>1, <2>5, <3>1 DEF QueueInv, Numbered
    <3>2. CASE buf.open /\ i = Len(frags) + 1
      BY <2>1, <2>5, <3>2 DEF QueueInv, Numbered, LastSeq
    <3>. QED  BY <2>1, <2>3, <2>5, <3>1, <3>2
  <2>. QED  BY <2>6 DEF SeqsContiguous, seqs, a, b
<1>. QED  BY <1>1, QueueInit, QueueNext, PTL DEF Spec

-----------------------------------------------------------------------------
(* While the UI thread does not ask for unsent messages, the background      *)
(* thread has the iterators to itself.                                       *)
Alone == asks = 0 /\ ask = NotAsking

LEMMA AloneNext ==
    ASSUME MaxAsks = 0, Alone, Next
    PROVE  Alone' /\ ~UIThread
<1> USE DEF store, log, partial, loop, wake, life, world
<1>0. ~UIThread
  <2>1. ~HasUnsent
    BY DEF HasUnsent, Alone
  <2>2. ~UnsentFragment
    <3>1. <<>> # <<"fragments", "next">>
      OBVIOUS
    <3>. QED  BY <3>1 DEF UnsentFragment, Alone, NotAsking
  <2>3. ASSUME NEW s \in {"team", "member"}
        PROVE  ~HasMessage(s)
    <3>1. <<>> # <<s, "reset">> /\ <<>> # <<s, "next">>
      OBVIOUS
    <3>. QED  BY <3>1 DEF HasMessage, Alone, NotAsking
  <2>. QED  BY <2>1, <2>2, <2>3 DEF UIThread
<1> SUFFICES Alone'
  BY <1>0
<1>g. Dies => Alone'
  BY DEF Dies, Gone, Alone
<1>1. CASE RunAlarm \/ SendViaHttp \/ NotYetAcked \/ AckRequestFails \/ UploadFails
  BY <1>1 DEF RunAlarm, SendViaHttp, NotYetAcked, AckRequestFails, UploadFails, RequestFails,
              Alone
<1>2. CASE AckReply \/ AckStep \/ AckScan \/ NoFragment \/ ReadRecord \/ Put
  BY <1>2, <1>g DEF AckReply, AckStep, AckScan, NoFragment, ReadRecord, Put, Alone
<1>3. CASE AckFound \/ MarkAcked \/ SendingFollows \/ NextFragment \/ FirstFragment
  BY <1>3 DEF AckFound, MarkAcked, SendingFollows, NextFragment, FirstFragment, Alone
<1>4. CASE Poll \/ Take \/ MarkSent \/ AfterSource \/ BeginFragment \/ EndFragment
  BY <1>4 DEF Poll, Take, MarkSent, AfterSource, BeginFragment, EndFragment, Alone
<1>5. CASE ClearBuffer \/ GetFragment \/ GoToEnded \/ ReadEnded
  BY <1>5 DEF ClearBuffer, GetFragment, GoToEnded, ReadEnded, Alone
<1>6. CASE Uploaded
  BY <1>6 DEF Uploaded, Gone, Alone
<1>7. CASE TrySend \/ PassSent \/ MarkSending \/ Done
  BY <1>7 DEF TrySend, PassSent, MarkSending, Done, Alone
<1>8. CASE (\E w \in {"person", "chat"} : Visit(w)) \/ \E f \in handed : Delivered(f)
  BY <1>8 DEF Visit, Delivered, Alone
<1>9. CASE DeadlinePasses \/ TimerFires \/ AppendChat \/ PersonJoins
  BY <1>9 DEF DeadlinePasses, TimerFires, AppendChat, PersonJoins, Alone
<1>10. CASE LeaveBegins \/ LeaveRecorded \/ NetChanges \/ ServiceChanges
  BY <1>10 DEF LeaveBegins, LeaveRecorded, NetChanges, ServiceChanges, Alone
<1>11. CASE Killed \/ Restart
  BY <1>11 DEF Killed, Gone, Restart, Alone
<1>. QED
  BY <1>0, <1>1, <1>2, <1>3, <1>4, <1>5, <1>6, <1>7, <1>8, <1>9, <1>10, <1>11
  DEF Next, Background

(* markAck then searches on the side where the fragment is: the server has   *)
(* all up to the ack, ...                                                    *)
Confirmed ==
    pc \in {"step", "scan", "found", "acked"} =>
        ack.seq \in Int /\ \A k \in 0..ack.seq : HasSeq(received, k)

(* ... the fragment lies ahead of the iterator, ...                          *)
Ahead(i) == IF ack.forwards THEN IF cur.on THEN cur.at + 1 < i ELSE cur.at < i
                            ELSE i <= cur.at

Sought ==
    /\ pc = "step" => \E i \in 1..Len(frags) : frags[i].seq = ack.seq /\ Ahead(i)
    /\ pc = "scan" => /\ cur.on
                      /\ \E i \in 1..Len(frags) :
                            frags[i].seq = ack.seq /\ (i = cur.at + 1 \/ Ahead(i))

(* ... and is then what the iterator is at, or just past.                    *)
Passed ==
    /\ pc = "found" => IF ack.seq < 0 THEN cur.at = 0 /\ ~cur.on
                       ELSE cur.on /\ frags[cur.at + 1].seq = ack.seq
    /\ pc = "acked" => \A i \in 1..cur.at : frags[i].seq <= ack.seq
    /\ pc = "follow" => cur.at = acked

SearchInv == Alone /\ Confirmed /\ Sought /\ Passed /\ AckedReceived

(* The search begins on the right side.                                      *)
LEMMA MarkAckFacts ==
    ASSUME QueueInv, NEW seq \in Int, MarkAck(seq), UNCHANGED frags,
           \A k \in 0..seq : HasSeq(received', k),
           seq >= 0 => \E i \in 1..Len(frags) : frags[i].seq = seq
    PROVE  Confirmed' /\ Sought' /\ Passed'
<1> DEFINE curSeq   == frags[cur.at + 1].seq
           first    == IF cur.on /\ seq >= curSeq THEN curSeq ELSE 0
           last     == IF cur.on /\ seq < curSeq THEN curSeq ELSE nextSeq - 1
           forwards == (seq - first) < (last - seq)
<1>0. /\ Len(frags) \in Nat
      /\ \A j \in 1..Len(frags) : frags[j].seq \in Nat
      /\ cur.at \in Nat /\ cur.on \in BOOLEAN /\ (cur.on => cur.at + 1 \in 1..Len(frags))
  BY FragsFacts DEF QueueInv, QueueTypes, DataTypes, ControlTypes, Where, Iterator
<1>1. /\ ack'.seq = seq /\ ack'.forwards = forwards
      /\ \/ seq < 0 /\ cur' = AtMark(0) /\ pc' = "found"
         \/ seq >= 0 /\ forwards /\ cur' = AtMark(0) /\ pc' = "step"
         \/ seq >= 0 /\ ~forwards /\ cur' = AtMark(Len(frags)) /\ pc' = "step"
         \/ seq >= 0 /\ forwards /\ first # 0 /\ cur' = cur /\ pc' = "scan"
         \/ seq >= 0 /\ ~forwards /\ last # nextSeq - 1 /\ cur' = cur /\ pc' = "scan"
  BY DEF MarkAck
<1>2. Confirmed'
  BY <1>1 DEF Confirmed
<1>3. \A n \in 0..Len(frags) : AtMark(n).at = n /\ ~AtMark(n).on
  BY <1>0, AtMarkFacts
<1>4. CASE seq < 0
  BY <1>0, <1>1, <1>2, <1>3, <1>4 DEF Sought, Passed
<1>5. CASE seq >= 0
  <2>1. PICK i \in 1..Len(frags) : frags[i].seq = seq
    BY <1>5
  <2>2. pc' \in {"step", "scan"}
    BY <1>1, <1>5
  <2>3. CASE pc' = "step"
    <3>1. Ahead(i)'
      <4>1. (forwards /\ cur'.at = 0 /\ ~cur'.on) \/ (~forwards /\ cur'.at = Len(frags))
        BY <1>0, <1>1, <1>3, <2>3
      <4>2. ack'.forwards = forwards
        BY <1>1
      <4> HIDE DEF forwards
      <4>. QED  BY <1>0, <4>1, <4>2 DEF Ahead
    <3>. QED  BY <1>1, <1>2, <2>1, <2>3, <3>1 DEF Sought, Passed
  <2>4. CASE pc' = "scan" /\ forwards
    <3>1. cur' = cur /\ cur.on /\ seq >= curSeq /\ ack'.forwards
      BY <1>1, <2>4
    <3>2. CASE cur.at + 1 < i
      BY <1>1, <1>2, <2>1, <2>4, <3>1, <3>2 DEF Sought, Passed, Ahead
    <3>3. CASE ~(cur.at + 1 < i)
      <4>1. i <= cur.at + 1 /\ cur.at + 1 \in 1..Len(frags)
        BY <1>0, <3>1, <3>3
      <4>2. frags[i].seq <= curSeq /\ curSeq \in Nat
        BY <1>0, <4>1 DEF QueueInv, Numbered
      <4>3. curSeq = seq
        BY <2>1, <3>1, <4>2
      <4>. QED  BY <1>1, <1>2, <2>4, <3>1, <4>1, <4>3 DEF Sought, Passed
    <3>. QED  BY <3>2, <3>3
  <2>5. CASE pc' = "scan" /\ ~forwards
    <3>1. cur' = cur /\ cur.on /\ seq < curSeq /\ ~ack'.forwards
      BY <1>1, <2>5
    <3>2. i <= cur.at
      <4>1. CASE cur.at + 1 <= i
        <5>1. curSeq <= frags[i].seq /\ curSeq \in Nat
          BY <1>0, <3>1, <4>1 DEF QueueInv, Numbered
        <5>. QED  BY <2>1, <3>1, <5>1
      <4>. QED  BY <1>0, <4>1
    <3>. QED  BY <1>1, <1>2, <2>1, <2>5, <3>1, <3>2 DEF Sought, Passed, Ahead
  <2>. QED  BY <2>2, <2>3, <2>4, <2>5
<1>. QED  BY <1>4, <1>5

(* It stays there.                                                           *)
LEMMA AheadFacts ==
    ASSUME QueueInv, Sought
    PROVE  pc = "step" => /\ Stepped.on
                          /\ \E i \in 1..Len(frags) :
                                /\ frags[i].seq = ack.seq
                                /\ \/ i = Stepped.at + 1
                                   \/ IF ack.forwards THEN Stepped.at + 1 < i ELSE i <= Stepped.at
<1> SUFFICES ASSUME pc = "step"
             PROVE  /\ Stepped.on
                    /\ \E i \in 1..Len(frags) :
                          /\ frags[i].seq = ack.seq
                          /\ \/ i = Stepped.at + 1
                             \/ IF ack.forwards THEN Stepped.at + 1 < i ELSE i <= Stepped.at
  OBVIOUS
<1>1. PICK i \in 1..Len(frags) : frags[i].seq = ack.seq /\ Ahead(i)
  BY DEF Sought
<1>2. QueueTypes /\ Where /\ Len(frags) \in Nat /\ cur.at \in 0..Len(frags)
  BY CurFacts DEF QueueInv
<1>3. CASE ack.forwards
  <2>1. Stepped = Moved(cur, Len(frags))
    BY <1>3 DEF Stepped
  <2>2. Stepped.at = (IF cur.on THEN cur.at + 1 ELSE cur.at) /\ (Stepped.on <=> Stepped.at < Len(frags))
    BY <1>2, <2>1, CurFacts
  <2>3. Stepped.at < i /\ Stepped.at \in Nat
    BY <1>1, <1>2, <1>3, <2>2 DEF Ahead
  <2>. QED  BY <1>1, <1>2, <1>3, <2>2, <2>3
<1>4. CASE ~ack.forwards
  <2>1. Stepped = MovedBack(cur)
    BY <1>4 DEF Stepped
  <2>2. i <= cur.at /\ cur.at # 0
    BY <1>1, <1>2, <1>4 DEF Ahead
  <2>3. Stepped.at = cur.at - 1 /\ Stepped.on
    BY <1>2, <2>1, <2>2, CurFacts
  <2>. QED  BY <1>1, <1>2, <1>4, <2>2, <2>3
<1>. QED  BY <1>3, <1>4

(* A step that leaves the search alone keeps what is known about it.         *)
LEMMA SearchStill ==
    ASSUME QueueInv, SearchInv, Next, UNCHANGED <<pc, ack, cur, frags, acked>>
    PROVE  Confirmed' /\ Sought' /\ Passed' /\ AckedReceived'
<1>1. received \subseteq received'
  BY StepKeeps
<1>2. \A k : HasSeq(received, k) => HasSeq(received', k)
  BY <1>1 DEF HasSeq
<1>3. Confirmed'
  BY <1>2 DEF SearchInv, Confirmed
<1>4. Sought' /\ Passed'
  BY DEF SearchInv, Sought, Passed, Ahead
<1>5. AckedReceived'
  BY <1>2 DEF SearchInv, AckedReceived
<1>. QED  BY <1>3, <1>4, <1>5

(* What was acked stays at the server while the mark stays.                  *)
LEMMA AckedStays ==
    ASSUME QueueInv, AckedReceived, Next, acked' \in {acked, 0}
    PROVE  AckedReceived'
<1>1. /\ Len(frags) \in Nat /\ acked \in 0..Len(frags)
      /\ \A i \in 1..Len(frags) : frags'[i] = frags[i]
      /\ received \subseteq received'
  BY StepKeeps
<1>2. \A i \in 1..acked : HasSeq(received', frags'[i].seq)
  BY <1>1 DEF AckedReceived, HasSeq
<1>. QED  BY <1>2 DEF AckedReceived

LEMMA SearchNext ==
    ASSUME MaxAsks = 0, QueueInv, SearchInv, Next
    PROVE  SearchInv'
<1>0. Alone' /\ ~UIThread
  BY AloneNext DEF SearchInv
<1> SUFFICES Confirmed' /\ Sought' /\ Passed' /\ AckedReceived'
  BY <1>0 DEF SearchInv
<1>o. ASSUME pc' \notin {"step", "scan", "found", "acked", "follow"}, acked' \in {acked, 0}
      PROVE  Confirmed' /\ Sought' /\ Passed' /\ AckedReceived'
  BY <1>o, AckedStays DEF SearchInv, Confirmed, Sought, Passed
<1>r. /\ up => IsFiniteSet(received)
      /\ \A g \in received : \E i \in 1..Len(frags) : frags[i].seq = g.seq
      /\ QueueTypes /\ Where /\ Numbered
  BY DEF QueueInv, QueueTypes, DataTypes, Given
<1> USE DEF store, log, partial, loop, wake, life, world
<1>d. ASSUME Dies
      PROVE  Confirmed' /\ Sought' /\ Passed' /\ AckedReceived'
  BY <1>d, <1>o, DiesFacts
<1>1. CASE RunAlarm \/ SendViaHttp \/ NotYetAcked
  BY <1>1, <1>o DEF RunAlarm, SendViaHttp, NotYetAcked
<1>2. CASE AckRequestFails \/ UploadFails
  BY <1>2, <1>o DEF AckRequestFails, UploadFails, RequestFails, HttpReturns
<1>3. CASE AckReply
  <2>1. /\ ServerAck(received) \in Int /\ \A k \in 0..ServerAck(received) : HasSeq(received, k)
        /\ ServerAck(received) >= 0 => \E i \in 1..Len(frags) : frags[i].seq = ServerAck(received)
    BY <1>3, <1>r, AckFacts DEF AckReply
  <2>2. CASE ~Dies
    <3>1. MarkAck(ServerAck(received)) /\ UNCHANGED <<frags, received, acked>>
      BY <1>3, <2>2 DEF AckReply
    <3>2. \A k \in 0..ServerAck(received) : HasSeq(received', k)
      BY <2>1, <3>1
    <3>3. Confirmed' /\ Sought' /\ Passed'
      BY <2>1, <3>1, <3>2, MarkAckFacts
    <3>. QED  BY <3>1, <3>3, AckedStays DEF SearchInv
  <2>. QED  BY <1>d, <2>2
<1>4. CASE Uploaded
  <2> DEFINE kept == Keep(received, frags[send])
  <2>1. /\ IsFiniteSet(kept) /\ \A g \in kept : \E j \in 1..Len(frags) : frags[j].seq = g.seq
    <3>1. send \in 1..Len(frags)
      BY <1>4 DEF Uploaded, QueueInv, Where
    <3>. QED  BY <3>1, KeepFacts DEF QueueInv
  <2> HIDE DEF kept
  <2>2. /\ ServerAck(kept) \in Int /\ \A k \in 0..ServerAck(kept) : HasSeq(kept, k)
        /\ ServerAck(kept) >= 0 => \E i \in 1..Len(frags) : frags[i].seq = ServerAck(kept)
        /\ ~OutOfRange(ServerAck(kept))
    BY <1>4, <1>r, <2>1, AckFacts DEF Uploaded
  <2>3. MarkAck(ServerAck(kept)) /\ UNCHANGED <<frags, acked>> /\ received' = kept
    BY <1>4, <2>2 DEF Uploaded, kept
  <2>4. \A k \in 0..ServerAck(kept) : HasSeq(received', k)
    BY <2>2, <2>3
  <2>5. Confirmed' /\ Sought' /\ Passed'
    BY <2>2, <2>3, <2>4, MarkAckFacts
  <2>. QED  BY <2>3, <2>5, AckedStays DEF SearchInv
<1>5. CASE AckStep
  <2>1. pc = "step" /\ Stepped.on
    BY <1>5, AheadFacts DEF AckStep, SearchInv
  <2>2. cur' = Stepped /\ pc' = "scan" /\ UNCHANGED <<ack, frags, received, acked>>
    BY <1>5, <2>1 DEF AckStep
  <2>3. PICK i \in 1..Len(frags) :
           /\ frags[i].seq = ack.seq
           /\ \/ i = Stepped.at + 1
              \/ IF ack.forwards THEN Stepped.at + 1 < i ELSE i <= Stepped.at
    BY <2>1, AheadFacts DEF SearchInv
  <2>4. Sought'
    BY <2>1, <2>2, <2>3 DEF Sought, Ahead
  <2>5. Confirmed' /\ Passed'
    BY <2>1, <2>2 DEF SearchInv, Confirmed, Passed
  <2>. QED  BY <2>2, <2>4, <2>5, AckedStays DEF SearchInv
<1>6. CASE AckScan
  <2>1. /\ pc = "scan" /\ cur.on /\ UNCHANGED <<ack, cur, frags, received, acked>>
        /\ pc' = IF frags[cur.at + 1].seq = ack.seq THEN "found" ELSE "step"
    BY <1>6 DEF AckScan, SearchInv, Sought, Dies
  <2>2. PICK i \in 1..Len(frags) : frags[i].seq = ack.seq /\ (i = cur.at + 1 \/ Ahead(i))
    BY <2>1 DEF SearchInv, Sought
  <2>3. ack.seq \in Nat
    BY <1>r, <2>2, FragsFacts DEF QueueTypes, DataTypes
  <2>4. Sought'
    BY <2>1, <2>2 DEF Sought, Ahead
  <2>5. Confirmed' /\ Passed'
    BY <2>1, <2>3 DEF SearchInv, Confirmed, Passed
  <2>. QED  BY <2>1, <2>4, <2>5, AckedStays DEF SearchInv
<1>7. CASE AckFound
  <2>1. /\ pc = "found" /\ pc' = "acked" /\ cur' = Moved(cur, Len(frags))
        /\ UNCHANGED <<ack, frags, received, acked>>
    BY <1>7 DEF AckFound
  <2>2. cur'.at = (IF cur.on THEN cur.at + 1 ELSE cur.at) /\ cur'.at \in 0..Len(frags)
    BY <1>r, <2>1, CurFacts
  <2>3. \A i \in 1..cur'.at : frags[i].seq <= ack.seq
    <3>1. CASE ack.seq < 0
      BY <2>1, <2>2, <3>1 DEF SearchInv, Passed
    <3>2. CASE ~(ack.seq < 0)
      <4>1. frags[cur'.at].seq = ack.seq /\ cur'.at = cur.at + 1 /\ cur.at \in Nat
        BY <1>r, <2>1, <2>2, <3>2, CurFacts DEF SearchInv, Passed
      <4>. QED  BY <1>r, <2>2, <4>1 DEF Numbered
    <3>. QED  BY <3>1, <3>2
  <2>4. Confirmed' /\ Sought' /\ Passed'
    BY <2>1, <2>3 DEF SearchInv, Confirmed, Sought, Passed
  <2>. QED  BY <2>1, <2>4, AckedStays DEF SearchInv
<1>8. CASE MarkAcked
  <2>1. /\ pc = "acked" /\ acked' = cur.at /\ pc' \in {"next", "follow"}
        /\ UNCHANGED <<cur, frags, received>>
    BY <1>8 DEF MarkAcked
  <2>2. ack.seq \in Int /\ \A k \in 0..ack.seq : HasSeq(received, k)
    BY <2>1 DEF SearchInv, Confirmed
  <2>3. \A i \in 1..cur.at : frags[i].seq <= ack.seq
    BY <2>1 DEF SearchInv, Passed
  <2>4. \A i \in 1..cur.at : frags[i].seq \in Nat
    BY <1>r, CurFacts, FragsFacts DEF QueueTypes, DataTypes
  <2>5. \A i \in 1..cur.at : HasSeq(received, frags[i].seq)
    BY <2>2, <2>3, <2>4
  <2>6. AckedReceived'
    BY <2>1, <2>5 DEF AckedReceived
  <2>. QED  BY <2>1, <2>6 DEF Confirmed, Sought, Passed
<1>9. CASE SendingFollows \/ NextFragment \/ Take \/ MarkSent
  BY <1>9, <1>o DEF SendingFollows, NextFragment, Take, MarkSent
<1>10. CASE FirstFragment \/ AfterSource
  BY <1>10, <1>o, FirstFacts, AfterFacts
<1>11. CASE Poll \/ BeginFragment \/ EndFragment \/ ClearBuffer
  BY <1>11, <1>o DEF Poll, BeginFragment, EndFragment, ClearBuffer
<1>12. CASE ReadRecord \/ Put \/ NoFragment
  BY <1>12, <1>d, <1>o DEF ReadRecord, Put, NoFragment
<1>13. CASE GetFragment \/ GoToEnded \/ ReadEnded
  BY <1>13, <1>o DEF GetFragment, GoToEnded, ReadEnded
<1>14. CASE TrySend \/ PassSent \/ MarkSending \/ Done
  BY <1>14, <1>o DEF TrySend, PassSent, MarkSending, Done
<1>15. CASE \E w \in {"person", "chat"} : Visit(w)
  BY <1>15, SearchStill DEF Visit
<1>16. CASE DeadlinePasses \/ TimerFires \/ AppendChat \/ PersonJoins
  BY <1>16, SearchStill DEF DeadlinePasses, TimerFires, AppendChat, PersonJoins
<1>17. CASE LeaveBegins \/ LeaveRecorded
  BY <1>17, SearchStill DEF LeaveBegins, LeaveRecorded
<1>18. CASE NetChanges \/ ServiceChanges \/ \E f \in handed : Delivered(f)
  BY <1>18, SearchStill DEF NetChanges, ServiceChanges, Delivered
<1>19. CASE Killed
  BY <1>19, <1>o DEF Killed, Gone
<1>20. CASE Restart
  BY <1>20, SearchStill DEF Restart
<1>. QED
  BY <1>0, <1>1, <1>2, <1>3, <1>4, <1>5, <1>6, <1>7, <1>8, <1>9, <1>10, <1>11, <1>12, <1>13,
     <1>14, <1>15, <1>16, <1>17, <1>18, <1>19, <1>20 DEF Next, Background

LEMMA SearchAlways ==
    ASSUME MaxAsks = 0
    PROVE  Spec => [](QueueInv /\ SearchInv)
<1>1. Init => SearchInv
  BY DEF Init, SearchInv, Alone, Confirmed, Sought, Passed, AckedReceived
<1>2. ASSUME QueueInv, SearchInv, [Next]_vars
      PROVE  SearchInv'
  <2>1. CASE Next
    BY <1>2, <2>1, SearchNext
  <2>2. CASE UNCHANGED vars
    BY <1>2, <2>2 DEF vars, SearchInv, Alone, Confirmed, Sought, Ahead, Passed, AckedReceived
  <2>. QED  BY <1>2, <2>1, <2>2
<1>. QED  BY <1>1, <1>2, QueueInit, QueueNext, PTL DEF Spec

(* While the UI thread does not ask for unsent messages: whatever was lost   *)
(* and however often the process was killed between two steps of markAck, an *)
(* ack of the server moves http_acked only past fragments it has, and the    *)
(* search, in either direction, reaches the fragment without meeting the end *)
(* of the file.                                                              *)
THEOREM QueueAcks ==
    ASSUME MaxAsks = 0
    PROVE  Spec => []AcksRight
<1>1. QueueInv /\ SearchInv => AcksRight
  <2> SUFFICES ASSUME QueueInv, SearchInv
               PROVE  AcksRight
    OBVIOUS
  <2>1. ASSUME up
        PROVE  ~OutOfRange(ServerAck(received))
    <3>1. /\ IsFiniteSet(received)
          /\ \A g \in received : \E i \in 1..Len(frags) : frags[i].seq = g.seq
      BY DEF QueueInv, QueueTypes, DataTypes, Given
    <3>. QED  BY <2>1, <3>1, AckFacts DEF QueueInv
  <2>2. ASSUME up, pc = "send"
        PROVE  ~OutOfRange(ServerAck(Keep(received, frags[send])))
    <3> DEFINE kept == Keep(received, frags[send])
    <3>1. IsFiniteSet(kept) /\ \A g \in kept : \E i \in 1..Len(frags) : frags[i].seq = g.seq
      BY <2>2, KeepFacts DEF QueueInv, Where
    <3> HIDE DEF kept
    <3>2. ~OutOfRange(ServerAck(kept))
      BY <2>2, <3>1, AckFacts DEF QueueInv
    <3>. QED  BY <3>2 DEF kept
  <2>3. (pc = "step" => Stepped.on) /\ (pc = "scan" => cur.on)
    BY AheadFacts DEF SearchInv, Sought
  <2>. QED  BY <2>1, <2>2, <2>3 DEF AcksRight, AckNeverFails, SearchInv
<1>. QED  BY <1>1, SearchAlways, PTL

-----------------------------------------------------------------------------
(* The iterator then stays at the mark "sending" while a service is to be    *)
(* given a fragment, and the fragment it took is the one the mark passes.    *)
Looking == {"first", "poll", "take", "read", "mark", "after", "put", "end", "clear", "ended"}

AtSending ==
    /\ pc \in {"sent", "passed"} => mode = "svc"
    /\ mode = "svc" =>
        /\ pc \in Looking => cur.at = sending /\ ~cur.on
        /\ pc = "have" => cur.at = sending
        /\ pc \in {"again", "send", "sent"} => cur.at = sending /\ cur.on
        /\ pc \in {"send", "sent"} => send = sending + 1
        /\ pc = "passed" => cur.at = sending + 1
        /\ pc \in {"sent", "passed"} => frags[sending + 1] \in handed

LEMMA AtSendingNext ==
    ASSUME MaxAsks = 0, QueueInv, Alone, AtSending, Next
    PROVE  AtSending'
<1> USE DEF QueueInv, Looking
<1>0. /\ Len(frags) \in Nat /\ cur \in Iterator /\ cur.at \in 0..Len(frags) /\ cur.on \in BOOLEAN
      /\ sending \in 0..Len(frags) /\ src \in 0..3 /\ mode \in {"http", "svc"}
  BY FragsFacts, CurFacts DEF QueueTypes, DataTypes, ControlTypes, Iterator
<1>m. AtMark(sending).at = sending /\ ~AtMark(sending).on
  BY <1>0, AtMarkFacts
<1>c. /\ Moved(cur, Len(frags)).at = IF cur.on THEN cur.at + 1 ELSE cur.at
      /\ Moved(cur, Len(frags)).on <=> Moved(cur, Len(frags)).at < Len(frags)
  BY CurFacts
<1>u. ~UIThread
  BY AloneNext
<1> USE DEF store, log, partial, loop, wake, life, world
<1>p. ASSUME pc' \in {"idle", "http", "reach", "ack", "step", "scan", "found", "acked", "follow",
                      "next", "null", "done"}
      PROVE  AtSending'
  BY <1>p DEF AtSending
<1>d. Dies => AtSending'
  BY <1>p, DiesFacts
<1>1. CASE RunAlarm \/ SendViaHttp \/ NotYetAcked
  BY <1>1, <1>p DEF RunAlarm, SendViaHttp, NotYetAcked
<1>3. CASE MayDie
  BY <1>3, <1>d, <1>p, SearchFacts
<1>4. CASE AckRequestFails \/ UploadFails
  BY <1>4, <1>p DEF AckRequestFails, UploadFails, RequestFails, HttpReturns
<1>a. CASE AckFound \/ MarkAcked \/ SendingFollows \/ MarkSending
  BY <1>a, <1>p DEF AckFound, MarkAcked, SendingFollows, MarkSending
<1>5. CASE NextFragment
  BY <1>5, <1>m DEF NextFragment, AtSending
<1>f. CASE FirstFragment
  BY <1>0, <1>c, <1>f, FirstFacts DEF AtSending
<1>6. CASE Poll
  BY <1>6 DEF Poll, AtSending
<1>7. CASE Take
  BY <1>7 DEF Take, AtSending
<1>r. CASE ReadRecord
  BY <1>r, <1>d DEF ReadRecord, AtSending
<1>8. CASE MarkSent
  BY <1>8 DEF MarkSent, AtSending
<1>s. CASE AfterSource
  BY <1>0, <1>c, <1>p, <1>s, AfterFacts DEF AtSending
<1>9. CASE BeginFragment
  BY <1>9 DEF BeginFragment, AtSending
<1>10. CASE Put
  <2>2. CASE ~Dies
    <3>1. UNCHANGED <<mode, cur, sending>> /\ pc = "put" /\ pc' \in {"end", "take"}
      BY <1>10, <2>2 DEF Put
    <3>. QED  BY <3>1 DEF AtSending
  <2>. QED  BY <1>d, <2>2
<1>11. CASE EndFragment
  BY <1>11 DEF EndFragment, AtSending
<1>12. CASE ClearBuffer
  BY <1>12 DEF ClearBuffer, AtSending
<1>13. CASE GetFragment
  BY <1>0, <1>13 DEF GetFragment, AtSending
<1>g. CASE GoToEnded
  BY <1>0, <1>c, <1>g DEF GoToEnded, AtSending
<1>h. CASE ReadEnded
  BY <1>0, <1>h DEF ReadEnded, AtSending
<1>14. CASE Uploaded
  BY <1>14, <1>p, UploadedFacts DEF Gone
<1>15. CASE TrySend
  BY <1>0, <1>15 DEF TrySend, AtSending
<1>t. CASE PassSent
  BY <1>0, <1>c, <1>t DEF PassSent, AtSending
<1>16. CASE Done
  BY <1>16, <1>p DEF Done
<1>17. CASE \E w \in {"person", "chat"} : Visit(w)
  BY <1>17 DEF Visit, AtSending
<1>18. CASE DeadlinePasses \/ TimerFires \/ AppendChat \/ PersonJoins
  BY <1>18 DEF DeadlinePasses, TimerFires, AppendChat, PersonJoins, AtSending
<1>19. CASE LeaveBegins \/ LeaveRecorded
  BY <1>19 DEF LeaveBegins, LeaveRecorded, AtSending
<1>21. CASE NetChanges \/ ServiceChanges \/ \E f \in handed : Delivered(f)
  BY <1>21 DEF NetChanges, ServiceChanges, Delivered, AtSending
<1>22. CASE Killed
  BY <1>22, <1>p DEF Killed, Gone
<1>23. CASE Restart
  BY <1>23 DEF Restart, AtSending
<1>. QED
  BY <1>u, <1>1, <1>3, <1>4, <1>a, <1>5, <1>f, <1>6, <1>7, <1>r, <1>8, <1>s, <1>9, <1>10,
     <1>11, <1>12, <1>13, <1>g, <1>h, <1>14, <1>15, <1>t, <1>16, <1>17, <1>18, <1>19, <1>21,
     <1>22, <1>23 DEF Next, Background, MayDie

(* A step leaves the mark "sending", loses it, moves it to http_acked, or    *)
(* past a fragment that a service took.                                      *)
LEMMA StepSends ==
    ASSUME MaxAsks = 0, QueueInv, SearchInv, AtSending, Next
    PROVE  \/ sending' = sending
           \/ sending' = 0
           \/ sending' = acked'
           \/ sending' = sending + 1 /\ frags' = frags /\ frags[sending + 1] \in handed'
<1>u. ~UIThread
  BY AloneNext DEF SearchInv
<1>d. Dies => sending' = sending
  BY DiesFacts
<1>3. CASE MayDie
  BY <1>3, <1>d, MayDieFacts
<1>14. CASE Uploaded
  BY <1>14, UploadedFacts DEF QueueInv
<1>s. CASE AfterSource \/ FirstFragment
  BY <1>s, AfterFacts, FirstFacts
<1> USE DEF store, log, partial, loop, wake, life, world
<1>15. CASE MarkSending
  <2>1. pc = "passed" /\ sending' = cur.at /\ UNCHANGED <<frags, handed>>
    BY <1>15 DEF MarkSending
  <2>. QED  BY <2>1 DEF AtSending
<1>16. CASE SendingFollows
  <2>1. pc = "follow" /\ sending' \in {cur.at, sending} /\ acked' = acked
    BY <1>16 DEF SendingFollows
  <2>. QED  BY <2>1 DEF SearchInv, Passed
<1>21. CASE Killed
  BY <1>21 DEF Killed
<1>1. CASE RunAlarm \/ SendViaHttp \/ NotYetAcked \/ AckFound \/ MarkAcked
  BY <1>1 DEF RunAlarm, SendViaHttp, NotYetAcked, AckFound, MarkAcked
<1>a. CASE NextFragment \/ Poll \/ Take \/ MarkSent \/ ReadRecord
  BY <1>a, <1>d DEF NextFragment, Poll, Take, MarkSent, ReadRecord
<1>2. CASE BeginFragment \/ Put \/ EndFragment \/ ClearBuffer
  BY <1>2, <1>d DEF BeginFragment, Put, EndFragment, ClearBuffer
<1>b. CASE GetFragment \/ GoToEnded \/ ReadEnded \/ TrySend \/ PassSent
  BY <1>b DEF GetFragment, GoToEnded, ReadEnded, TrySend, PassSent
<1>4. CASE AckRequestFails \/ UploadFails \/ Done
  BY <1>4 DEF AckRequestFails, UploadFails, RequestFails, HttpReturns, Done
<1>5. CASE \E w \in {"person", "chat"} : Visit(w)
  BY <1>5 DEF Visit
<1>6. CASE DeadlinePasses \/ TimerFires \/ AppendChat \/ PersonJoins
  BY <1>6 DEF DeadlinePasses, TimerFires, AppendChat, PersonJoins
<1>7. CASE LeaveBegins \/ LeaveRecorded \/ NetChanges \/ ServiceChanges
  BY <1>7 DEF LeaveBegins, LeaveRecorded, NetChanges, ServiceChanges
<1>8. CASE Restart \/ \E f \in handed : Delivered(f)
  BY <1>8 DEF Restart, Delivered
<1>. QED
  BY <1>u, <1>1, <1>a, <1>2, <1>b, <1>3, <1>4, <1>5, <1>6, <1>7, <1>8, <1>14, <1>15, <1>16,
     <1>21, <1>s DEF Next, Background, MayDie

(* No fragment before the mark "sending" was skipped: a service took it or   *)
(* the server has it - also when the process was killed between the service  *)
(* taking it and the mark.                                                   *)
THEOREM QueueAttempted ==
    ASSUME MaxAsks = 0
    PROVE  Spec => []AttemptedOrAcked
<1>1. Init => AtSending /\ AttemptedOrAcked
  BY DEF Init, AtSending, AttemptedOrAcked
<1>2. ASSUME QueueInv, SearchInv, SearchInv', AtSending, AttemptedOrAcked, [Next]_vars
      PROVE  AtSending' /\ AttemptedOrAcked'
  <2>1. CASE Next
    <3>1. AtSending'
      BY <1>2, <2>1, AtSendingNext DEF SearchInv
    <3>2. /\ Len(frags) \in Nat /\ sending \in 0..Len(frags)
          /\ \A i \in 1..Len(frags) : frags'[i] = frags[i]
          /\ received \subseteq received' /\ handed \subseteq handed'
      BY <1>2, <2>1, StepKeeps
    <3>3. \A i \in 1..sending : frags'[i] \in handed' \/ HasSeq(received', frags'[i].seq)
      BY <1>2, <3>2 DEF AttemptedOrAcked, HasSeq
    <3>4. CASE sending' \in {sending, 0}
      BY <3>1, <3>2, <3>3, <3>4 DEF AttemptedOrAcked, HasSeq
    <3>5. CASE sending' = acked'
      <4>1. AckedReceived'
        BY <1>2 DEF SearchInv
      <4>. QED  BY <3>1, <3>5, <4>1 DEF AckedReceived, AttemptedOrAcked, HasSeq
    <3>6. CASE sending' = sending + 1 /\ frags' = frags /\ frags[sending + 1] \in handed'
      BY <3>1, <3>2, <3>3, <3>6 DEF AttemptedOrAcked, HasSeq
    <3>. QED  BY <1>2, <2>1, <3>1, <3>4, <3>5, <3>6, StepSends
  <2>2. CASE UNCHANGED vars
    BY <1>2, <2>2 DEF vars, AtSending, Looking, AttemptedOrAcked
  <2>. QED  BY <1>2, <2>1, <2>2
<1>. QED  BY <1>1, <1>2, SearchAlways, PTL DEF Spec

-----------------------------------------------------------------------------
(* The concatenation of a sequence of sequences.  Folds(f, s): f is the      *)
(* recursive function of FlattenSeq.                                         *)
Folds(f, s) ==
    f = [i \in 1..Len(s) |-> IF i = 1 THEN s[i] ELSE f[i - 1] \o s[i]]

(* Such a function exists: a shortest prefix without one could be extended.  *)
LEMMA FoldExists ==
    ASSUME NEW T, NEW s \in Seq(Seq(T))
    PROVE  \E f : Folds(f, s)
<1> DEFINE Begins(m) == {f \in [1..m -> Seq(T)] :
                            \A i \in 1..m : f[i] = IF i = 1 THEN s[i] ELSE f[i - 1] \o s[i]}
           Missing == {m \in 0..Len(s) : Begins(m) = {}}
<1>1. Missing = {}
  <2> SUFFICES ASSUME Missing # {} PROVE FALSE
    OBVIOUS
  <2>1. PICK m \in Missing : \A k \in Missing : m <= k
    <3>1. Missing \in SUBSET Nat
      OBVIOUS
    <3>. QED  BY <3>1, LeastNatural
  <2>2. m # 0
    <3>1. [i \in 1..0 |-> <<>>] \in Begins(0)
      OBVIOUS
    <3>. QED  BY <3>1
  <2>3. m - 1 \in 0..Len(s) /\ m - 1 \notin Missing
    <3>1. m \in 0..Len(s) /\ Len(s) \in Nat
      OBVIOUS
    <3>2. m - 1 \in 0..Len(s) /\ ~(m <= m - 1)
      BY <2>2, <3>1
    <3> HIDE DEF Missing
    <3>. QED  BY <2>1, <3>2
  <2>4. PICK f \in Begins(m - 1) : TRUE
    BY <2>3
  <2> DEFINE e == IF m = 1 THEN s[m] ELSE f[m - 1] \o s[m]
             g == [i \in 1..m |-> IF i = m THEN e ELSE f[i]]
  <2>5. s[m] \in Seq(T)
    BY <2>2, ElementOfSeq
  <2>6. e \in Seq(T)
    <3>1. CASE m = 1
      BY <2>5, <3>1
    <3>2. CASE m # 1
      <4>1. f[m - 1] \in Seq(T)
        BY <2>2, <2>4, <3>2
      <4>. QED  BY <2>5, <3>2, <4>1, ConcatProperties
    <3>. QED  BY <3>1, <3>2
  <2> HIDE DEF e
  <2>7. g \in [1..m -> Seq(T)]
    BY <2>2, <2>4, <2>6
  <2>8. \A i \in 1..m : g[i] = IF i = 1 THEN s[i] ELSE g[i - 1] \o s[i]
    <3> TAKE i \in 1..m
    <3>1. CASE i = m
      <4>1. g[i] = e
        BY <3>1
      <4>2. i # 1 => g[i - 1] = f[m - 1]
        BY <2>2, <3>1
      <4>. QED  BY <3>1, <4>1, <4>2 DEF e
    <3>2. CASE i # m
      <4>1. i \in 1..(m - 1) /\ g[i] = f[i]
        BY <3>2
      <4>2. i # 1 => g[i - 1] = f[i - 1]
        BY <4>1
      <4>. QED  BY <2>4, <4>1, <4>2
    <3>. QED  BY <3>1, <3>2
  <2>9. g \in Begins(m)
    BY <2>7, <2>8
  <2>. QED  BY <2>1, <2>9
<1>2. PICK f \in Begins(Len(s)) : TRUE
  <2>1. Len(s) \in 0..Len(s)
    OBVIOUS
  <2>. QED  BY <1>1, <2>1
<1>3. f = [i \in 1..Len(s) |-> f[i]]
  BY <1>2
<1>4. \A i \in 1..Len(s) : f[i] = IF i = 1 THEN s[i] ELSE f[i - 1] \o s[i]
  BY <1>2
<1>5. f = [i \in 1..Len(s) |-> IF i = 1 THEN s[i] ELSE f[i - 1] \o s[i]]
  BY <1>3, <1>4
<1>. QED  BY <1>5 DEF Folds

(* FlattenSeq chooses one of them.                                           *)
LEMMA FlattenIs ==
    ASSUME NEW T, NEW s \in Seq(Seq(T)), s # <<>>
    PROVE  \E f : Folds(f, s) /\ FlattenSeq(s) = f[Len(s)]
<1> DEFINE f == CHOOSE f : Folds(f, s)
<1>1. Folds(f, s)
  BY FoldExists
<1>2. Len(s) # 0
  BY EmptySeq
<1>3. FlattenSeq(s) = f[Len(s)]
  BY <1>2 DEF FlattenSeq, Folds
<1>. QED  BY <1>1, <1>3

(* One sequence more at the end is concatenated to what there was.           *)
LEMMA FlattenFacts ==
    ASSUME NEW T, NEW s \in Seq(Seq(T)), NEW e \in Seq(T)
    PROVE  /\ FlattenSeq(s) \in Seq(T)
           /\ FlattenSeq(Append(s, e)) = FlattenSeq(s) \o e
<1> DEFINE n == Len(s)
           r == Append(s, e)
<1>0. /\ n \in Nat /\ r \in Seq(Seq(T)) /\ r # <<>> /\ Len(r) = n + 1
      /\ r[n + 1] = e /\ \A i \in 1..n : r[i] = s[i] /\ s[i] \in Seq(T)
  BY AppendProperties, ElementOfSeq
<1>1. PICK g : Folds(g, r) /\ FlattenSeq(r) = g[n + 1]
  BY <1>0, FlattenIs
<1> HIDE DEF r
<1>2. \A i \in 1..(n + 1) : g[i] = IF i = 1 THEN r[i] ELSE g[i - 1] \o r[i]
  BY <1>0, <1>1 DEF Folds
<1>3. CASE s = <<>>
  <2>1. n = 0 /\ FlattenSeq(s) = <<>>
    BY <1>3 DEF FlattenSeq
  <2>2. g[1] = e
    BY <1>0, <1>2, <2>1
  <2>. QED  BY <1>1, <2>1, <2>2, ConcatEmptySeq DEF r
<1>4. CASE s # <<>>
  <2>1. PICK f : Folds(f, s) /\ FlattenSeq(s) = f[n]
    BY <1>4, FlattenIs
  <2>2. \A i \in 1..n : f[i] = IF i = 1 THEN s[i] ELSE f[i - 1] \o s[i]
    BY <1>0, <2>1 DEF Folds
  <2>3. n > 0
    BY <1>4, EmptySeq
  <2> DEFINE Bad == {i \in 1..n : ~(f[i] = g[i] /\ f[i] \in Seq(T))}
  <2>4. Bad = {}
    <3> SUFFICES ASSUME Bad # {} PROVE FALSE
      OBVIOUS
    <3>1. PICK i \in Bad : \A j \in Bad : i <= j
      <4>1. Bad \in SUBSET Nat
        OBVIOUS
      <4>. QED  BY <4>1, LeastNatural
    <3>2. i \in 1..n /\ ~(f[i] = g[i] /\ f[i] \in Seq(T))
      OBVIOUS
    <3>3. CASE i = 1
      BY <1>0, <1>2, <2>2, <3>2, <3>3
    <3>4. CASE i # 1
      <4>1. i - 1 \in 1..n /\ ~(i <= i - 1)
        BY <1>0, <3>2, <3>4
      <4>2. i - 1 \notin Bad
        <5> HIDE DEF Bad
        <5>. QED  BY <3>1, <4>1
      <4>3. f[i - 1] = g[i - 1] /\ f[i - 1] \in Seq(T)
        BY <4>1, <4>2, Zenon
      <4>4. f[i] = f[i - 1] \o s[i] /\ g[i] = g[i - 1] \o r[i] /\ r[i] = s[i] /\ s[i] \in Seq(T)
        <5> HIDE DEF n
        <5>1. i \in 1..n /\ i \in 1..(n + 1)
          BY <1>0, <3>2
        <5>2. f[i] = f[i - 1] \o s[i]
          BY <2>2, <3>4, <5>1
        <5>3. g[i] = g[i - 1] \o r[i]
          BY <1>2, <3>4, <5>1
        <5>. QED  BY <1>0, <5>1, <5>2, <5>3
      <4>. QED  BY <3>2, <4>3, <4>4, ConcatProperties
    <3>. QED  BY <3>3, <3>4
  <2>5. f[n] = g[n] /\ f[n] \in Seq(T)
    <3>1. n \in 1..n
      BY <1>0, <2>3
    <3>. QED  BY <2>4, <3>1, Zenon
  <2>6. g[n + 1] = g[n] \o e
    <3> HIDE DEF n
    <3>1. n + 1 \in 1..(n + 1) /\ n + 1 # 1 /\ (n + 1) - 1 = n
      BY <1>0, <2>3
    <3>2. g[n + 1] = g[(n + 1) - 1] \o r[n + 1]
      BY <1>2, <3>1
    <3>. QED  BY <1>0, <3>1, <3>2
  <2>. QED  BY <1>1, <2>1, <2>5, <2>6 DEF r
<1>. QED  BY <1>3, <1>4

-----------------------------------------------------------------------------
(* A message that is somewhere stays there when more is written after it,    *)
(* and is there when it was written last.                                    *)
(* Messages are not empty.                                                   *)
LEMMA SizeFacts ==
    ASSUME NEW s \in SourceNames, NEW i \in Nat
    PROVE  Size[s] \in Nat \ {0} /\ UnitsOf(s, i) \in Seq(Unit) /\ Len(UnitsOf(s, i)) = Size[s]
<1>1. Size[s] \in Nat \ {0}
  BY SizeAssumption DEF SourceNames
<1>. QED  BY <1>1, UnitsFacts DEF UnitsOf

LEMMA HoldsMore ==
    ASSUME NEW s \in SourceNames, NEW i \in Nat, NEW u \in Seq(Unit), NEW x \in Seq(Unit),
           Holds(u, s, i)
    PROVE  Holds(u \o x, s, i)
<1>1. PICK j \in 0..(Len(u) - Size[s]) : SubSeq(u, j + 1, j + Size[s]) = UnitsOf(s, i)
  BY DEF Holds
<1>2. Size[s] \in Nat \ {0} /\ Len(u) \in Nat /\ Len(x) \in Nat /\ Len(u \o x) = Len(u) + Len(x)
  BY SizeFacts, ConcatProperties
<1>3. /\ j + 1 \in 1..Len(u) /\ j + Size[s] \in 1..Len(u)
      /\ j \in 0..(Len(u \o x) - Size[s])
  BY <1>2
<1>4. SubSeq(u \o x, j + 1, j + Size[s]) = SubSeq(u, j + 1, j + Size[s])
  BY <1>3, SubSeqOfConcat1
<1>. QED  BY <1>1, <1>3, <1>4 DEF Holds

(* The end of a concatenation.                                               *)
LEMMA SubSeqOfLast ==
    ASSUME NEW T, NEW p \in Seq(T), NEW t \in Seq(T), t # <<>>
    PROVE  SubSeq(p \o t, Len(p) + 1, Len(p) + Len(t)) = t
<1>1. Len(p) \in Nat /\ Len(t) \in Nat \ {0}
  BY EmptySeq
<1>2. /\ Len(p) + 1 \in Len(p) + 1 .. Len(p) + Len(t)
      /\ Len(p) + Len(t) \in Len(p) + 1 .. Len(p) + Len(t)
      /\ Len(p) + 1 - Len(p) = 1 /\ Len(p) + Len(t) - Len(p) = Len(t)
  BY <1>1
<1>3. SubSeq(p \o t, Len(p) + 1, Len(p) + Len(t))
          = SubSeq(t, Len(p) + 1 - Len(p), Len(p) + Len(t) - Len(p))
  BY <1>2, SubSeqOfConcat2
<1>4. SubSeq(t, 1, Len(t)) = t
  BY SubSeqFull
<1>. QED  BY <1>2, <1>3, <1>4

LEMMA HoldsLast ==
    ASSUME NEW s \in SourceNames, NEW i \in Nat, NEW p \in Seq(Unit)
    PROVE  Holds(p \o UnitsOf(s, i), s, i)
<1> DEFINE t == UnitsOf(s, i)
<1>1. Size[s] \in Nat \ {0} /\ t \in Seq(Unit) /\ Len(t) = Size[s]
  BY SizeFacts, Zenon
<1> HIDE DEF t
<1>2. Len(p) \in Nat /\ Len(p \o t) = Len(p) + Size[s] /\ t # <<>>
  BY <1>1, ConcatProperties, EmptySeq
<1>3. SubSeq(p \o t, Len(p) + 1, Len(p) + Size[s]) = t
  BY <1>1, <1>2, SubSeqOfLast
<1>4. Len(p) \in 0..(Len(p \o t) - Size[s])
  BY <1>1, <1>2
<1>. QED  BY <1>3, <1>4 DEF Holds, t

-----------------------------------------------------------------------------
(* What is written and will not be emptied: between the append of a fragment *)
(* and the emptying of the buffer that is the file alone.                    *)
Flat == FlattenSeq([i \in 1..Len(frags) |-> frags[i].units])
Stored == IF pc = "clear" THEN Flat ELSE Flat \o buf.units

(* The message that is being put into fragments, and how many records of its *)
(* source were put before it.                                                *)
Packing == src > 0 /\ pc \in {"put", "end", "clear"}
Message == UnitsOf(Sources[src], it.at + 1)
Whole == IF pc = "take" /\ it.on THEN it.at + 1 ELSE it.at

(* A process that is down has no thread, and a buffer that is not begun      *)
(* holds nothing.                                                            *)
Rest == (~up => pc = "idle") /\ (~buf.open => buf.units = <<>>)

(* Marked messages are whole in what is stored, ...                          *)
Marked == \A s \in SourceNames : \A i \in 1..smark[s] : Holds(Stored, s, i)

(* ... so are those the source has put since its mark, ...                   *)
Taken == src > 0 /\ pc \in {"take", "read", "mark", "put", "end", "clear"}
             => \A i \in 1..Whole : Holds(Stored, Sources[src], i)

(* ... and the one in hand is the end of what is stored with what is left of *)
(* it.  A gap before it can only be there before its first unit.             *)
InHand == Packing => /\ \E p \in Seq(Unit) : Stored \o work = p \o Message
                     /\ gap => pc = "put" /\ work = Message

PackedInv == Rest /\ Marked /\ Taken /\ InHand

(* What is in the file is a sequence of units, and a fragment more adds its  *)
(* units at the end.                                                         *)
LEMMA FlatFacts ==
    ASSUME QueueTypes
    PROVE  /\ Flat \in Seq(Unit) /\ Stored \in Seq(Unit) /\ buf.units \in Seq(Unit)
           /\ \A n \in Nat, u \in Seq(Unit) :
                 frags' = Append(frags, [seq |-> n, units |-> u]) => Flat' = Flat \o u
<1> DEFINE all == [i \in 1..Len(frags) |-> frags[i].units]
<1>1. /\ frags \in Seq(Fragment) /\ Len(frags) \in Nat /\ buf.units \in Seq(Unit)
      /\ \A i \in 1..Len(frags) : frags[i] \in Fragment
  BY FragsFacts DEF QueueTypes, DataTypes, Buffer
<1>2. all \in Seq(Seq(Unit)) /\ Len(all) = Len(frags)
  BY <1>1 DEF Fragment
<1>3. Flat = FlattenSeq(all)
  BY DEF Flat
<1>4. \A u \in Seq(Unit) : Flat \in Seq(Unit) /\ FlattenSeq(Append(all, u)) = Flat \o u
  <2> HIDE DEF all
  <2>. QED  BY <1>2, <1>3, FlattenFacts
<1>5. Flat \in Seq(Unit)
  BY <1>1, <1>4
<1>6. ASSUME NEW n \in Nat, NEW u \in Seq(Unit), frags' = Append(frags, [seq |-> n, units |-> u])
      PROVE  Flat' = Flat \o u
  <2> DEFINE fr == [seq |-> n, units |-> u]
             all1 == [i \in 1..Len(frags') |-> frags'[i].units]
  <2>1. fr \in Fragment /\ fr.units = u
    BY DEF Fragment
  <2> HIDE DEF fr
  <2>2. /\ Len(frags') = Len(frags) + 1 /\ frags'[Len(frags) + 1] = fr
        /\ \A i \in 1..Len(frags) : frags'[i] = frags[i]
    BY <1>1, <1>6, <2>1, AppendProperties DEF fr
  <2>3. all1 = Append(all, u)
    <3>1. all1 \in Seq(Seq(Unit)) /\ Len(all1) = Len(frags) + 1
      <4>1. \A i \in 1..(Len(frags) + 1) : frags'[i].units \in Seq(Unit)
        <5> TAKE i \in 1..(Len(frags) + 1)
        <5>1. CASE i = Len(frags) + 1
          BY <2>1, <2>2, <5>1
        <5>2. CASE i # Len(frags) + 1
          <6>1. i \in 1..Len(frags)
            BY <1>1, <5>2
          <6>2. frags[i] \in Fragment /\ frags'[i] = frags[i]
            BY <1>1, <2>2, <6>1
          <6>. QED  BY <6>2 DEF Fragment
        <5>. QED  BY <5>1, <5>2
      <4>. QED  BY <1>1, <2>2, <4>1
    <3>2. /\ Append(all, u) \in Seq(Seq(Unit)) /\ Len(Append(all, u)) = Len(frags) + 1
          /\ Append(all, u)[Len(frags) + 1] = u
          /\ \A i \in 1..Len(frags) : Append(all, u)[i] = all[i]
      <4> HIDE DEF all
      <4>. QED  BY <1>2, AppendProperties
    <3>3. \A i \in 1..(Len(frags) + 1) : all1[i] = Append(all, u)[i]
      <4> TAKE i \in 1..(Len(frags) + 1)
      <4>1. all1[i] = frags'[i].units
        BY <2>2
      <4>2. CASE i = Len(frags) + 1
        BY <2>1, <2>2, <3>2, <4>1, <4>2
      <4>3. CASE i # Len(frags) + 1
        <5>1. i \in 1..Len(frags)
          BY <1>1, <4>3
        <5>2. all[i] = frags[i].units
          BY <5>1
        <5>. QED  BY <2>2, <3>2, <4>1, <5>1, <5>2
      <4>. QED  BY <4>2, <4>3
    <3> HIDE DEF all, all1
    <3>. QED  BY <3>1, <3>2, <3>3, SeqEqual
  <2>4. Flat' = FlattenSeq(all1)
    BY DEF Flat
  <2>. QED  BY <1>4, <2>3, <2>4
<1>7. Stored \in Seq(Unit)
  BY <1>1, <1>5, ConcatProperties DEF Stored
<1>. QED  BY <1>1, <1>5, <1>6, <1>7

(* Bytes below the buffer's position that no message put there.              *)
Padding == IF gap THEN <<Junk>> ELSE <<>>

(* Held is the units of the buffer and the padding.                          *)
LEMMA HeldIs ==
    ASSUME QueueTypes
    PROVE  Held = buf.units \o Padding /\ Padding \in Seq(Unit)
<1>1. buf.units \in Seq(Unit) /\ Junk \in Unit
  BY DEF QueueTypes, DataTypes, Buffer, Unit
<1>2. <<Junk>> \in Seq(Unit) /\ <<>> \in Seq(Unit)
  BY <1>1
<1>3. CASE gap
  <2>1. Append(buf.units, Junk) = buf.units \o <<Junk>>
    BY <1>1, AppendIsConcat
  <2>. QED  BY <1>2, <1>3, <2>1 DEF Held, Padding
<1>4. CASE ~gap
  BY <1>1, <1>2, <1>4, ConcatEmptySeq DEF Held, Padding
<1>. QED  BY <1>3, <1>4

(* What the steps do to it: some leave it alone (a kill between the append   *)
(* and the emptying leaves the buffer's units twice), Put and EndFragment    *)
(* add to it.                                                                *)
(* Concatenation of units is associative.                                    *)
LEMMA Assoc ==
    \A s, t, u \in Seq(Unit) : (s \o t) \o u = s \o (t \o u)
BY ConcatAssociative

LEMMA PutFacts ==
    ASSUME QueueInv, Put, ~Dies
    PROVE  \E a \in Seq(Unit), b \in Seq(Unit) :
             /\ work = a \o b /\ work' = b
             /\ Stored' = (Stored \o Padding) \o a
             /\ pc = "put" /\ pc' \in {"take", "end"} /\ (pc' = "take" => b = <<>>)
             /\ ~gap' /\ buf.open /\ buf'.open /\ up /\ UNCHANGED <<it, src, smark, up>>
<1> DEFINE room == Cap - Len(Held)
           n    == IF Len(work) < room THEN Len(work) ELSE room
           a    == SubSeq(work, 1, n)
           b    == SubSeq(work, n + 1, Len(work))
<1>1. /\ room > 0 /\ buf' = [buf EXCEPT !.units = Held \o a] /\ work' = b
      /\ pc = "put" /\ pc' = IF n = room THEN "end" ELSE "take"
      /\ ~gap' /\ buf.open /\ up /\ UNCHANGED <<it, src, smark, up, frags>>
  BY DEF Put, store, log, life
<1>2. QueueTypes /\ buf \in Buffer /\ work \in Seq(Unit) /\ Held \in Seq(Unit) /\ Cap \in Nat
  BY HeldType, CapAssumption DEF QueueInv, QueueTypes, DataTypes
<1>3. n \in 0..Len(work) /\ Len(work) \in Nat /\ (n # room => n = Len(work))
  BY <1>1, <1>2
<1>4. a \in Seq(Unit) /\ b \in Seq(Unit) /\ a \o b = work
  <2> HIDE DEF n
  <2>1. \A i \in 1..Len(work) : work[i] \in Unit
    BY <1>2, ElementOfSeq
  <2>2. a \in Seq(Unit) /\ b \in Seq(Unit)
    <3>1. n \in Int /\ n + 1 \in Int /\ 1 \in Int /\ Len(work) \in Int
      BY <1>3
    <3>2. (\A i \in 1..n : work[i] \in Unit) /\ \A i \in (n + 1)..Len(work) : work[i] \in Unit
      BY <1>3, <2>1
    <3>. QED  BY <3>1, <3>2, SubSeqProperties
  <2>3. a \o b = SubSeq(work, 1, Len(work))
    <3>1. 1 \in 1..(Len(work) + 1) /\ n \in (1 - 1)..Len(work) /\ Len(work) \in n..Len(work)
      BY <1>3
    <3>. QED  BY <1>2, <3>1, ConcatAdjacentSubSeq
  <2>. QED  BY <1>2, <2>2, <2>3, SubSeqFull
<1>5. pc' = "take" => b = <<>>
  <2>1. pc' = "take" => n = Len(work)
    BY <1>1, <1>3
  <2> HIDE DEF n
  <2>. QED  BY <1>3, <2>1, SubSeqEmpty
<1>6. pc' \in {"take", "end"}
  BY <1>1
<1> HIDE DEF n, a, b, room
<1>7. buf'.units = Held \o a /\ buf'.open
  BY <1>1, <1>2 DEF Buffer
<1>8. Flat' = Flat /\ Stored = Flat \o buf.units /\ Stored' = Flat \o (Held \o a)
  BY <1>1, <1>6, <1>7 DEF Flat, Stored
<1>9. Stored' = (Stored \o Padding) \o a
  <2>1. /\ Flat \in Seq(Unit) /\ buf.units \in Seq(Unit) /\ Padding \in Seq(Unit)
        /\ Held = buf.units \o Padding
    BY <1>2, FlatFacts, HeldIs
  <2>2. Flat \o (Held \o a) = (Flat \o Held) \o a
    <3>1. Flat \in Seq(Unit) /\ Held \in Seq(Unit) /\ a \in Seq(Unit)
      BY <1>2, <1>4, <2>1
    <3>. QED  BY <3>1, Assoc, Zenon
  <2>3. Flat \o Held = (Flat \o buf.units) \o Padding
    BY <2>1, Assoc, Zenon
  <2>. QED  BY <1>8, <2>2, <2>3
<1>. QED  BY <1>1, <1>4, <1>5, <1>6, <1>7, <1>9

(* The append of a fragment adds at most the padding, ...                    *)
LEMMA EndFacts ==
    ASSUME QueueInv, EndFragment
    PROVE  Stored' = Stored \o Padding
<1>1. /\ frags' = Append(frags, [seq |-> buf.seq, units |-> Held])
      /\ pc = "end" /\ pc' = "clear"
  BY DEF EndFragment
<1>2. /\ QueueTypes /\ buf.seq \in Nat /\ Held \in Seq(Unit)
      /\ Flat \in Seq(Unit) /\ buf.units \in Seq(Unit) /\ Padding \in Seq(Unit)
      /\ Held = buf.units \o Padding
  BY HeldType, FlatFacts, HeldIs DEF QueueInv, QueueTypes, DataTypes, Buffer
<1>3. Flat' = Flat \o Held
  BY <1>1, <1>2, FlatFacts
<1>4. Flat \o Held = (Flat \o buf.units) \o Padding
  BY <1>2, Assoc, Zenon
<1>. QED  BY <1>1, <1>3, <1>4 DEF Stored

(* ... and the emptying of the buffer nothing.                               *)
LEMMA ClearFacts ==
    ASSUME QueueInv, ClearBuffer
    PROVE  Stored' = Stored
<1>1. Flat' = Flat /\ buf'.units = <<>> /\ pc = "clear" /\ pc' # "clear"
  BY DEF ClearBuffer, NoBuf, Flat, log
<1>2. Flat \in Seq(Unit)
  BY FlatFacts DEF QueueInv
<1>. QED  BY <1>1, <1>2, ConcatEmptySeq DEF Stored

(* Every other step leaves the file and what is in the buffer.               *)
Untouched ==
    /\ frags' = frags /\ buf'.units = buf.units
    /\ pc' = pc \/ (pc' # "clear" /\ (pc = "clear" => pc' = "idle"))
    /\ buf'.open = buf.open \/ buf'.open

(* Every step is one of those four.                                          *)
LEMMA StepWrites ==
    ASSUME QueueInv, Rest, Next
    PROVE  Untouched \/ (Put /\ ~Dies) \/ EndFragment \/ ClearBuffer
<1>d. Dies => Untouched
  BY DiesFacts DEF Untouched
<1> USE DEF store, log, partial, loop, wake, life, world
<1>1. CASE RunAlarm \/ SendViaHttp \/ NotYetAcked \/ AckFound
  BY <1>1 DEF RunAlarm, SendViaHttp, NotYetAcked, AckFound, Untouched
<1>2. CASE MarkAcked \/ SendingFollows \/ MarkSending \/ PassSent
  BY <1>2 DEF MarkAcked, SendingFollows, MarkSending, PassSent, Untouched
<1>3. CASE MayDie
  BY <1>3, <1>d, MayDieFacts, SearchFacts DEF Untouched, QueueInv
<1>4. CASE AckRequestFails \/ UploadFails
  BY <1>4 DEF AckRequestFails, UploadFails, RequestFails, HttpReturns, Untouched
<1>5. CASE NextFragment \/ Poll \/ MarkSent \/ Take
  BY <1>5 DEF NextFragment, Poll, MarkSent, Take, Untouched
<1>6. CASE FirstFragment \/ AfterSource
  BY <1>6, FirstFacts, AfterFacts DEF Untouched
<1>7. CASE ReadRecord
  BY <1>7, <1>d DEF ReadRecord, Untouched
<1>9. CASE BeginFragment
  <2>1. /\ frags' = frags /\ ~buf.open /\ buf' = [open |-> TRUE, seq |-> nextSeq, units |-> <<>>]
        /\ pc' = pc
    BY <1>9 DEF BeginFragment
  <2>. QED  BY <2>1 DEF Untouched, Rest
<1>10. CASE Put
  BY <1>10, <1>d
<1>13. CASE GetFragment \/ GoToEnded \/ ReadEnded
  BY <1>13 DEF GetFragment, GoToEnded, ReadEnded, Untouched
<1>14. CASE Uploaded
  BY <1>14, UploadedFacts DEF Untouched, Gone, QueueInv
<1>15. CASE TrySend
  BY <1>15 DEF TrySend, Untouched
<1>16. CASE Done
  BY <1>16 DEF Done, Untouched
<1>17. CASE \E w \in {"person", "chat"} : Visit(w)
  BY <1>17 DEF Visit, Untouched
<1>18. CASE DeadlinePasses \/ TimerFires \/ AppendChat \/ PersonJoins
  BY <1>18 DEF DeadlinePasses, TimerFires, AppendChat, PersonJoins, Untouched
<1>19. CASE LeaveBegins \/ LeaveRecorded \/ UIThread
  BY <1>19 DEF LeaveBegins, LeaveRecorded, UIThread, HasUnsent, UnsentFragment, HasMessage,
               Untouched
<1>20. CASE NetChanges \/ ServiceChanges \/ \E f \in handed : Delivered(f)
  BY <1>20 DEF NetChanges, ServiceChanges, Delivered, Untouched
<1>21. CASE Killed
  BY <1>21 DEF Killed, Untouched, Gone
<1>22. CASE Restart
  BY <1>22 DEF Restart, Untouched
<1>. QED
  BY <1>1, <1>2, <1>3, <1>4, <1>5, <1>6, <1>7, <1>9, <1>10, <1>13, <1>14, <1>15,
     <1>16, <1>17, <1>18, <1>19, <1>20, <1>21, <1>22 DEF Next, Background, MayDie

(* What is stored only grows, at its end.                                    *)
LEMMA StoredGrows ==
    ASSUME QueueInv, Rest, Next
    PROVE  \E x \in Seq(Unit) : Stored' = Stored \o x
<1>1. /\ Flat \in Seq(Unit) /\ Stored \in Seq(Unit) /\ buf.units \in Seq(Unit)
      /\ Padding \in Seq(Unit) /\ <<>> \in Seq(Unit) /\ Stored \o <<>> = Stored
  BY FlatFacts, HeldIs, EmptySeq, ConcatEmptySeq DEF QueueInv
<1>2. CASE Untouched
  <2>1. Flat' = Flat /\ buf'.units = buf.units
    BY <1>2 DEF Untouched, Flat
  <2>2. CASE pc' = pc \/ pc # "clear"
    <3>1. Stored' = Stored
      BY <1>2, <2>1, <2>2 DEF Stored, Untouched
    <3>. QED  BY <1>1, <3>1
  <2>3. CASE pc' # pc /\ pc = "clear"
    <3>1. Stored' = Stored \o buf.units
      BY <1>2, <2>1, <2>3 DEF Stored, Untouched
    <3>. QED  BY <1>1, <3>1
  <2>. QED  BY <2>2, <2>3
<1>3. CASE Put /\ ~Dies
  <2>1. PICK a \in Seq(Unit) : Stored' = (Stored \o Padding) \o a
    BY <1>3, PutFacts
  <2>2. Stored' = Stored \o (Padding \o a)
    BY <1>1, <2>1, Assoc, Zenon
  <2>3. Padding \o a \in Seq(Unit)
    BY <1>1, ConcatProperties
  <2>. QED  BY <2>2, <2>3
<1>4. CASE EndFragment
  BY <1>1, <1>4, EndFacts
<1>5. CASE ClearBuffer
  BY <1>1, <1>5, ClearFacts
<1>. QED  BY <1>2, <1>3, <1>4, <1>5, StepWrites

(* So a message that is stored stays stored.                                 *)
LEMMA HeldOn ==
    ASSUME QueueInv, Rest, Next, NEW s \in SourceNames, NEW i \in Nat, Holds(Stored, s, i)
    PROVE  Holds(Stored', s, i)
<1>1. PICK x \in Seq(Unit) : Stored' = Stored \o x
  BY StoredGrows
<1>2. Stored \in Seq(Unit)
  BY FlatFacts DEF QueueInv
<1>. QED  BY <1>1, <1>2, HoldsMore

-----------------------------------------------------------------------------
(* What a step does to the packing of messages: the thread is not at it, or  *)
(* is not disturbed, or the step is one of the seven it consists of.         *)
Off == src' = 0 \/ pc' \notin {"take", "read", "mark", "put", "end", "clear"}
Still == UNCHANGED <<pc, src, it, work, gap, frags, buf>>

(* Every step is one of those, and keeps Rest.                               *)
LEMMA StepPacks ==
    ASSUME MaxAsks = 0, QueueInv, Alone, Rest, Next
    PROVE  /\ Off \/ Still \/ Poll \/ Take \/ (ReadRecord /\ ~Dies) \/ BeginFragment
              \/ (Put /\ ~Dies) \/ EndFragment \/ ClearBuffer
           /\ Rest'
<1>u. ~UIThread
  BY AloneNext
<1>d. Dies => Off /\ Rest'
  BY DiesFacts DEF Off, Rest
<1>m. Moves => Rest'
  BY MovesFacts DEF Rest
<1> USE DEF store, log, partial, loop, wake, life, world
<1>1. CASE RunAlarm \/ TrySend \/ Done
  BY <1>1 DEF RunAlarm, TrySend, Done, Off, Rest
<1>2. CASE SendViaHttp \/ NotYetAcked \/ AckFound \/ MarkAcked \/ SendingFollows
  BY <1>2, <1>m DEF SendViaHttp, NotYetAcked, AckFound, MarkAcked, SendingFollows, Off, Moves
<1>3. CASE MayDie
  <2>1. CASE ~Dies
    BY <1>3, <2>1, MayDieFacts, SearchFacts DEF Off, Rest, QueueInv
  <2>. QED  BY <1>d, <2>1
<1>4. CASE AckRequestFails \/ UploadFails
  BY <1>4 DEF AckRequestFails, UploadFails, RequestFails, HttpReturns, Off, Rest
<1>5. CASE NextFragment \/ PassSent \/ MarkSending \/ GoToEnded \/ ReadEnded
  BY <1>5, <1>m DEF NextFragment, PassSent, MarkSending, GoToEnded, ReadEnded, Off, Moves
<1>f. CASE FirstFragment \/ AfterSource
  BY <1>f, <1>m, FirstFacts, AfterFacts DEF Off, Moves
<1>6. CASE Poll \/ Take
  BY <1>6, <1>m DEF Moves
<1>8. CASE MarkSent
  BY <1>8 DEF MarkSent, Off, Rest
<1>7. CASE ReadRecord
  BY <1>7, <1>d DEF ReadRecord, Rest
<1>9. CASE BeginFragment
  BY <1>9 DEF BeginFragment, Rest
<1>10. CASE Put
  <2>2. CASE ~Dies
    <3>1. up /\ up' = up /\ buf'.open
      BY <1>10, <2>2, PutFacts
    <3>. QED  BY <1>10, <2>2, <3>1 DEF Rest
  <2>. QED  BY <1>d, <2>2
<1>11. CASE EndFragment
  BY <1>11 DEF EndFragment, Rest
<1>12. CASE ClearBuffer
  BY <1>12 DEF ClearBuffer, Rest, NoBuf
<1>13. CASE GetFragment
  <2>1. src' = src /\ pc = "have"
    BY <1>13 DEF GetFragment
  <2>2. src' = 0
    BY <2>1 DEF QueueInv, Where, AtSource
  <2>. QED  BY <1>13, <1>m, <2>2 DEF Off, Moves
<1>14. CASE Uploaded
  BY <1>14, UploadedFacts DEF Off, Rest, QueueInv, Gone
<1>17. CASE \E w \in {"person", "chat"} : Visit(w)
  BY <1>17 DEF Visit, Still, Rest
<1>18. CASE DeadlinePasses \/ TimerFires \/ AppendChat \/ PersonJoins
  BY <1>18 DEF DeadlinePasses, TimerFires, AppendChat, PersonJoins, Still, Rest
<1>19. CASE LeaveBegins \/ LeaveRecorded
  BY <1>19 DEF LeaveBegins, LeaveRecorded, Still, Rest
<1>20. CASE NetChanges \/ ServiceChanges \/ \E f \in handed : Delivered(f)
  BY <1>20 DEF NetChanges, ServiceChanges, Delivered, Still, Rest
<1>21. CASE Killed
  BY <1>21 DEF Killed, Gone, Off, Rest
<1>22. CASE Restart
  BY <1>22 DEF Restart, Off, Rest
<1>. QED
  BY <1>u, <1>1, <1>2, <1>3, <1>4, <1>5, <1>f, <1>6, <1>7, <1>8, <1>9, <1>10, <1>11, <1>12,
     <1>13, <1>14, <1>17, <1>18, <1>19, <1>20, <1>21, <1>22 DEF Next, Background, MayDie

(* A mark stays, is lost, or is moved to where the source is.                *)
LEMMA StepMarksSent ==
    ASSUME QueueInv, Next
    PROVE  \/ smark' = smark
           \/ src > 0 /\ smark' = [smark EXCEPT ![Sources[src]] = 0]
           \/ src > 0 /\ pc = "mark" /\ smark' = [smark EXCEPT ![Sources[src]] = it.at]
<1>0. pc = "mark" => src > 0
  BY DEF QueueInv, Where, AtSource
<1>d. Dies => smark' = smark
  BY DiesFacts
<1>m. CASE Moves
  BY <1>m, MovesFacts
<1>e. CASE MayDie
  BY <1>d, <1>e, MayDieFacts
<1>f. CASE Uploaded
  BY <1>f, UploadedFacts DEF QueueInv
<1> USE DEF store, log, partial, loop, wake, life, world
<1>1. CASE MarkSent
  BY <1>0, <1>1 DEF MarkSent
<1>2. CASE Killed
  BY <1>0, <1>2 DEF Killed
<1>4. CASE RunAlarm \/ ReadRecord \/ BeginFragment \/ Put \/ EndFragment \/ ClearBuffer
  BY <1>4, <1>d DEF RunAlarm, ReadRecord, BeginFragment, Put, EndFragment, ClearBuffer
<1>5. CASE AckRequestFails \/ UploadFails \/ TrySend \/ Done
  BY <1>5 DEF AckRequestFails, UploadFails, RequestFails, HttpReturns, TrySend, Done
<1>6. CASE (\E w \in {"person", "chat"} : Visit(w)) \/ \E f \in handed : Delivered(f)
  BY <1>6 DEF Visit, Delivered
<1>7. CASE DeadlinePasses \/ TimerFires \/ AppendChat \/ PersonJoins \/ Restart
  BY <1>7 DEF DeadlinePasses, TimerFires, AppendChat, PersonJoins, Restart
<1>8. CASE LeaveBegins \/ LeaveRecorded \/ NetChanges \/ ServiceChanges
  BY <1>8 DEF LeaveBegins, LeaveRecorded, NetChanges, ServiceChanges
<1>. QED
  BY <1>m, <1>e, <1>f, <1>1, <1>2, <1>4, <1>5, <1>6, <1>7, <1>8
  DEF Next, Background, Moves, MayDie

(* What a mark covers is stored, because the source had put it before.       *)
LEMMA MarkedNext ==
    ASSUME QueueInv, Rest, Marked, Taken, Next
    PROVE  Marked'
<1>0. /\ smark \in [SourceNames -> Nat] /\ src \in 0..3 /\ it.at \in Nat
      /\ (src > 0 => Sources[src] \in SourceNames)
  BY SourceFacts DEF QueueInv, QueueTypes, DataTypes, ControlTypes, Iterator
<1>1. \A s \in SourceNames : \A i \in 1..smark[s] : Holds(Stored', s, i)
  BY <1>0, HeldOn DEF Marked
<1>2. CASE smark' = smark
  BY <1>1, <1>2 DEF Marked
<1>3. CASE src > 0 /\ smark' = [smark EXCEPT ![Sources[src]] = 0]
  <2> SUFFICES ASSUME NEW s \in SourceNames, NEW i \in 1..smark'[s]
               PROVE  Holds(Stored', s, i)
    BY DEF Marked
  <2>1. s # Sources[src] /\ smark'[s] = smark[s]
    BY <1>0, <1>3
  <2>. QED  BY <1>1, <2>1
<1>4. CASE src > 0 /\ pc = "mark" /\ smark' = [smark EXCEPT ![Sources[src]] = it.at]
  <2> SUFFICES ASSUME NEW s \in SourceNames, NEW i \in 1..smark'[s]
               PROVE  Holds(Stored', s, i)
    BY DEF Marked
  <2>1. CASE s # Sources[src]
    <3>1. smark'[s] = smark[s]
      BY <1>0, <1>4, <2>1
    <3>. QED  BY <1>1, <3>1
  <2>2. CASE s = Sources[src]
    <3>1. smark'[s] = it.at /\ i \in 1..it.at /\ i \in Nat
      BY <1>0, <1>4, <2>2
    <3>2. Holds(Stored, s, i)
      BY <1>4, <2>2, <3>1 DEF Taken, Whole
    <3>. QED  BY <3>1, <3>2, HeldOn
  <2>. QED  BY <2>1, <2>2
<1>. QED  BY <1>2, <1>3, <1>4, StepMarksSent

(* What the source has put, and what it has in hand, is stored.              *)
LEMMA PackedNext ==
    ASSUME MaxAsks = 0, QueueInv, Alone, PackedInv, Next
    PROVE  Taken' /\ InHand'
<1> USE DEF PackedInv
<1> USE DEF store, log, partial, loop, wake, life, world
<1>0. /\ smark \in [SourceNames -> Nat] /\ it \in Iterator /\ it.at \in Nat
      /\ Stored \in Seq(Unit) /\ work \in Seq(Unit) /\ Padding \in Seq(Unit)
      /\ (src > 0 => Sources[src] \in SourceNames) /\ src \in 0..3
  <2>1. /\ smark \in [SourceNames -> Nat] /\ it \in Iterator /\ it.at \in Nat
        /\ work \in Seq(Unit) /\ src \in 0..3
    BY DEF QueueInv, QueueTypes, DataTypes, ControlTypes, Iterator
  <2>2. Stored \in Seq(Unit) /\ Padding \in Seq(Unit)
    BY FlatFacts, HeldIs DEF QueueInv
  <2>3. src > 0 => src \in 1..3
    BY <2>1
  <2>. QED  BY <2>1, <2>2, <2>3, SourceFacts
<1>1. CASE Off
  <2>1. ~(src' > 0 /\ pc' \in {"take", "read", "mark", "put", "end", "clear"})
    BY <1>1 DEF Off
  <2>. QED  BY <2>1 DEF Taken, InHand, Packing
<1>2. CASE Still
  <2>1. Stored' = Stored /\ Message' = Message /\ Whole' = Whole
    BY <1>2 DEF Still, Stored, Flat, Message, Whole
  <2>. QED  BY <1>2, <2>1 DEF Still, Taken, InHand, Packing
<1>s. ASSUME UNCHANGED <<frags, buf>>, pc # "clear", pc' # "clear"
      PROVE  Stored' = Stored
  BY <1>s DEF Stored, Flat
<1>3. CASE Poll
  <2>1. CASE pc' # "take"
    <3>1. pc' = "after"
      BY <1>3, <2>1 DEF Poll
    <3>. QED  BY <3>1 DEF Taken, InHand, Packing
  <2>2. CASE pc' = "take"
    <3>1. /\ it' = AtMark(smark[Sources[src]]) /\ src' = src /\ UNCHANGED <<frags, buf>>
          /\ pc = "poll" /\ src > 0
      BY <1>3, <2>2 DEF Poll, QueueInv, Where, AtSource
    <3>2. Stored' = Stored
      BY <1>s, <2>2, <3>1
    <3>3. Whole' = smark[Sources[src]]
      BY <1>0, <3>1 DEF Whole, AtMark
    <3>4. Taken'
      BY <1>0, <3>1, <3>2, <3>3 DEF Taken, Marked
    <3>. QED  BY <2>2, <3>4 DEF InHand, Packing
  <2>. QED  BY <2>1, <2>2
<1>4. CASE Take
  <2> DEFINE s == Sources[src]
  <2>1. /\ it' = Moved(it, recs[s]) /\ src' = src /\ UNCHANGED <<frags, buf>>
        /\ pc = "take" /\ src > 0 /\ pc' \in {"read", "mark"}
    BY <1>4 DEF Take, NextRecord, QueueInv, Where, AtSource
  <2>2. Stored' = Stored
    BY <1>s, <2>1
  <2>3. it'.at = Whole /\ Whole' = it'.at /\ Whole \in Nat
    BY <1>0, <2>1 DEF Moved, Whole
  <2>. QED  BY <2>1, <2>2, <2>3 DEF Taken, InHand, Packing
<1>r. CASE ReadRecord /\ ~Dies
  <2>1. /\ UNCHANGED <<src, it, frags, buf, gap>> /\ pc = "read" /\ pc' = "put" /\ src > 0
        /\ work' = Message
    BY <1>r DEF ReadRecord, Message, QueueInv, Where, AtSource
  <2>2. Stored' = Stored /\ Message' = Message /\ Whole' = Whole
    BY <1>s, <2>1 DEF Message, Whole
  <2>3. Taken'
    BY <2>1, <2>2 DEF Taken
  <2>4. InHand'
    BY <1>0, <2>1, <2>2 DEF InHand, Packing
  <2>. QED  BY <2>3, <2>4
<1>5. CASE BeginFragment
  <2>1. /\ frags' = frags /\ buf'.units = <<>> /\ ~buf.open /\ gap' = FALSE
        /\ UNCHANGED <<pc, src, it, work>> /\ pc = "put"
    BY <1>5 DEF BeginFragment
  <2>2. Stored' = Stored /\ Message' = Message /\ Whole' = Whole
    BY <2>1 DEF Stored, Flat, Message, Whole, Rest
  <2>. QED  BY <2>1, <2>2 DEF Taken, InHand, Packing
<1>w. ASSUME src > 0, src' = src, it' = it, Taken, Rest,
             pc \in {"put", "end", "clear"}, pc' \in {"put", "end", "clear"}
      PROVE  Taken'
  <2>1. Whole = it.at /\ Whole' = it.at
    BY <1>w DEF Whole
  <2>2. \A i \in 1..it.at : Holds(Stored', Sources[src], i)
    BY <1>0, <1>w, <2>1, HeldOn DEF Taken
  <2>. QED  BY <1>w, <2>1, <2>2 DEF Taken
<1>t. ASSUME src > 0, src' = src, it' = it, Taken, Rest,
             pc \in {"put", "end", "clear"}, pc' = "take",
             NEW p \in Seq(Unit), Stored' = p \o Message
      PROVE  Taken' /\ InHand'
  <2>1. Whole = it.at /\ Whole' \in {it.at, it.at + 1}
    BY <1>t DEF Whole
  <2>2. \A i \in 1..it.at : Holds(Stored', Sources[src], i)
    BY <1>0, <1>t, <2>1, HeldOn DEF Taken
  <2>3. Holds(Stored', Sources[src], it.at + 1)
    BY <1>0, <1>t, HoldsLast DEF Message
  <2>4. \A i \in 1..Whole' : Holds(Stored', Sources[src], i)
    BY <1>0, <2>1, <2>2, <2>3
  <2>. QED  BY <1>t, <2>4 DEF Taken, InHand, Packing
<1>6. CASE Put /\ ~Dies
  <2>1. PICK a \in Seq(Unit), b \in Seq(Unit) :
             /\ work = a \o b /\ work' = b
             /\ Stored' = (Stored \o Padding) \o a
             /\ pc = "put" /\ pc' \in {"take", "end"} /\ (pc' = "take" => b = <<>>)
             /\ ~gap' /\ UNCHANGED <<it, src>>
    BY <1>6, PutFacts
  <2>2. src > 0 /\ Packing /\ Message' = Message
    BY <2>1 DEF QueueInv, Where, AtSource, Packing, Message
  <2>3. Stored \o Padding \in Seq(Unit) /\ Stored' \in Seq(Unit)
    BY <1>0, <2>1, ConcatProperties
  <2>4. Stored' \o work' = (Stored \o Padding) \o work
    BY <2>1, <2>3, Assoc
  <2>5. \E p \in Seq(Unit) : Stored' \o work' = p \o Message
    <3>1. CASE gap
      <4>1. work = Message
        BY <2>2, <3>1 DEF InHand
      <4>. QED  BY <2>3, <2>4, <4>1
    <3>2. CASE ~gap
      <4>1. Stored \o Padding = Stored
        BY <1>0, <3>2, ConcatEmptySeq DEF Padding
      <4>. QED  BY <2>2, <2>4, <4>1 DEF InHand
    <3>. QED  BY <3>1, <3>2
  <2>6. CASE pc' = "end"
    <3>1. Taken'
      BY <1>w, <2>1, <2>2, <2>6
    <3>. QED  BY <2>1, <2>2, <2>5, <3>1 DEF InHand
  <2>7. CASE pc' = "take"
    <3>1. Stored' \o work' = Stored'
      BY <2>1, <2>3, <2>7, ConcatEmptySeq
    <3>2. PICK p \in Seq(Unit) : Stored' = p \o Message
      BY <2>5, <3>1
    <3>. QED  BY <1>t, <2>1, <2>2, <2>7, <3>2
  <2>. QED  BY <2>1, <2>6, <2>7
<1>7. CASE EndFragment
  <2>1. UNCHANGED <<src, it, work, gap>> /\ pc = "end" /\ pc' = "clear"
    BY <1>7 DEF EndFragment
  <2>2. CASE src = 0
    BY <2>1, <2>2 DEF Taken, InHand, Packing
  <2>3. CASE src > 0
    <3>1. Packing /\ ~gap /\ Message' = Message
      BY <2>1, <2>3 DEF Packing, InHand, Message
    <3>2. Stored' = Stored
      BY <1>0, <1>7, <3>1, EndFacts, ConcatEmptySeq DEF Padding
    <3>3. Taken'
      BY <1>w, <2>1, <2>3
    <3>. QED  BY <2>1, <3>1, <3>2, <3>3 DEF InHand
  <2>. QED  BY <1>0, <2>2, <2>3
<1>8. CASE ClearBuffer
  <2>1. CASE src = 0
    <3>1. pc' = "ended"
      BY <1>8, <2>1 DEF ClearBuffer
    <3>. QED  BY <3>1 DEF Taken, InHand, Packing
  <2>2. CASE src > 0
    <3>1. /\ UNCHANGED <<src, it, work>> /\ pc = "clear" /\ gap' = FALSE
          /\ pc' = IF work = <<>> THEN "take" ELSE "put"
      BY <1>8, <2>2 DEF ClearBuffer
    <3>2. Packing /\ Message' = Message /\ Stored' = Stored
      BY <1>8, <2>2, <3>1, ClearFacts DEF Packing, Message
    <3>3. PICK p \in Seq(Unit) : Stored \o work = p \o Message
      BY <3>2 DEF InHand
    <3>4. CASE work = <<>>
      <4>1. Stored' = p \o Message
        BY <1>0, <3>2, <3>3, <3>4, ConcatEmptySeq
      <4>. QED  BY <1>t, <2>2, <3>1, <3>4, <4>1
    <3>5. CASE work # <<>>
      <4>1. Taken'
        BY <1>w, <2>2, <3>1, <3>5
      <4>. QED  BY <3>1, <3>2, <3>3, <3>5, <4>1 DEF InHand
    <3>. QED  BY <3>4, <3>5
  <2>. QED  BY <1>0, <2>1, <2>2
<1>. QED  BY <1>1, <1>2, <1>3, <1>4, <1>r, <1>5, <1>6, <1>7, <1>8, StepPacks

(* No message is lost: what a source has marked as sent is whole in the file *)
(* and the buffer, however often the process was killed, unless the UI       *)
(* thread moves the source's iterator.                                       *)
THEOREM QueueKeeps ==
    ASSUME MaxAsks = 0
    PROVE  Spec => []NoMessageLost
<1>1. Init => PackedInv
  BY DEF Init, PackedInv, Rest, Marked, Taken, InHand, Packing, NoBuf
<1>2. ASSUME QueueInv, SearchInv, PackedInv, [Next]_vars
      PROVE  PackedInv'
  <2>1. CASE Next
    BY <1>2, <2>1, StepPacks, MarkedNext, PackedNext DEF PackedInv, SearchInv
  <2>2. CASE UNCHANGED vars
    <3>1. /\ UNCHANGED <<up, pc, buf, frags, src, it, work, gap, smark>>
          /\ Stored' = Stored /\ Message' = Message /\ Whole' = Whole
      BY <2>2 DEF vars, Stored, Flat, Message, Whole
    <3>. QED  BY <1>2, <3>1 DEF PackedInv, Rest, Marked, Taken, InHand, Packing
  <2>. QED  BY <1>2, <2>1, <2>2
<1>3. QueueInv /\ PackedInv => NoMessageLost
  <2> SUFFICES ASSUME QueueInv, PackedInv,
                      NEW s \in SourceNames, NEW i \in 1..smark[s]
               PROVE  Holds(Written, s, i)
    BY DEF NoMessageLost
  <2>1. /\ Flat \in Seq(Unit) /\ buf.units \in Seq(Unit) /\ i \in Nat
        /\ Holds(Stored, s, i) /\ Written = Flat \o buf.units
    BY FlatFacts DEF QueueInv, QueueTypes, DataTypes, PackedInv, Marked, Written, Flat
  <2>2. CASE pc = "clear"
    BY <2>1, <2>2, HoldsMore DEF Stored
  <2>3. CASE pc # "clear"
    BY <2>1, <2>3 DEF Stored
  <2>. QED  BY <2>2, <2>3
<1>. QED  BY <1>1, <1>2, <1>3, SearchAlways, PTL DEF Spec
=============================================================================
