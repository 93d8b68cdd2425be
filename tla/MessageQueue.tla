---------------------------- MODULE MessageQueue ----------------------------
(***************************************************************************)
(* The team leader's queue of outgoing messages: MessageQueue.java, the    *)
(* upload half of HttpTransport.java and the message sources that feed it. *)
(*                                                                         *)
(* Records (team, enrolments, chat) become messages; messages are packed   *)
(* into the fragment buffer, a memory mapped file; a full or overdue       *)
(* buffer is appended to the fragments file.  Two marks on that file say   *)
(* how far the server acknowledged over HTTP (http_acked) and how far SMS  *)
(* or the satellite modem were given fragments (sending).  One background  *)
(* thread runs the alarm handler; the UI thread, the network, the services *)
(* and the end of the process interleave with it.                          *)
(*                                                                         *)
(* Abstractions.  Buffer space is counted in units: a message of source s  *)
(* is Size[s] units, a fragment holds Cap of them, and a unit is at least  *)
(* as long as the 3-byte message header and the 4-byte length of the       *)
(* buffer.  A file offset is the number of records before it.  The two     *)
(* services are one: SMS or else Rock takes the fragment, or none does.    *)
(* Location messages, which only ever send a peer's last position, and     *)
(* forms, which are queued like chat messages, are left out.  A call of a   *)
(* RecordIterator is one step, and whoever holds the iterator makes one     *)
(* call at a time; the code does not even synchronise that much.            *)
(***************************************************************************)
EXTENDS Integers, Sequences, FiniteSets, FiniteSetsExt, SequencesExt

CONSTANTS
    Size,        \* units of a message of each source
    Cap,         \* units that fit in a fragment
    MaxChat,     \* bound: chat records ever written
    MaxPersons,  \* bound: people who ever join the team
    MaxCrashes,  \* bound: times the process is killed
    MaxErrors,   \* bound: error replies of the server
    CanLeave,    \* whether the leader ever closes the team
    MaxAsks,     \* bound: times the UI asks for unsent messages meanwhile
    Junk         \* a unit the buffer held before and no message put there now

(* In priority order.  The first two are read by TeamMessages and           *)
(* MemberEnrolments, the last by ChatQueueWatcher.                           *)
Sources == <<"team", "member", "chat">>

ASSUME SizeAssumption == Size \in [{"team", "member", "chat"} -> Nat \ {0}]
ASSUME CapAssumption == Cap \in Nat \ {0}
ASSUME BoundsAssumption == 
    {MaxChat, MaxPersons, MaxCrashes, MaxErrors, MaxAsks} \subseteq Nat
ASSUME LeaveAssumption == CanLeave \in BOOLEAN

VARIABLES
    \* on disk
    recs,       \* records in the file each source reads
    smark,      \* each source's "sent" mark
    persons,    \* TeamMember files: people who joined
    frags,      \* the fragments file
    sending,    \* its "sending" mark
    acked,      \* its "http_acked" mark
    buf,        \* partial_fragment: whether begun, its seq, its units
    \* in memory
    up,         \* the process runs
    pc,         \* where the background thread is
    mode,       \* which of sendViaHttp and sendNextFragment it is in
    init,       \* sendNextFragment's local of that name
    src,        \* the source nextFragment polls; 0 outside that loop
    it,         \* that source's iterator over its records
    work,       \* units of the message being fragmented, still to be put
    cur,        \* the fragments iterator: at a record (on) or between two
    send,       \* the fragment getFragment returned
    ack,        \* markAck's seq and whether it searches forwards
    nextSeq,    \* nextFragmentSeq
    gap,        \* the buffer's position is past its recorded length
    deadline,   \* fragmentDeadline: none, in the future (later) or due
    posted,     \* the alarm's runnable is posted to the background thread
    timer,      \* the alarm is set for the deadline
    monitoring, \* monitoringActive
    queued,     \* ChatQueueWatcher.queue is not empty
    visits,     \* watchers whose observe() is posted to the background thread
    closed,     \* MessageQueue.closed
    teamActive, \* TeamStorage.teamActive
    leaving,    \* the UI thread is inside TeamStorage.leave
    ask,        \* the next call of the UI thread inside hasUnsent
    \* outside
    net,        \* there is an active network
    svc,        \* SMS or Rock would take a fragment
    handed,     \* fragments SMS or Rock took
    received,   \* fragments the server has
    crashes,    \* count for MaxCrashes
    asks,       \* count for MaxAsks
    errors      \* count for MaxErrors

store == <<recs, smark, persons>>
log == <<frags, sending, acked>>
partial == <<buf, nextSeq, gap, deadline>>
loop == <<mode, init, src, it, work, send, ack>>
wake == <<posted, timer, monitoring, queued, visits>>
life == <<up, closed, teamActive, leaving, ask, crashes, asks>>
world == <<net, svc, handed, received, errors>>
vars == <<recs, smark, persons, frags, sending, acked, buf, up, pc, mode, init, src,
          it, work, cur, send, ack, nextSeq, gap, deadline, posted, timer, monitoring,
          queued, visits, closed, teamActive, leaving, ask, net, svc, handed, received,
          crashes, asks, errors>>

UnitsOf(s, i) == [k \in 1..Size[s] |-> <<s, i, k>>]
NoBuf == [open |-> FALSE, seq |-> 0, units |-> <<>>]
NoAck == [seq |-> -1, forwards |-> FALSE]
NotAsking == <<>>
SourceNames == {"team", "member", "chat"}

(* What lies below the buffer's position: after a restart that is 4 bytes   *)
(* more than was written.                                                   *)
Held == IF gap THEN Append(buf.units, Junk) ELSE buf.units

(* RecordIterator over a file of n records: a position after p.at of them,  *)
(* on the next one (on) or between the two.                                 *)
AtMark(n) == [at |-> n, on |-> FALSE]
Moved(p, n) == LET k == IF p.on THEN p.at + 1 ELSE p.at
               IN  [at |-> k, on |-> k < n]
MovedBack(p) == IF p.at = 0 THEN AtMark(0) ELSE [at |-> p.at - 1, on |-> TRUE]

(* The server keeps the first fragment of each seq, and acknowledges the    *)
(* last one before the first gap; -1 when it has none.                      *)
Keep(r, f) == IF \E g \in r : g.seq = f.seq THEN r ELSE r \cup {f}
ServerAck(r) ==
    Max({n \in -1..Cardinality(r) : \A k \in 0..n : \E g \in r : g.seq = k})

(* When a message has to leave: enrolments and the closing of the team now, *)
(* the others after a delay.                                                *)
DeadlineOf(s, i) == IF s = "member" \/ (s = "team" /\ i > 1) THEN "due" ELSE "later"
Sooner(a, b) == IF "due" \in {a, b} THEN "due"
                ELSE IF "later" \in {a, b} THEN "later" ELSE "none"

-----------------------------------------------------------------------------
(* createTeam wrote the team and the leader's TeamMember file; the new      *)
(* queue's constructor has set the alarm.                                   *)
Init ==
    /\ recs = [s \in SourceNames |-> IF s = "team" THEN 1 ELSE 0]
    /\ smark = [s \in SourceNames |-> 0]
    /\ persons = 1
    /\ frags = <<>> /\ sending = 0 /\ acked = 0
    /\ buf = NoBuf
    /\ up = TRUE /\ pc = "idle" /\ mode = "http" /\ init = FALSE
    /\ src = 0 /\ it = AtMark(0) /\ work = <<>> /\ cur = AtMark(0) /\ send = 0
    /\ ack = NoAck /\ nextSeq = 0 /\ gap = FALSE /\ deadline = "none"
    /\ posted = TRUE /\ timer = FALSE
    /\ monitoring = FALSE /\ queued = FALSE /\ visits = {}
    /\ closed = FALSE /\ teamActive = TRUE /\ leaving = FALSE /\ ask = NotAsking
    /\ net \in BOOLEAN /\ svc \in BOOLEAN
    /\ handed = {} /\ received = {}
    /\ crashes = 0 /\ asks = 0 /\ errors = 0

(* Memory is gone.                                                          *)
Gone ==
    /\ up' = FALSE /\ pc' = "idle" /\ mode' = "http" /\ init' = FALSE
    /\ src' = 0 /\ it' = AtMark(0) /\ work' = <<>> /\ cur' = AtMark(0) /\ send' = 0
    /\ ack' = NoAck /\ nextSeq' = 0 /\ gap' = FALSE /\ deadline' = "none"
    /\ posted' = FALSE /\ timer' = FALSE
    /\ monitoring' = FALSE /\ queued' = FALSE /\ visits' = {}
    /\ closed' = FALSE /\ teamActive' = TRUE /\ leaving' = FALSE /\ ask' = NotAsking

(* An exception nobody catches in the background thread ends the process.   *)
Dies ==
    /\ Gone
    /\ UNCHANGED <<store, log, buf, crashes, asks, world>>

(* onStateChanged, and any other setAlarm(NOW): the runnable is posted at   *)
(* once and an alarm set for later is cancelled.                            *)
Wake(b) ==
    /\ posted' = (posted \/ b)
    /\ timer' = (timer /\ ~b)

-----------------------------------------------------------------------------
(* What memberWatcher's Visit finds to enrol, and the chat watcher's Visit  *)
(* to remember.                                                             *)
EnrolDue == recs["member"] < persons
ChatDue == smark["chat"] < recs["chat"]

(* checkMonitoring starts the watchers when the team is active.             *)
Activates == ~closed /\ teamActive /\ ~monitoring

(* The alarm's runnable starts: nothing once closed; otherwise              *)
(* checkMonitoring starts or stops the watchers to follow teamActive, and   *)
(* sendViaHttp begins.  Starting visits every existing file.                *)
RunAlarm ==
    LET enrols == Activates /\ EnrolDue
        unsent == Activates /\ ChatDue
    IN
    /\ up /\ pc = "idle" /\ posted
    /\ pc' = IF closed THEN "idle" ELSE "http"
    /\ mode' = "http"
    /\ monitoring' = IF closed THEN monitoring ELSE teamActive
    /\ recs' = IF enrols THEN [recs EXCEPT !["member"] = persons] ELSE recs
    /\ queued' = IF Activates THEN unsent ELSE (queued /\ monitoring')
    /\ posted' = (enrols \/ unsent)
    /\ timer' = (timer /\ ~posted')
    /\ UNCHANGED <<smark, persons, log, partial, init, src, it, work, send, ack, cur, visits,
                   life, world>>

(* An observer's callback runs on the background thread.                    *)
Visit(w) ==
    LET enrols == w = "person" /\ EnrolDue
        unsent == w = "chat" /\ ChatDue
    IN
    /\ up /\ pc = "idle"
    /\ w \in visits
    /\ visits' = visits \ {w}
    /\ recs' = IF enrols THEN [recs EXCEPT !["member"] = persons] ELSE recs
    /\ queued' = (queued \/ unsent)
    /\ Wake(enrols \/ (unsent /\ ~closed))
    /\ UNCHANGED <<smark, persons, log, partial, pc, loop, cur, monitoring, life, world>>

(* sendViaHttp begins: without a network it returns, and sendNextFragment   *)
(* follows.  It asks for the server's ack only if a fragment is not acked.  *)
SendViaHttp ==
    /\ up /\ pc = "http"
    /\ cur' = IF net THEN AtMark(acked) ELSE cur
    /\ pc' = IF net THEN "reach" ELSE "next"
    /\ mode' = IF net THEN "http" ELSE "svc"
    /\ init' = FALSE
    /\ UNCHANGED <<store, log, partial, src, it, work, send, ack, wake, life, world>>

NotYetAcked ==
    /\ up /\ pc = "reach"
    /\ cur' = Moved(cur, Len(frags))
    /\ pc' = IF cur'.on THEN "ack" ELSE "next"
    /\ UNCHANGED <<store, log, partial, loop, wake, life, world>>

(* sendViaHttp returns without an ack.                                      *)
HttpReturns ==
    /\ mode' = "svc" /\ init' = FALSE /\ pc' = "next"
    /\ UNCHANGED <<store, log, partial, src, it, work, send, ack, cur>>

(* markAck(seq) looks for the fragment from the side that seems closer to   *)
(* it: from what the iterator is at, or from the start or the end of the    *)
(* file.  Where it starts over, a first step follows.  (Nobody else's call  *)
(* between read() and start() or end() would make a difference.)            *)
OutOfRange(seq) == seq >= nextSeq

MarkAck(seq) ==
    LET curSeq   == frags[cur.at + 1].seq
        first    == IF cur.on /\ seq >= curSeq THEN curSeq ELSE 0
        last     == IF cur.on /\ seq < curSeq THEN curSeq ELSE nextSeq - 1
        forwards == (seq - first) < (last - seq)
    IN
    /\ ack' = [seq |-> seq, forwards |-> forwards]
    /\ \/ /\ seq < 0
          /\ cur' = AtMark(0) /\ pc' = "found"
       \/ /\ seq >= 0 /\ forwards /\ first = 0
          /\ cur' = AtMark(0) /\ pc' = "step"
       \/ /\ seq >= 0 /\ ~forwards /\ last = nextSeq - 1
          /\ cur' = AtMark(Len(frags)) /\ pc' = "step"
       \/ /\ seq >= 0 /\ (IF forwards THEN first # 0 ELSE last # nextSeq - 1)
          /\ cur' = cur /\ pc' = "scan"

(* The answer to the ack request: 404 or a number.  One that is out of      *)
(* range is an exception.                                                   *)
AckReply ==
    LET seq == ServerAck(received) IN
    /\ up /\ pc = "ack"
    /\ IF OutOfRange(seq)
       THEN Dies
       ELSE /\ MarkAck(seq)
            /\ UNCHANGED <<store, log, partial, mode, init, src, it, work, send, wake, life,
                           world>>

(* next() or prev(); an exception if there is nothing there.                *)
Stepped == IF ack.forwards THEN Moved(cur, Len(frags)) ELSE MovedBack(cur)

AckStep ==
    /\ up /\ pc = "step"
    /\ \/ /\ Stepped.on
          /\ cur' = Stepped /\ pc' = "scan"
          /\ UNCHANGED <<store, log, partial, loop, wake, life, world>>
       \/ /\ ~Stepped.on
          /\ Dies

(* read(), which returns null where the iterator is between two records.    *)
AckScan ==
    /\ up /\ pc = "scan"
    /\ \/ /\ cur.on
          /\ pc' = IF frags[cur.at + 1].seq = ack.seq THEN "found" ELSE "step"
          /\ UNCHANGED <<store, log, partial, loop, cur, wake, life, world>>
       \/ /\ ~cur.on
          /\ Dies

(* Past the fragment; what is before the iterator is acked; and sending     *)
(* follows, if it is behind.                                                *)
AckFound ==
    /\ up /\ pc = "found"
    /\ cur' = Moved(cur, Len(frags))
    /\ pc' = "acked"
    /\ UNCHANGED <<store, log, partial, loop, wake, life, world>>

MarkAcked_all ==
    /\ up /\ pc = "acked"
    /\ acked' = Len(frags)
    /\ pc' = IF ack.seq < 0 THEN "next" ELSE "follow"
    /\ ack' = NoAck
    /\ UNCHANGED <<store, frags, sending, partial, mode, init, src, it, work, send, cur, wake,
                   life, world>>

MarkAcked ==
    /\ up /\ pc = "acked"
    /\ acked' = cur.at
    /\ pc' = IF ack.seq < 0 THEN "next" ELSE "follow"
    /\ ack' = NoAck
    /\ UNCHANGED <<store, frags, sending, partial, mode, init, src, it, work, send, cur, wake,
                   life, world>>

SendingFollows ==
    /\ up /\ pc = "follow"
    /\ sending' = IF cur.at > sending THEN cur.at ELSE sending
    /\ pc' = "next"
    /\ UNCHANGED <<store, frags, acked, partial, loop, cur, wake, life, world>>

(* A request that fails: the server answers with an error, or the network   *)
(* drops - before or after an upload reached the server - and the change of *)
(* connectivity is broadcast.                                               *)
RequestFails(upload) ==
    /\ up /\ mode = "http"
    /\ HttpReturns
    /\ \/ /\ errors < MaxErrors
          /\ errors' = errors + 1
          /\ UNCHANGED <<net, received, wake>>
       \/ /\ net' = FALSE
          /\ received' \in {received, IF upload THEN Keep(received, frags[send]) ELSE received}
          /\ Wake(~closed)
          /\ UNCHANGED <<errors, monitoring, queued, visits>>
    /\ UNCHANGED <<svc, handed, life>>

AckRequestFails == pc = "ack" /\ RequestFails(FALSE)
UploadFails == pc = "send" /\ RequestFails(TRUE)

-----------------------------------------------------------------------------
(* nextFragment returns: found, or not - then sendViaHttp gives way to      *)
(* sendNextFragment, and sendNextFragment is done.                          *)
Returns(found) ==
    /\ src' = 0
    /\ pc' = IF found THEN "have" ELSE IF mode = "http" THEN "next" ELSE "done"
    /\ mode' = IF found THEN mode ELSE "svc"
    /\ init' = IF found THEN init ELSE FALSE

(* nextFragment begins: the fragment after the mark, if there is one.  What *)
(* the last round of the loop sent is out of scope.                         *)
NextFragment ==
    /\ up /\ pc = "next"
    /\ cur' = AtMark(IF mode = "http" THEN acked ELSE sending)
    /\ pc' = "first"
    /\ send' = 0
    /\ UNCHANGED <<store, log, partial, mode, init, src, it, work, ack, wake, life, world>>

FirstFragment ==
    LET p == Moved(cur, Len(frags)) IN
    /\ up /\ pc = "first"
    /\ cur' = p
    /\ \/ p.on /\ Returns(TRUE)
       \/ ~p.on /\ src' = 1 /\ pc' = "poll" /\ UNCHANGED <<mode, init>>
    /\ UNCHANGED <<store, log, partial, it, work, send, ack, wake, life, world>>

(* Whether a source's nextMessage gets as far as making messages: the       *)
(* chat watcher wants an active team, a peer it knows of, and that peer     *)
(* enrolled.                                                                *)
Asks(s) == s = "chat" => teamActive /\ queued /\ recs["member"] > 0

(* nextMessage of a source: reset to its mark.                              *)
Poll ==
    LET s == Sources[src] IN
    /\ up /\ pc = "poll"
    /\ \/ /\ Asks(s)
          /\ it' = AtMark(smark[s])
          /\ pc' = "take"
       \/ /\ ~Asks(s)
          /\ it' = it
          /\ pc' = "after"
    /\ UNCHANGED <<store, log, partial, mode, init, src, cur, work, send, ack, wake, life,
                   world>>

(* The source moves to its next record.  If there is one its message is     *)
(* fragmented - but the watcher makes one message only, and forgets the     *)
(* peer when that was its last record; otherwise the source marks how far   *)
(* it came.                                                                 *)
NextRecord(s) == Moved(it, recs[s])
Takes(s) == NextRecord(s).on /\ (s = "chat" => ~it.on)

Take_marksFirst ==
    LET s == Sources[src] IN
    /\ up /\ pc = "take"
    /\ it' = NextRecord(s)
    /\ pc' = IF Takes(s) THEN "read" ELSE "mark"
    /\ queued' = (queued /\ (s = "chat" => it'.on))
    /\ smark' = [smark EXCEPT ![s] = IF Takes(s) THEN it'.at + 1 ELSE @]
    /\ UNCHANGED <<recs, persons, log, partial, mode, init, src, work, send, ack, cur, posted,
                   timer, monitoring, visits, life, world>>

Take ==
    LET s == Sources[src] IN
    /\ up /\ pc = "take"
    /\ it' = NextRecord(s)
    /\ pc' = IF Takes(s) THEN "read" ELSE "mark"
    /\ queued' = (queued /\ (s = "chat" => it'.on))
    /\ UNCHANGED <<store, log, partial, mode, init, src, work, send, ack, cur, posted, timer,
                   monitoring, visits, life, world>>

(* The record is read; a null, when the UI thread moved the iterator        *)
(* meanwhile, is dereferenced.                                              *)
ReadRecord ==
    /\ up /\ pc = "read"
    /\ \/ /\ it.on
          /\ work' = UnitsOf(Sources[src], it.at + 1)
          /\ pc' = "put"
          /\ UNCHANGED <<store, log, partial, mode, init, src, it, send, ack, cur, wake, life,
                         world>>
       \/ /\ ~it.on
          /\ Dies

MarkSent ==
    /\ up /\ pc = "mark"
    /\ smark' = [smark EXCEPT ![Sources[src]] = it.at]
    /\ pc' = "after"
    /\ UNCHANGED <<recs, persons, log, partial, loop, cur, wake, life, world>>

(* After a source was asked: a fragment may have been completed; after the  *)
(* last one the partial fragment counts if it is flushed now or is due.     *)
AfterSource ==
    LET p == Moved(cur, Len(frags)) IN
    /\ up /\ pc = "after"
    /\ cur' = p
    /\ it' = AtMark(0)
    /\ \/ p.on /\ Returns(TRUE)
       \/ /\ ~p.on /\ src < Len(Sources)
          /\ src' = src + 1 /\ pc' = "poll"
          /\ UNCHANGED <<mode, init>>
       \/ /\ ~p.on /\ src = Len(Sources)
          /\ Returns(buf.open /\ (mode = "http" \/ deadline = "due"))
    /\ UNCHANGED <<store, log, partial, work, send, ack, wake, life, world>>

(* fragmentMessage's loop.  beginFragment takes the next seq.               *)
BeginFragment ==
    /\ up /\ pc = "put"
    /\ ~buf.open
    /\ buf' = [open |-> TRUE, seq |-> nextSeq, units |-> <<>>]
    /\ nextSeq' = nextSeq + 1
    /\ gap' = FALSE
    /\ deadline' = "none"
    /\ UNCHANGED <<store, log, pc, loop, cur, wake, life, world>>

(* As much of the message as fits is put; a full buffer is ended (the MTU   *)
(* the services leave is 200, so no piece is longer than 254 bytes).  There *)
(* is no room at all only when a restart moved the position to the limit:   *)
(* then putting the message's header overflows the buffer.                  *)
Put ==
    LET room == Cap - Len(Held)
        n    == IF Len(work) < room THEN Len(work) ELSE room
    IN
    /\ up /\ pc = "put"
    /\ buf.open
    /\ \/ /\ room = 0
          /\ Dies
       \/ /\ room > 0
          /\ buf' = [buf EXCEPT !.units = Held \o SubSeq(work, 1, n)]
          /\ gap' = FALSE
          /\ deadline' = Sooner(deadline, DeadlineOf(work[1][1], work[1][2]))
          /\ work' = SubSeq(work, n + 1, Len(work))
          /\ pc' = IF n = room THEN "end" ELSE "take"
          /\ UNCHANGED <<store, log, nextSeq, mode, init, src, it, send, ack, cur, wake, life,
                         world>>

(* endFragment: the buffer is appended to the fragments file, ...           *)
EndFragment ==
    /\ up /\ pc = "end"
    /\ frags' = Append(frags, [seq |-> buf.seq, units |-> Held])
    /\ deadline' = "none"
    /\ pc' = "clear"
    /\ UNCHANGED <<store, sending, acked, buf, nextSeq, gap, loop, cur, wake, life, world>>

(* ... and then emptied.  Back to the message, or to getFragment.           *)
ClearBuffer ==
    /\ up /\ pc = "clear"
    /\ buf' = NoBuf
    /\ gap' = FALSE
    /\ pc' = IF src = 0 THEN "ended" ELSE IF work = <<>> THEN "take" ELSE "put"
    /\ UNCHANGED <<store, log, nextSeq, deadline, loop, cur, wake, life, world>>

-----------------------------------------------------------------------------
(* sendNextFragment asks once whether a service is ready; then getFragment  *)
(* reads the fragment, or ends the partial one and goes to it.              *)
GetFragment ==
    /\ up /\ pc = "have"
    /\ \/ /\ mode = "svc" /\ ~init /\ ~svc
          /\ pc' = "idle"
          /\ UNCHANGED <<init, send>>
       \/ /\ mode = "http" \/ init \/ svc
          /\ init' = (mode = "svc")
          /\ pc' = IF cur.on THEN "send" ELSE IF buf.open THEN "end" ELSE "null"
          /\ send' = IF cur.on THEN cur.at + 1 ELSE send
    /\ UNCHANGED <<store, log, partial, mode, src, it, work, ack, cur, wake, life, world>>

GoToEnded ==
    /\ up /\ pc = "ended"
    /\ cur' = Moved(cur, Len(frags))
    /\ pc' = IF cur'.on THEN "again" ELSE "null"
    /\ UNCHANGED <<store, log, partial, loop, wake, life, world>>

ReadEnded ==
    /\ up /\ pc = "again"
    /\ send' = IF cur.on THEN cur.at + 1 ELSE send
    /\ pc' = IF cur.on THEN "send" ELSE "null"
    /\ UNCHANGED <<store, log, partial, mode, init, src, it, work, ack, cur, wake, life, world>>

(* getFragment returned null, which it only does if the UI thread moved the *)
(* shared iterator: it is dereferenced, unless no service is ready now.     *)
NoFragment ==
    /\ up /\ pc = "null"
    /\ \/ /\ mode = "http" \/ svc
          /\ Dies
       \/ /\ mode = "svc" /\ ~svc
          /\ pc' = "idle"
          /\ UNCHANGED <<store, log, partial, loop, cur, wake, life, world>>

(* The upload is answered: the server has the fragment and its ack follows. *)
Uploaded ==
    LET kept == Keep(received, frags[send])
        seq  == ServerAck(kept)
    IN
    /\ up /\ pc = "send" /\ mode = "http"
    /\ received' = kept
    /\ IF OutOfRange(seq)
       THEN Gone /\ UNCHANGED <<store, log, buf, crashes, asks>>
       ELSE /\ MarkAck(seq)
            /\ UNCHANGED <<store, log, partial, mode, init, src, it, work, send, wake, life>>
    /\ UNCHANGED <<net, svc, handed, errors>>

(* A service takes the fragment - and may be busy from then on, or has lost *)
(* its readiness meanwhile.                                                 *)
TrySend_marksAnyway ==
    LET f == frags[send] IN
    /\ up /\ pc = "send" /\ mode = "svc"
    /\ handed' = IF svc THEN handed \cup {f} ELSE handed
    /\ svc' \in BOOLEAN
    /\ pc' = "sent"
    /\ UNCHANGED <<store, log, partial, loop, cur, wake, life, net, received, errors>>

TrySend ==
    LET f == frags[send] IN
    /\ up /\ pc = "send" /\ mode = "svc"
    /\ \/ /\ ~svc
          /\ pc' = "idle"
          /\ UNCHANGED <<svc, handed>>
       \/ /\ svc
          /\ handed' = handed \cup {f}
          /\ svc' \in BOOLEAN
          /\ pc' = "sent"
    /\ UNCHANGED <<store, log, partial, loop, cur, wake, life, net, received, errors>>

(* Past the fragment, and the mark follows.                                 *)
PassSent ==
    /\ up /\ pc = "sent"
    /\ cur' = Moved(cur, Len(frags))
    /\ pc' = "passed"
    /\ UNCHANGED <<store, log, partial, loop, wake, life, world>>

MarkSending ==
    /\ up /\ pc = "passed"
    /\ sending' = cur.at
    /\ pc' = "next"
    /\ UNCHANGED <<store, frags, acked, partial, loop, cur, wake, life, world>>

(* close() stops the watchers; nothing reopens a closed queue.              *)
CloseQueue(b) ==
    /\ closed' = (closed \/ b)
    /\ monitoring' = (monitoring /\ ~closed')
    /\ queued' = (queued /\ monitoring')

(* Nothing is left to send: done() closes the queue of a team that is no    *)
(* longer active, and the alarm is set for the partial fragment's deadline. *)
Done ==
    /\ up /\ pc = "done"
    /\ CloseQueue(~teamActive)
    /\ timer' = (timer \/ deadline # "none")
    /\ pc' = "idle"
    /\ UNCHANGED <<store, log, partial, loop, cur, posted, visits, up, teamActive,
                   leaving, ask, crashes, asks, world>>

-----------------------------------------------------------------------------
(* Time passes the deadline; the alarm set for it fires.                    *)
DeadlinePasses ==
    /\ up /\ deadline = "later"
    /\ deadline' = "due"
    /\ UNCHANGED <<store, log, buf, nextSeq, gap, pc, loop, cur, wake, life, world>>

TimerFires ==
    /\ up /\ timer /\ deadline # "later"
    /\ timer' = FALSE
    /\ posted' = TRUE
    /\ UNCHANGED <<store, log, partial, pc, loop, cur, monitoring, queued, visits, life, world>>

(* A chat message is stored, or somebody's TeamMember file arrives; the     *)
(* watcher is told, once it watches.                                        *)
AppendChat ==
    /\ up /\ recs["chat"] < MaxChat
    /\ recs' = [recs EXCEPT !["chat"] = @ + 1]
    /\ visits' = IF monitoring THEN visits \cup {"chat"} ELSE visits
    /\ UNCHANGED <<smark, persons, log, partial, pc, loop, cur, posted, timer, monitoring,
                   queued, life, world>>

PersonJoins ==
    /\ up /\ persons < MaxPersons
    /\ persons' = persons + 1
    /\ visits' = IF monitoring THEN visits \cup {"person"} ELSE visits
    /\ UNCHANGED <<recs, smark, log, partial, pc, loop, cur, posted, timer, monitoring,
                   queued, life, world>>

(* TeamStorage.leave on the UI thread: the team is no longer active, ...    *)
LeaveBegins ==
    /\ CanLeave
    /\ up /\ teamActive
    /\ teamActive' = FALSE
    /\ leaving' = TRUE
    /\ UNCHANGED <<store, log, partial, pc, loop, cur, wake, up, closed, ask, crashes, asks,
                   world>>

(* ... then its closing record is stored, and the queue is told.            *)
LeaveRecorded ==
    /\ up /\ leaving
    /\ leaving' = FALSE
    /\ recs' = [recs EXCEPT !["team"] = @ + 1]
    /\ Wake(~closed)
    /\ UNCHANGED <<smark, persons, log, partial, pc, loop, cur, monitoring, queued, visits,
                   up, closed, teamActive, ask, crashes, asks, world>>

(* hasUnsent on the UI thread - redrawing after leave, and whenever a team  *)
(* to join is selected - moves the iterators the background thread uses:    *)
(* the one over the fragments and, until one of them has a record to send,  *)
(* those of TeamMessages and MemberEnrolments.                              *)
HasUnsent ==
    /\ asks < MaxAsks
    /\ asks' = asks + 1
    /\ up /\ ~teamActive /\ ~leaving /\ ask = NotAsking
    /\ ~buf.open
    /\ cur' = AtMark(sending)
    /\ ask' = <<"fragments", "next">>
    /\ UNCHANGED <<store, log, partial, pc, loop, wake, up, closed, teamActive, leaving,
                   crashes, world>>

UnsentFragment ==
    /\ up /\ ask = <<"fragments", "next">>
    /\ cur' = Moved(cur, Len(frags))
    /\ ask' = IF cur'.on THEN NotAsking ELSE <<"team", "reset">>
    /\ UNCHANGED <<store, log, partial, pc, loop, wake, up, closed, teamActive, leaving,
                   crashes, asks, world>>

(* hasMessage of a source.  Its iterator matters only while the background  *)
(* thread is using it; otherwise it is where the mark is.                   *)
Using(s) == src > 0 /\ Sources[src] = s /\ pc # "poll"

HasMessage(s) ==
    LET p == Moved(IF Using(s) THEN it ELSE AtMark(smark[s]), recs[s]) IN
    /\ up
    /\ \/ /\ ask = <<s, "reset">>
          /\ it' = IF Using(s) THEN AtMark(smark[s]) ELSE it
          /\ ask' = <<s, "next">>
       \/ /\ ask = <<s, "next">>
          /\ it' = IF Using(s) THEN p ELSE it
          /\ ask' = IF p.on \/ s = "member" THEN NotAsking ELSE <<"member", "reset">>
    /\ UNCHANGED <<store, log, partial, pc, mode, init, src, work, send, ack, cur, wake, up,
                   closed, teamActive, leaving, crashes, asks, world>>

NetChanges_silently ==
    /\ net' = ~net
    /\ UNCHANGED <<store, log, partial, pc, loop, cur, wake, life, svc, handed, received, errors>>

(* Connectivity changes, and is broadcast.                                  *)
NetChanges ==
    /\ net' = ~net
    /\ Wake(up /\ ~closed)
    /\ UNCHANGED <<store, log, partial, pc, loop, cur, monitoring, queued, visits, life,
                   svc, handed, received, errors>>

(* A service becomes ready, or stops being so.  Rock tells the queue only   *)
(* while its messages are required, SMS of some of the causes only.         *)
ServiceChanges ==
    /\ svc' = ~svc
    /\ \E told \in BOOLEAN : Wake(told /\ up /\ ~closed)
    /\ UNCHANGED <<store, log, partial, pc, loop, cur, monitoring, queued, visits, life,
                   net, handed, received, errors>>

(* A fragment a service took reaches the server, some time, or never.       *)
Delivered(f) ==
    /\ received' = Keep(received, f)
    /\ UNCHANGED <<store, log, partial, pc, loop, cur, wake, life, net, svc, handed, errors>>

(* The process is killed.  A fragment it was sending may have got out.  If  *)
(* it was saving a mark, the file of marks that it was rewriting may be     *)
(* left empty.                                                              *)
Killed ==
    /\ up /\ crashes < MaxCrashes
    /\ crashes' = crashes + 1
    /\ Gone
    /\ received' \in IF pc = "send" /\ mode = "http"
                    THEN {received, Keep(received, frags[send])} ELSE {received}
    /\ handed' \in IF pc = "send" /\ mode = "svc" /\ svc
                  THEN {handed, handed \cup {frags[send]}} ELSE {handed}
    /\ \/ UNCHANGED <<smark, sending, acked>>
       \/ /\ pc \in {"acked", "follow", "passed"}
          /\ sending' = 0 /\ acked' = 0
          /\ UNCHANGED smark
       \/ /\ pc = "mark" /\ it.at # smark[Sources[src]]
          /\ smark' = [smark EXCEPT ![Sources[src]] = 0]
          /\ UNCHANGED <<sending, acked>>
    /\ UNCHANGED <<recs, persons, frags, buf, net, svc, errors, asks>>

(* reloadTeam and the constructor: the next seq follows the last fragment   *)
(* or, if there is one, the partial fragment, which is due at once.  The    *)
(* buffer's position is set to its recorded length plus 4, though that      *)
(* length already counts those 4 bytes; past the limit that throws, and the *)
(* queue cannot be started.                                                 *)
StillActive == recs["team"] = 1
LastSeq_counts == Len(frags)
LastSeq == IF frags = <<>> THEN -1 ELSE frags[Len(frags)].seq

Restart ==
    /\ ~up
    /\ buf.open => Len(buf.units) < Cap
    /\ up' = TRUE
    /\ nextSeq' = IF buf.open THEN buf.seq + 1 ELSE LastSeq + 1
    /\ gap' = buf.open
    /\ deadline' = IF buf.open THEN "due" ELSE "none"
    /\ teamActive' = StillActive
    /\ posted' = TRUE
    /\ UNCHANGED <<store, log, buf, pc, loop, cur, timer, monitoring, queued, visits,
                   closed, leaving, ask, crashes, asks, world>>

Background ==
    \/ RunAlarm \/ SendViaHttp \/ NotYetAcked \/ AckReply \/ AckRequestFails \/ UploadFails
    \/ AckStep \/ AckScan \/ AckFound \/ MarkAcked \/ SendingFollows
    \/ NextFragment \/ FirstFragment \/ Poll \/ Take \/ ReadRecord \/ MarkSent \/ AfterSource
    \/ BeginFragment \/ Put \/ EndFragment \/ ClearBuffer
    \/ GetFragment \/ GoToEnded \/ ReadEnded \/ NoFragment
    \/ Uploaded \/ TrySend \/ PassSent \/ MarkSending \/ Done
    \/ \E w \in {"person", "chat"} : Visit(w)

UIThread == HasUnsent \/ UnsentFragment \/ \E s \in {"team", "member"} : HasMessage(s)

Next ==
    \/ Background
    \/ DeadlinePasses \/ TimerFires
    \/ AppendChat \/ PersonJoins \/ LeaveBegins \/ LeaveRecorded \/ UIThread
    \/ NetChanges \/ ServiceChanges
    \/ \E f \in handed : Delivered(f)
    \/ Killed \/ Restart

Spec == Init /\ [][Next]_vars

(* The background thread never stops, and its looper runs what is posted to *)
(* it in order, so neither the alarm nor a watcher's callback starves the   *)
(* other; time passes, an alarm that is due fires and leave() returns.      *)
(* Nothing is assumed of the network, the services, the server or users.    *)
Fairness ==
    /\ WF_vars(Background)
    /\ SF_vars(RunAlarm)
    /\ \A w \in {"person", "chat"} : SF_vars(Visit(w))
    /\ WF_vars(DeadlinePasses)
    /\ WF_vars(TimerFires)
    /\ WF_vars(LeaveRecorded)

FairSpec == Spec /\ Fairness

-----------------------------------------------------------------------------
Unit == {<<s, i, k>> : s \in SourceNames, i \in Nat, k \in Nat} \cup {Junk}
Fragment == [seq : Nat, units : Seq(Unit)]
Pcs == {"idle", "http", "reach", "ack", "step", "scan", "found", "acked", "follow", "next",
        "first", "poll", "take", "read", "mark", "after", "put", "end", "clear", "have",
        "ended", "again", "null", "send", "sent", "passed", "done"}
Asked == {NotAsking, <<"fragments", "next">>}
         \cup {<<s, c>> : s \in {"team", "member"}, c \in {"reset", "next"}}

(* Types.                                                                   *)
TypeOK ==
    /\ recs \in [SourceNames -> Nat] /\ smark \in [SourceNames -> Nat] /\ persons \in Nat
    /\ \A f \in ToSet(frags) \cup handed \cup received : f.seq \in Nat /\ Len(f.units) \in 1..Cap
    /\ sending \in 0..Len(frags) /\ acked \in 0..Len(frags)
    /\ buf.open \in BOOLEAN /\ buf.seq \in Nat /\ Len(Held) \in 0..Cap
    /\ pc \in Pcs /\ mode \in {"http", "svc"} /\ src \in 0..Len(Sources)
    /\ cur.at \in 0..Len(frags) /\ (cur.on => cur.at < Len(frags))
    /\ pc = "send" => send \in 1..Len(frags)
    /\ pc \in {"poll", "take", "read", "mark", "after", "put"} => src > 0
    /\ ack.seq \in Nat \cup {-1} /\ ack.forwards \in BOOLEAN /\ ask \in Asked
    /\ src > 0 => it.at \in 0..recs[Sources[src]]
    /\ nextSeq \in Nat /\ deadline \in {"none", "later", "due"}
    /\ visits \subseteq {"person", "chat"}
    /\ {up, init, gap, posted, timer, monitoring, queued, closed, teamActive, leaving, net,
        svc} \subseteq BOOLEAN

Holds(units, s, i) ==
    \E j \in 0..(Len(units) - Size[s]) : SubSeq(units, j + 1, j + Size[s]) = UnitsOf(s, i)

(* NoMessageLost: a message its source has marked as sent is, whole and in   *)
(* one run, in the fragments file and the partial fragment - whenever the    *)
(* process was killed, and though the mark, the buffer and the file are      *)
(* written one after another (fragmentMessage, endFragment, the sources'     *)
(* mark("sent"), the constructor's recovery).                                *)
Written == FlattenSeq([i \in 1..Len(frags) |-> frags[i].units]) \o buf.units
NoMessageLost == \A s \in SourceNames : \A i \in 1..smark[s] : Holds(Written, s, i)

(* AckedReceived: the server has every fragment before the http_acked mark   *)
(* (markAck's search, in either direction and from wherever the iterator is).*)
HasSeq(r, seq) == \E g \in r : g.seq = seq
AckedReceived == \A i \in 1..acked : HasSeq(received, frags[i].seq)

(* AttemptedOrAcked: a fragment before the sending mark was taken by a       *)
(* service or is at the server; none is skipped (sendNextFragment, markAck). *)
AttemptedOrAcked ==
    \A i \in 1..sending : frags[i] \in handed \/ HasSeq(received, frags[i].seq)

(* AckNeverFails: whatever the server can answer, markAck finds it, and its  *)
(* search, in either direction and from wherever the iterator is, meets only *)
(* fragments: neither an IllegalStateException nor a null ends the process - *)
(* after a restart too, when nextFragmentSeq is what the constructor makes   *)
(* of the two files.                                                         *)
AckNeverFails ==
    up => /\ ~OutOfRange(ServerAck(received))
          /\ pc = "send" => ~OutOfRange(ServerAck(Keep(received, frags[send])))
          /\ pc = "step" => Stepped.on
          /\ pc = "scan" => cur.on

(* SeqsContiguous: seqs start at 0 and none is ever skipped, so the server's *)
(* gap-free ack can reach the last fragment (beginFragment, the constructor).*)
SeqsContiguous ==
    LET seqs == [i \in 1..Len(frags) |-> frags[i].seq] \o (IF buf.open THEN <<buf.seq>> ELSE <<>>)
    IN  \A i \in 1..Len(seqs) :
            IF i = 1 THEN seqs[i] = 0 ELSE seqs[i] - seqs[i - 1] \in {0, 1}

(* AcksRight: an ack of the server is about fragments it has, and markAck    *)
(* finds the fragment that it is about.                                      *)
AcksRight == AckedReceived /\ AckNeverFails

(* UniqueSeqs: two fragments that differ do not share a seq, by which        *)
(* receivers tell duplicates (beginFragment, endFragment, the constructor).  *)
UniqueSeqs ==
    \A i, j \in 1..Len(frags) : frags[i].seq = frags[j].seq => frags[i] = frags[j]

(* NumbersRight: whatever the UI thread's hasUnsent does to the iterators    *)
(* meanwhile - and when a null it caused ends the process, and the           *)
(* constructor has to find the next number again - no number is skipped, and *)
(* none is given to two fragments.                                           *)
NumbersRight == SeqsContiguous /\ UniqueSeqs

(* RecoveredIntact: a partial fragment recovered after a restart goes out    *)
(* with nothing in it but messages (the constructor's recovery).             *)
RecoveredIntact == \A i \in 1..Len(frags) : Junk \notin ToSet(frags[i].units)

(* What the server can read: its fragments up to the first gap.              *)
Readable == FlattenSeq([n \in 1..(ServerAck(received) + 1) |->
                            (CHOOSE g \in received : g.seq = n - 1).units])
AtServer(s, i) == Holds(Readable, s, i)

(* EventuallyDelivered: once the leader's network stays up, the server again *)
(* and again has every record of the team, its members and their chat, whole *)
(* - whatever the network, the services, deadlines and other threads did     *)
(* before (onStateChanged, the watchers' Visit, sendViaHttp's resumption     *)
(* from the server's ack).                                                   *)
AllAtServer == \A s \in SourceNames : \A i \in 1..recs[s] : AtServer(s, i)
EventuallyDelivered == <>[]net => []<>AllAtServer

(* ClosingDelivered: once the network stays up, the record that closes the   *)
(* team reaches the server (TeamStorage.leave, done).                        *)
ClosingDelivered == <>[]net => (recs["team"] = 2 ~> AtServer("team", 2))
=============================================================================
