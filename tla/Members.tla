------------------------------ MODULE Members ------------------------------
(***************************************************************************)
(* Members of a team, as the leader's phone sees them: files of people are *)
(* synchronised to it, its watcher enrols and revokes them (MessageQueue), *)
(* the list of members gives them positions (MembershipList), and the EOC  *)
(* is told of both (MemberEnrolments) and gets their messages, which name  *)
(* their author by position only (ChatQueueWatcher).                       *)
(*                                                                         *)
(* A message is given to the EOC when it is fragmented, and the alarm of a *)
(* fragment's deadline follows: MessageQueue has that part.  A record of a *)
(* person is whether it has a name; one without says that they left.       *)
(***************************************************************************)
EXTENDS Integers, Sequences, FiniteSets, Functions, SequencesExt

CONSTANTS People, EOC,
          MaxPosition,   \* the largest position that fits a message, 255
          MaxRecords,    \* bound: records of one person
          MaxChat,       \* bound: chat messages of one person
          MaxMembers,    \* bound: records of the members file
          MaxKills       \* bound: times the process is killed

MembersAssumption ==
    /\ EOC \notin People /\ MaxPosition \in Nat \ {0}
    /\ {MaxRecords, MaxChat, MaxMembers, MaxKills} \subseteq Nat

VARIABLES id,         \* each person's file: a record has a name or not
          enrolled,   \* its mark
          chat,       \* number of chat messages of each person
          chatSent,   \* the mark of that file
          members,    \* the file of memberships: a person, and whether enrolled
          sent,       \* its mark
          list,       \* MembershipList: records read, positions, peerIds
          queue,      \* people whose chat messages are remembered
          alarm,      \* of the queue
          step, at,     \* of the background thread; the person or the record that it is at
          eoc,        \* the EOC: who is at a position, positions left, and authors of messages
          kills

files == <<id, enrolled, chat, chatSent, members, sent>>
memberVars == <<files, list, queue, alarm, step, at, eoc, kills>>

EmptyList == [read |-> 0, positions |-> [p \in {EOC} |-> 0], peerIds |-> <<EOC>>]

MembersInit ==
    /\ id = [p \in People |-> << >>] /\ enrolled = [p \in People |-> 0]
    /\ chat = enrolled /\ chatSent = enrolled
    /\ members = << >> /\ sent = 0 /\ list = EmptyList
    /\ queue = {} /\ alarm = TRUE /\ step = "idle" /\ at = 0 /\ eoc = [names |-> {}, left |-> {}, chats |-> {}] /\ kills = 0

InTeam(p) == id[p] # << >> /\ Last(id[p])

-----------------------------------------------------------------------------
\* What people do, as it reaches the leader.
JoinOrLeave(p) ==
    /\ Len(id[p]) < MaxRecords
    /\ id' = [id EXCEPT ![p] = Append(@, ~InTeam(p))]
    /\ UNCHANGED <<enrolled, chat, chatSent, members, sent, list, queue, alarm, step, at, eoc, kills>>

Chats(p) ==
    /\ InTeam(p) /\ chat[p] < MaxChat
    /\ chat' = [chat EXCEPT ![p] = @ + 1]
    /\ UNCHANGED <<id, enrolled, chatSent, members, sent, list, queue, alarm, step, at, eoc, kills>>

-----------------------------------------------------------------------------
\* getMembers, from the record that it is at to the last.  A person keeps the first position,
\* and gets a new one after a revocation.
Read_bugReuse(l, m) ==
    LET r == [l EXCEPT !.read = @ + 1]
    IN IF ~m.enroll THEN [r EXCEPT !.positions = Restrict(@, DOMAIN @ \ {m.peer})]
       ELSE IF m.peer \in DOMAIN l.positions THEN r
       ELSE [r EXCEPT !.peerIds = Append(@, m.peer),
                    !.positions = [p \in DOMAIN @ \cup {m.peer} |-> IF p = m.peer THEN Cardinality(DOMAIN @) ELSE @[p]]]
Read(l, m) ==
    LET r == [l EXCEPT !.read = @ + 1]
    IN IF ~m.enroll THEN [r EXCEPT !.positions = Restrict(@, DOMAIN @ \ {m.peer})]
       ELSE IF m.peer \in DOMAIN l.positions THEN r
       ELSE [r EXCEPT !.peerIds = Append(@, m.peer),
                    !.positions = [p \in DOMAIN @ \cup {m.peer} |-> IF p = m.peer THEN Len(l.peerIds) ELSE @[p]]]

getMembers ==
    LET loop[i \in list.read .. Len(members)] ==
            IF i = list.read THEN list ELSE Read(loop[i - 1], members[i])
    IN loop[Len(members)]

\* memberWatcher: only the last record of a person counts.
Visit_bugNoAlarm(p) ==
    /\ step = "idle" /\ enrolled[p] # Len(id[p]) /\ Len(members) < MaxMembers
    /\ members' = Append(members, [peer |-> p, enroll |-> InTeam(p)])
    /\ step' = "visited" /\ at' = p
    /\ UNCHANGED <<id, enrolled, chat, chatSent, sent, list, queue, alarm, eoc, kills>>
Visit(p) ==
    /\ step = "idle" /\ enrolled[p] # Len(id[p]) /\ Len(members) < MaxMembers
    /\ members' = Append(members, [peer |-> p, enroll |-> InTeam(p)])
    /\ step' = "visited" /\ at' = p /\ alarm' = TRUE
    /\ UNCHANGED <<id, enrolled, chat, chatSent, sent, list, queue, eoc, kills>>

Visited ==
    /\ step = "visited"
    /\ enrolled' = [enrolled EXCEPT ![at] = Len(id[at])]
    /\ step' = "idle" /\ at' = 0
    /\ UNCHANGED <<id, chat, chatSent, members, sent, list, queue, alarm, eoc, kills>>

\* The watcher of chat messages.
ChatVisit(p) ==
    /\ step = "idle" /\ chat[p] > chatSent[p] /\ p \notin queue
    /\ queue' = queue \cup {p} /\ alarm' = TRUE
    /\ UNCHANGED <<files, list, step, at, eoc, kills>>

-----------------------------------------------------------------------------
\* The alarm: MemberEnrolments first, then chat messages.
AlarmRuns ==
    /\ step = "idle" /\ alarm
    /\ alarm' = FALSE /\ step' = "enrol" /\ at' = sent
    /\ UNCHANGED <<files, list, queue, eoc, kills>>

\* The position of somebody who was revoked is null, which ends the process.
Enrolment ==
    /\ step = "enrol" /\ at < Len(members)
    /\ list' = getMembers
    /\ LET m == members[at + 1]
           known == m.peer \in DOMAIN list'.positions
           pos == list'.positions[m.peer]
           told == known /\ pos <= MaxPosition
       IN /\ step' = IF known THEN step ELSE "ended"
          /\ eoc' = [eoc EXCEPT !.names = @ \cup IF told /\ m.enroll THEN {<<pos, m.peer>>} ELSE {},
                                !.left = @ \cup IF told /\ ~m.enroll THEN {pos} ELSE {}]
          /\ alarm' = (alarm \/ told)
    /\ at' = at + 1
    /\ UNCHANGED <<files, queue, kills>>

EnrolmentsDone ==
    /\ step = "enrol" /\ at >= Len(members)
    /\ sent' = at /\ step' = "chats" /\ at' = 0
    /\ UNCHANGED <<id, enrolled, chat, chatSent, members, list, queue, alarm, eoc, kills>>

\* Who has that position, as far as the EOC was told.
Known(pos) == {n[2] : n \in {k \in eoc.names : k[1] = pos}}

Sendable(p) == p \in DOMAIN getMembers.positions /\ getMembers.positions[p] <= MaxPosition

\* The first person in the queue that is enrolled; the others stay.
ChatMessage ==
    /\ step = "chats" /\ list' = getMembers
    /\ \E p \in queue :
          /\ Sendable(p)
          /\ eoc' = [eoc EXCEPT !.chats = @ \cup {<<p, Known(getMembers.positions[p])>>}]
          /\ chatSent' = [chatSent EXCEPT ![p] = @ + 1]
          /\ queue' = IF chat[p] > chatSent'[p] THEN queue ELSE queue \ {p}
    /\ step' = "idle" /\ alarm' = TRUE
    /\ UNCHANGED <<id, enrolled, chat, members, sent, at, kills>>

NoChatMessage ==
    /\ step = "chats" /\ \A p \in queue : ~Sendable(p)
    /\ list' = getMembers /\ step' = "idle"
    /\ UNCHANGED <<files, queue, alarm, at, eoc, kills>>

\* The process ends, here or by the exception, and starts again: all files are visited.
Restarted ==
    /\ list' = EmptyList /\ queue' = {} /\ alarm' = TRUE /\ step' = "idle" /\ at' = 0
    /\ UNCHANGED <<files, eoc>>
Kill == step # "ended" /\ kills < MaxKills /\ kills' = kills + 1 /\ Restarted
Restart == step = "ended" /\ UNCHANGED kills /\ Restarted

Background ==
    \/ \E p \in People : Visit(p) \/ ChatVisit(p)
    \/ Visited \/ AlarmRuns \/ Enrolment \/ EnrolmentsDone \/ ChatMessage \/ NoChatMessage

MembersNext == Background \/ Kill \/ Restart \/ \E p \in People : JoinOrLeave(p) \/ Chats(p)

\* The thread goes on: what was posted to it runs, in the end.
MembersFairness ==
    /\ WF_memberVars(Visited \/ Enrolment \/ EnrolmentsDone \/ ChatMessage \/ NoChatMessage) /\ WF_memberVars(Restart)
    /\ SF_memberVars(AlarmRuns) /\ \A p \in People : SF_memberVars(Visit(p)) /\ SF_memberVars(ChatVisit(p))

MembersSpec == MembersInit /\ [][MembersNext]_memberVars /\ MembersFairness

-----------------------------------------------------------------------------
\* Types, and no mark is beyond its file.
MembersTypeOK ==
    /\ \A p \in People : enrolled[p] <= Len(id[p]) /\ chatSent[p] <= chat[p]
    /\ \A i \in DOMAIN members : members[i].peer \in People
    /\ sent <= Len(members) /\ list.read <= Len(members)
    /\ queue \subseteq People /\ step \in {"idle", "visited", "enrol", "chats", "ended"}

\* The EOC knows whose every message is: it was told before of the position, and of nobody
\* else with that position.
NamedRight == \A c \in eoc.chats : c[2] = {c[1]}

\* Every position has one person, who is the one at that place of the list.
ListRight == \A p \in DOMAIN list.positions : list.peerIds[list.positions[p] + 1] = p

\* A position stands for one person, in the list of the phone and at the EOC, through
\* leaving and joining again and whenever the process is killed.
PositionsRight == MembersTypeOK /\ ListRight /\ NamedRight

\* Whatever a person who does not leave writes is sent, whatever others do (with positions
\* enough for all).
AllSent ==
    []<>(\A p \in People : FALSE \in Range(id[p]) \/ chatSent[p] = chat[p])
============================================================================
