------------------------------- MODULE MCTeam -------------------------------
(***************************************************************************)
(* What the leader's phone does for the queue: Transports, which send its  *)
(* fragments, and Members, who are named in its messages. They share no    *)
(* state that matters to the properties, so their interleavings add        *)
(* nothing: each behaviour is of one of them (part), and the other rests   *)
(* in its initial state. Each appears with two sets of constants, for      *)
(* cases that are too many together. Those of the cfg are the part "modem" *)
(* of Transports, a leader with a modem that loses its connection three    *)
(* times, and the part "join" of Members, two people who join and chat,    *)
(* and a process that is killed twice.                                     *)
(***************************************************************************)
EXTENDS Transports, Members

VARIABLE part

all == <<part, vars, memberVars>>

(* SMS and modem; status updates posted to the UI thread; every failure.   *)
Both == INSTANCE Transports WITH
    Count <- 2, HasSms <- TRUE, HasRock <- TRUE, Parts <- 2, OnUiThread <- FALSE, TeamCloses <- TRUE,
    MaxDrops <- 1, MaxErrors <- 1, MaxFails <- 1, MaxFlights <- 1
(* Members who leave and join again.                                       *)
Rejoin == INSTANCE Members WITH MaxRecords <- 3, MaxKills <- 0

ASSUME ConstantsFit ==
    /\ TransportsAssumption /\ Both!TransportsAssumption
    /\ MembersAssumption /\ Rejoin!MembersAssumption

TeamInit ==
    /\ part \in {"modem", "both", "join", "rejoin"}
    /\ Init /\ MembersInit

TeamNext ==
    /\ part' = part
    /\ \/ part = "modem" /\ Next /\ UNCHANGED memberVars
       \/ part = "both" /\ Both!Next /\ UNCHANGED memberVars
       \/ part = "join" /\ MembersNext /\ UNCHANGED vars
       \/ part = "rejoin" /\ Rejoin!MembersNext /\ UNCHANGED vars

(* The fairness of the two modules, for the parts whose liveness is        *)
(* checked.                                                                *)
TeamFairness ==
    /\ WF_vars(part = "modem" /\ Queue)
    /\ WF_vars(part = "modem" /\ Observe)
    /\ WF_vars(part = "modem" /\ Answers)
    /\ WF_vars(part = "modem" /\ Transmitted)
    /\ WF_memberVars(part = "join" /\ (Visited \/ Enrolment \/ EnrolmentsDone
                                       \/ ChatMessage \/ NoChatMessage))
    /\ WF_memberVars(part = "join" /\ Restart)
    /\ SF_memberVars(part = "join" /\ AlarmRuns)
    /\ \A p \in People : /\ SF_memberVars(part = "join" /\ Visit(p))
                         /\ SF_memberVars(part = "join" /\ ChatVisit(p))

TeamSpec == TeamInit /\ [][TeamNext]_all /\ TeamFairness

-----------------------------------------------------------------------------
(* With a modem that comes back after every drop, all fragments are handed *)
(* over; with status updates on the UI thread and no failures, none meets  *)
(* an empty sendingMsg, and once the queue is closed and nothing is being  *)
(* sent the modem may turn itself off and nobody observes it.              *)
HandedOver ==
    /\ [](IF part = "both" THEN Both!TypeOK ELSE TypeOK)
    /\ [](part = "modem" => NoCrash /\ TornDown)
    /\ part = "modem" => AllHanded

(* What a person who stays writes is sent, whatever the kills.             *)
SentAlone == part = "join" => AllSent
=============================================================================
