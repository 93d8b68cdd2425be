--------------------------- MODULE MCQueueThreads ---------------------------
(***************************************************************************)
(* MessageQueue with several sets of constants: what is delivered in the   *)
(* end, what holds even when the UI thread moves the iterators that the    *)
(* background thread uses, and what holds when the process is killed. Each *)
(* behaviour is of one of them (part).                                     *)
(***************************************************************************)
EXTENDS MessageQueue

VARIABLE part

all == <<part, vars>>
Sizes == [s \in {"team", "member", "chat"} |-> IF s = "chat" THEN 2 ELSE 1]

(* The UI thread asks, the team is left and a request fails.               *)
Threads == INSTANCE MessageQueue WITH
    MaxChat <- 0, MaxPersons <- 1, CanLeave <- TRUE, MaxAsks <- 1

ThreadsInit == part \in {"delivery", "threads"} /\ Init

ThreadsNext ==
    /\ part' = part
    /\ \/ part = "delivery" /\ Next
       \/ part = "threads" /\ Threads!Next

(* The fairness of MessageQueue, where its liveness is checked.            *)
DeliveryFairness ==
    /\ WF_vars(part = "delivery" /\ Background)
    /\ SF_vars(part = "delivery" /\ RunAlarm)
    /\ \A w \in {"person", "chat"} : SF_vars(part = "delivery" /\ Visit(w))
    /\ WF_vars(part = "delivery" /\ DeadlinePasses)
    /\ WF_vars(part = "delivery" /\ TimerFires)
    /\ WF_vars(part = "delivery" /\ LeaveRecorded)

ThreadsSpec == ThreadsInit /\ [][ThreadsNext]_all /\ DeliveryFairness

(* One member and a process that is killed twice, or two members.          *)
Kills == INSTANCE MessageQueue WITH MaxPersons <- 1, MaxErrors <- 0, MaxCrashes <- 2

KillsInit == part \in {"members", "kills"} /\ Init

KillsNext ==
    /\ part' = part
    /\ \/ part = "members" /\ Next
       \/ part = "kills" /\ Kills!Next

KillsSpec == KillsInit /\ [][KillsNext]_all

(* The UI thread asks while the constants are those of the cfg.            *)
AskingSpec == part = "asking" /\ Init /\ [][part' = part /\ Next]_all

-----------------------------------------------------------------------------
(* Without the UI thread: once the leader's network stays up, the server   *)
(* again and again has every record of the team, its members and their     *)
(* chat, whole, whatever the network, the services and deadlines did.      *)
DeliveredAlone == part = "delivery" => EventuallyDelivered
=============================================================================
