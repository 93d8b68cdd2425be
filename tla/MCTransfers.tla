----------------------------- MODULE MCTransfers -----------------------------
(***************************************************************************)
(* What arrives at a phone in pieces: Incoming with two sets of constants, *)
(* Transfers with three, and PackUint, which packs the numbers of their    *)
(* messages. Each behaviour is of one of them (part); while one is checked *)
(* the others rest in an initial state. The constants of the cfg are the   *)
(* part "http" of Incoming, with a refusal, a network that goes and a      *)
(* kill, and the peers and files that the parts of Transfers choose from.  *)
(***************************************************************************)
EXTENDS Incoming, Transfers

VARIABLES part, v, out

packing == <<v, out>>
all == <<part, vars, transferVars, packing>>

(* Fragments from the satellite, each perhaps twice, without a network.    *)
Satellite == INSTANCE Incoming WITH
    MaxSeq <- 3, MaxSatellite <- 4, MaxKills <- 2, MaxPrefs <- 1, MaxErrors <- 0,
    MaxRefusals <- 0, MaxOutages <- 0, HasNetwork <- FALSE
(* Two peers with the same file, in three pieces.                          *)
Same == INSTANCE Transfers WITH
    Bad <- {}, Files <- {"chat"}, MaxLen <- 3, MaxLosses <- 0, MaxDeaths <- 0
(* Two peers whose files differ, and connections that break.               *)
Differ == INSTANCE Transfers WITH Files <- {"chat"}
(* One peer with two files.                                                *)
Two == INSTANCE Transfers WITH Peers <- {"p1"}, Bad <- {}, MaxLosses <- 0, MaxDeaths <- 0
(* Groups of 3 bits in an int of 10: the numbers below the sign bit.       *)
Pack == INSTANCE PackUint WITH Group <- 3, Width <- 10, Wide <- 20, Room <- 4, MaxValue <- 511

ASSUME ConstantsFit ==
    /\ IncomingAssumption /\ Satellite!IncomingAssumption /\ TransferBounds
    /\ Same!TransferBounds /\ Differ!TransferBounds /\ Two!TransferBounds /\ Pack!PackAssumption

TransfersInit ==
    /\ part \in {"http", "satellite", "same", "differ", "two", "pack"}
    /\ IF part = "satellite" THEN Satellite!Init ELSE Init
    /\ TransferInit
    /\ Pack!Init /\ (part # "pack" => v = 0)

TransfersNext ==
    /\ part' = part
    /\ \/ part = "same" /\ Same!TransferNext /\ UNCHANGED <<vars, packing>>
       \/ part = "differ" /\ Differ!TransferNext /\ UNCHANGED <<vars, packing>>
       \/ part = "two" /\ Two!TransferNext /\ UNCHANGED <<vars, packing>>
       \/ part = "pack" /\ Pack!Next /\ UNCHANGED <<vars, transferVars>>
       \/ part = "http" /\ Next /\ UNCHANGED <<transferVars, packing>>
       \/ part = "satellite" /\ Satellite!Next /\ UNCHANGED <<transferVars, packing>>

(* The fairness of both, where their liveness is checked.                  *)
TransfersFairness ==
    /\ WF_vars(part = "http" /\ HttpAlarm)
    /\ WF_vars(part = "http" /\ Ask)
    /\ WF_vars(part = "http" /\ MinutePasses)
    /\ WF_vars(part = "http" /\ NetworkBack)
    /\ \A t \in Threads : WF_vars(part = "http" /\ Step(t))
    /\ WF_transferVars(part = "two" /\ Two!Difference("p1"))
    /\ WF_transferVars(part = "two" /\ Two!send_metadata("p1"))
    /\ WF_transferVars(part = "two" /\ Two!receive_metadata("p1"))
    /\ WF_transferVars(part = "two" /\ Two!processRequest("p1"))
    /\ WF_transferVars(part = "two" /\ Two!ProcessData("p1"))

TransfersSpec == TransfersInit /\ [][TransfersNext]_all /\ TransfersFairness

-----------------------------------------------------------------------------
(* Types of the messages and of the transfers.                             *)
TransferTypes ==
    /\ IF part = "satellite" THEN Satellite!TypeOK ELSE TypeOK
    /\ part = "same" => Same!TransferTypeOK
    /\ part = "differ" => Differ!TransferTypeOK
    /\ part = "two" => Two!TransferTypeOK

(* At every step of a transfer: what is under way will be answered, what   *)
(* is counted is right, and the receiver reads the number that was packed, *)
(* and no byte behind it.                                                  *)
TransfersSound ==
    /\ TransferTypes
    /\ part = "same" => Same!ActiveAnswered /\ Same!WindowExact
    /\ Pack!RoundTrip

(* Every message of the EOC is shown, and the server is asked again and    *)
(* again, through refusals, outages and kills; and whatever a connected    *)
(* phone stores arrives here, again and again.                             *)
AllArrives ==
    /\ part = "http" => AllShown /\ AsksAgain
    /\ []<>(part = "two" => \A f \in Files : files[f].eof >= Two!EOF("p1", f))
=============================================================================
