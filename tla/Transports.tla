----------------------------- MODULE Transports -----------------------------
(***************************************************************************)
(* SMSTransport and RockTransport, with RockMessaging, which drives the    *)
(* satellite modem: who takes the next fragment of the queue, and when a   *)
(* transport is ready again.                                               *)
(*                                                                         *)
(* Three threads: the queue's (sendNextFragment), that of the modem's      *)
(* framework, and the UI thread, where observers run.  The framework is    *)
(* not part of the sources: its states, and what it answers to which call, *)
(* are taken from how RockMessaging uses it.  Bluetooth, once on, is on    *)
(* until it drops out; a scan by the user and a modem that cannot send raw *)
(* messages are left out.                                                  *)
(***************************************************************************)
EXTENDS Integers, Sequences, FiniteSets

CONSTANTS Count,        \* fragments of the queue
          HasSms,       \* SMS is enabled, allowed and has a destination
          HasRock,      \* a modem is paired
          Parts,        \* SMS messages of a fragment
          OnUiThread,   \* the framework calls back on the UI thread
          TeamCloses,   \* the team is closed, and with it the queue once it is empty
          MaxDrops,     \* bound: connections that fail or break, Bluetooth included
          MaxErrors,    \* bound: errors of the device
          MaxFails,     \* bound: messages that the modem reports as failed
          MaxFlights    \* bound: changes of the airplane mode

TransportsAssumption ==
    /\ {Count, Parts, MaxDrops, MaxErrors, MaxFails, MaxFlights} \subseteq Nat
    /\ {HasSms, HasRock, OnUiThread, TeamCloses} \subseteq BOOLEAN

Fragments == 1 .. Count
None == 0

\* A RockMessage: the one that newMessage puts into the table after the framework took the
\* fragment, or one that a status made before that.
Messages == Fragments \X {"own", "early"}

VARIABLES next,     \* the fragment at the mark "sending"
          pc,       \* of the queue's thread: idle, loop, or took (sendRawMessage was called)
          sms,      \* SMSTransport: sending, airplaneMode, and intents that are still to come
          rock,     \* RockMessaging and RockTransport
          count     \* of the bounded events

vars == <<next, pc, sms, rock, count>>

Init ==
    /\ next = 1 /\ pc = "idle"
    /\ sms = [sending |-> None, airplane |-> FALSE, intents |-> {}]
    /\ rock = [bluetooth |-> TRUE, state |-> "Idle",                        \* connectionState
               device |-> FALSE, id |-> FALSE, lock |-> "null", error |-> FALSE,
               asked |-> {},                       \* calls of the framework without answer yet
               air |-> {}, table |-> {},           \* fragments that the modem has; messages
               status |-> [m \in Messages |-> "null"],
               sendingMsg |-> None, required |-> FALSE, closed |-> FALSE, observing |-> TRUE,
               timeout |-> TRUE, crashed |-> FALSE, posted |-> << >>,
               alarm |-> TRUE]
    /\ count = [drops |-> 0, errors |-> 0, fails |-> 0, flights |-> 0]

Happens(event, bound) == count[event] < bound /\ count' = [count EXCEPT ![event] = @ + 1]

-----------------------------------------------------------------------------
\* RockTransport.observe on the UI thread; it reads the status that the message has then.
Nothing == <<None, "own">>
Final(status) == status \in {"Transmitted", "Failed"}

observe_bugSilent(r, m) ==
    IF m # Nothing /\ r.status[m] = "Transmitted" /\ r.sendingMsg = m[1]
    THEN [r EXCEPT !.sendingMsg = None, !.timeout = TRUE, !.observing = @ /\ ~r.closed] ELSE r
observe(r, m) ==
    LET final == m # Nothing /\ Final(r.status[m])
        mine == final /\ r.sendingMsg = m[1]
        transmitted == mine /\ r.status[m] = "Transmitted"
    IN IF final /\ r.sendingMsg = None THEN [r EXCEPT !.crashed = TRUE]
       ELSE [r EXCEPT !.error = @ /\ ~(final /\ r.status[m] = "Transmitted"),     \* requestBeep
                      !.sendingMsg = IF mine THEN None ELSE @,
                      !.timeout = @ \/ transmitted,
                      !.observing = @ /\ ~(transmitted /\ r.closed),
                      !.alarm = @ \/ ((r.required \/ mine) /\ ~r.closed)]

\* AndroidObserver.
notifyObservers(r, m) ==
    IF ~r.observing THEN r
    ELSE IF OnUiThread THEN observe(r, m) ELSE [r EXCEPT !.posted = Append(@, m)]

Observe ==
    /\ rock.posted # << >> /\ ~rock.crashed
    /\ rock' = observe([rock EXCEPT !.posted = Tail(@)], Head(rock.posted))
    /\ UNCHANGED <<next, pc, sms, count>>

-----------------------------------------------------------------------------
\* RockTransport.checkAvailable: "SUCCESS", or what it starts.  Connecting and entering
\* the PIN forget the last error.
checkState(r) == IF r.state \in {"Idle", "Off"} THEN [r EXCEPT !.asked = @ \cup {"enable"}] ELSE r

Ready_bugBusy(r) == r.bluetooth /\ r.device /\ r.lock = "Unlocked"
Ready(r) == r.bluetooth /\ r.device /\ r.lock = "Unlocked" /\ r.sendingMsg = None

checkAvailable(r) ==
    LET needed == [r EXCEPT !.required = TRUE]
        fixed == checkState(needed)
    IN IF ~r.bluetooth THEN [needed EXCEPT !.asked = @ \cup {"bluetooth"}]
       ELSE IF ~r.device
       THEN IF ~r.error /\ r.state = "Ready"
            THEN [fixed EXCEPT !.id = TRUE, !.lock = "null", !.asked = @ \cup {"connect"}]
            ELSE fixed
       ELSE IF r.lock = "Locked"
       THEN [fixed EXCEPT !.lock = "null", !.error = FALSE, !.asked = @ \cup {"unlock"}]
       ELSE fixed

SmsUsed == HasSms /\ ~sms.airplane

QueueAlarm ==
    /\ pc = "idle" /\ rock.alarm /\ ~rock.crashed
    /\ rock' = [rock EXCEPT !.alarm = FALSE]
    /\ pc' = IF rock.closed THEN "idle" ELSE "loop"
    /\ UNCHANGED <<next, sms, count>>

\* trySend of SMSTransport.
SmsTakes ==
    /\ pc = "loop" /\ next <= Count /\ SmsUsed /\ sms.sending = None
    /\ next' = next + 1
    /\ sms' = [sms EXCEPT !.sending = next,
                          !.intents = {[seq |-> next, part |-> p, parts |-> Parts] : p \in 0 .. (Parts - 1)}]
    /\ UNCHANGED <<pc, rock, count>>

SmsBusy ==
    /\ pc = "loop" /\ next <= Count /\ SmsUsed /\ sms.sending # None
    /\ pc' = "idle"
    /\ UNCHANGED <<next, sms, rock, count>>

\* Only when SMS is not available is the modem tried.
RockNotReady ==
    /\ pc = "loop" /\ next <= Count /\ ~SmsUsed /\ ~(HasRock /\ Ready(rock))
    /\ rock' = IF HasRock THEN checkAvailable(rock) ELSE rock
    /\ pc' = "idle"
    /\ UNCHANGED <<next, sms, count>>

RockSends ==
    /\ pc = "loop" /\ next <= Count /\ ~SmsUsed /\ HasRock /\ Ready(rock)
    /\ rock' = [checkAvailable(rock) EXCEPT !.timeout = FALSE, !.error = FALSE, !.air = @ \cup {next}]
    /\ pc' = "took"
    /\ UNCHANGED <<next, sms, count>>

RockTook ==
    /\ pc = "took"
    /\ rock' = [rock EXCEPT !.sendingMsg = next, !.table = @ \cup {next}]
    /\ pc' = "loop" /\ next' = next + 1
    /\ UNCHANGED <<sms, count>>

\* done, and close if the team is not active any more.
Done ==
    /\ pc = "loop" /\ next > Count
    /\ rock' = [rock EXCEPT !.required = FALSE, !.timeout = @ \/ rock.sendingMsg = None,
                            !.closed = TeamCloses, !.observing = @ /\ ~(TeamCloses /\ rock.sendingMsg = None)]
    /\ pc' = "idle"
    /\ UNCHANGED <<next, sms, count>>

-----------------------------------------------------------------------------
\* The receiver of SMSTransport.
SmsSent ==
    \E intent \in sms.intents, ok \in BOOLEAN :
        LET last == sms.sending = intent.seq /\ intent.part = intent.parts /\ ok
        IN /\ sms' = [sms EXCEPT !.intents = @ \ {intent}, !.sending = IF last THEN None ELSE @]
           /\ rock' = IF last THEN [rock EXCEPT !.alarm = ~rock.closed] ELSE rock
           /\ UNCHANGED <<next, pc, count>>

AirplaneMode ==
    /\ Happens("flights", MaxFlights)
    /\ sms' = [sms EXCEPT !.airplane = ~@]
    /\ rock' = [rock EXCEPT !.alarm = @ \/ ~rock.closed]
    /\ UNCHANGED <<next, pc>>

-----------------------------------------------------------------------------
\* RockMessaging's callbacks.
Framework == ~rock.crashed /\ UNCHANGED <<next, pc, sms>>

isConnecting(state) == state \in {"Connecting", "Connected"}

deviceStateChanged_bugKeep(r, to) ==
    IF r.state = to \/ (r.id /\ r.state = "Idle" /\ to = "Ready") THEN [r EXCEPT !.state = to]
    ELSE notifyObservers([r EXCEPT !.state = to, !.error = FALSE], Nothing)
deviceStateChanged(r, to) ==
    LET lost == isConnecting(r.state) /\ ~isConnecting(to)
        changed == [r EXCEPT !.state = to, !.error = FALSE]
    IN IF r.state = to \/ (r.id /\ r.state = "Idle" /\ to = "Ready") THEN [r EXCEPT !.state = to]
       ELSE notifyObservers(IF lost THEN [changed EXCEPT !.device = FALSE, !.id = FALSE, !.lock = "null"]
                            ELSE changed, Nothing)

\* What the framework does: it is ready once it is enabled, and connects when it is asked to.
Enabled ==
    /\ "enable" \in rock.asked /\ rock.bluetooth /\ rock.state \in {"Idle", "Off"}
    /\ rock' = deviceStateChanged([rock EXCEPT !.asked = @ \ {"enable"}], "Ready")
    /\ Framework /\ UNCHANGED count

Connects ==
    /\ "connect" \in rock.asked /\ rock.state = "Ready"
    /\ rock' = deviceStateChanged([rock EXCEPT !.asked = @ \ {"connect"}], "Connecting")
    /\ Framework /\ UNCHANGED count

IsConnected ==
    /\ rock.state = "Connecting"
    /\ rock' = deviceStateChanged(rock, "Connected")
    /\ Framework /\ UNCHANGED count

deviceConnected ==
    /\ rock.state = "Connected" /\ ~rock.device
    /\ \E lock \in {"Locked", "Unlocked"} :
          rock' = notifyObservers([rock EXCEPT !.device = TRUE, !.lock = lock], Nothing)
    /\ Framework /\ UNCHANGED count

deviceLockStatusUpdated ==
    /\ "unlock" \in rock.asked /\ rock.device
    /\ rock' = notifyObservers([rock EXCEPT !.asked = @ \ {"unlock"}, !.lock = "Unlocked", !.error = FALSE], Nothing)
    /\ Framework /\ UNCHANGED count

\* The connection breaks, or cannot be made; or the framework is idle once more before it
\* connects, and deviceStateChanged tells nobody that it is ready again.
Drops ==
    /\ Happens("drops", MaxDrops)
    /\ \/ /\ isConnecting(rock.state)
          /\ rock' = deviceStateChanged([rock EXCEPT !.asked = @ \ {"unlock"}], "Ready")
       \/ /\ "connect" \in rock.asked /\ rock.state = "Ready"
          /\ rock' = deviceStateChanged(rock, "Idle")
    /\ Framework

\* Bluetooth goes off, which setBlueToothState and the framework tell, and on again.
BluetoothOff ==
    /\ rock.bluetooth /\ Happens("drops", MaxDrops)
    /\ rock' = deviceStateChanged(notifyObservers([rock EXCEPT !.bluetooth = FALSE, !.asked = {}], Nothing), "Off")
    /\ Framework

BluetoothOn ==
    /\ "bluetooth" \in rock.asked
    /\ rock' = notifyObservers(checkState([rock EXCEPT !.bluetooth = TRUE, !.asked = @ \ {"bluetooth"}]), Nothing)
    /\ Framework /\ UNCHANGED count

deviceError ==
    /\ Happens("errors", MaxErrors)
    /\ rock' = notifyObservers([rock EXCEPT !.error = TRUE], Nothing)
    /\ Framework

\* A message is on its way, transmitted or failed.  Transmitting takes longer than a call.
messageStatusUpdated(f, status) ==
    LET m == <<f, IF f \in rock.table THEN "own" ELSE "early">>
        done == IF Final(status) THEN {f} ELSE {}
        updated == [rock EXCEPT !.status[m] = status, !.air = @ \ done]
        told == notifyObservers(updated, m)
    IN /\ f \in rock.air /\ rock.device /\ rock.status[m] # status
       /\ status = "Transmitted" => f \in rock.table
       /\ rock' = [told EXCEPT !.table = IF status = "Transmitted" THEN @ \ {f} ELSE @]
       /\ Framework

Progress == \E f \in Fragments : messageStatusUpdated(f, "Pending") /\ UNCHANGED count
Transmitted == \E f \in Fragments : messageStatusUpdated(f, "Transmitted") /\ UNCHANGED count
Failed == \E f \in Fragments : messageStatusUpdated(f, "Failed") /\ Happens("fails", MaxFails)

Queue == QueueAlarm \/ SmsTakes \/ SmsBusy \/ RockNotReady \/ RockSends \/ RockTook \/ Done
Answers == Enabled \/ Connects \/ IsConnected \/ deviceConnected \/ deviceLockStatusUpdated \/ BluetoothOn

Next ==
    \/ Queue \/ Observe \/ SmsSent \/ AirplaneMode \/ Answers
    \/ Drops \/ BluetoothOff \/ deviceError \/ Progress \/ Transmitted \/ Failed

\* Threads go on, and phone and modem answer.
Fairness ==
    /\ WF_vars(Queue) /\ WF_vars(Observe) /\ WF_vars(SmsSent) /\ WF_vars(Answers) /\ WF_vars(Transmitted)

Spec == Init /\ [][Next]_vars /\ Fairness

-----------------------------------------------------------------------------
\* Types, and a message that is waited for has been handed over.
TypeOK ==
    /\ next \in 1 .. (Count + 1) /\ pc \in {"idle", "loop", "took"}
    /\ sms.sending \in Fragments \cup {None} /\ rock.sendingMsg \in Fragments \cup {None}
    /\ rock.state \in {"Off", "Idle", "Ready", "Connecting", "Connected"}
    /\ rock.lock \in {"null", "Locked", "Unlocked"} /\ rock.air \subseteq Fragments
    /\ rock.sendingMsg < next /\ sms.sending < next

\* No status of a message is handled when none is waited for: that would end the process.
NoCrash == ~rock.crashed

\* A device that is connected belongs to a connection.
DeviceOfConnection == rock.device => rock.state = "Connected"

(***************************************************************************)
(* The modem has no fragment but the one that RockTransport waits for, or  *)
(* between sendRawMessage and the return of trySend the one that is being  *)
(* sent, whatever drops, fails or is told late: no second fragment is sent *)
(* while the end of the first is not known.                                *)
(***************************************************************************)
OneInAir == rock.air \subseteq (IF pc = "took" THEN {next} ELSE {rock.sendingMsg})

\* The modem does not turn itself off while it has a message to transmit.
StaysOn == rock.air # {} => ~rock.timeout

\* The modem is on for a connection, and as long as it has something to transmit.
ModemHeld == DeviceOfConnection /\ StaysOn

\* Once the queue is closed and nothing is being sent, the modem may turn itself off and
\* nobody observes it any more.
TornDown == rock.closed /\ rock.sendingMsg = None => rock.timeout /\ ~rock.observing

\* All fragments are given to a transport.
AllHanded == <>(next > Count)
=============================================================================
