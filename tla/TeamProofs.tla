----------------------------- MODULE TeamProofs -----------------------------
(***************************************************************************)
(* What holds of the transports and of the membership of a team.           *)
(*                                                                         *)
(* Of SMSTransport, RockTransport and RockMessaging: for any number of     *)
(* fragments, with or without either transport, and for any number of      *)
(* drops, errors and failures.  The modem's timeout and sendingMsg are set *)
(* on three threads.  What ties them together is Airborne: the modem has   *)
(* no other fragment than the one that is waited for, or, between          *)
(* sendRawMessage and the assignment of sendingMsg, the one at the mark.   *)
(*                                                                         *)
(* Of Members: what a position stands for, on the leader's phone and at    *)
(* the EOC, for any number of people, records and kills.                   *)
(***************************************************************************)
EXTENDS Transports, Members, SequenceTheorems, WellFoundedInduction, TLAPS

RockFields ==
    {"bluetooth", "state", "device", "id", "lock", "error", "asked", "air", "table", "status",
     "sendingMsg", "required", "closed", "observing", "timeout", "crashed", "posted", "alarm"}
Updates == Messages \cup {Nothing}
Events == {"drops", "errors", "fails", "flights"}

\* The queue's thread, and what SMSTransport waits for.
Handing ==
    /\ next \in 1 .. (Count + 1) /\ pc \in {"idle", "loop", "took"}
    /\ pc = "took" => next <= Count
    /\ DOMAIN sms = {"sending", "airplane", "intents"}
    /\ sms.sending \in Fragments \cup {None} /\ sms.sending < next

\* The driver's connection.
Linked(r) ==
    /\ r.state \in {"Off", "Idle", "Ready", "Connecting", "Connected"}
    /\ r.lock \in {"null", "Locked", "Unlocked"}
    /\ r.device => r.state = "Connected"

\* The types of what the messages are about.
Loaded ==
    /\ DOMAIN rock = RockFields
    /\ rock.air \subseteq Fragments
    /\ rock.sendingMsg \in Fragments \cup {None} /\ rock.sendingMsg < next
    /\ DOMAIN rock.status = Messages
    /\ rock.posted \in Seq(Updates)

\* A fragment in the air is the one that is waited for, and none that has a final status.
Airborne ==
    /\ rock.air \subseteq (IF pc = "took" THEN {next} ELSE {rock.sendingMsg})
    /\ pc = "took" => rock.sendingMsg = None
    /\ \A m \in Messages : Final(rock.status[m]) =>
          m[1] \notin rock.air /\ (m[1] < next \/ (pc = "took" /\ m[1] = next))

TransportsInv == Handing /\ Linked(rock) /\ Loaded /\ Airborne /\ StaysOn

\* Where observers run at once and no message fails: what closing relies on.
Closing ==
    /\ rock.posted = << >> /\ ~rock.crashed
    /\ rock.closed => pc = "idle"
    /\ rock.table \subseteq 1 .. (next - 1)
    /\ DOMAIN count = Events /\ count["fails"] = 0
ClosingInv == TransportsInv /\ Closing /\ TornDown

-----------------------------------------------------------------------------
(***************************************************************************)
(* What the helpers leave alone.  Quiet(r, s): s differs from r in what    *)
(* the connection, its commands and the alarm are about, and not in what   *)
(* the messages are about.                                                 *)
(***************************************************************************)
Quiet(r, s) ==
    /\ DOMAIN s = RockFields
    /\ s.air = r.air /\ s.table = r.table /\ s.status = r.status
    /\ s.sendingMsg = r.sendingMsg /\ s.closed = r.closed
    /\ s.timeout <=> r.timeout
    /\ s.observing <=> r.observing
    /\ s.crashed <=> r.crashed
    /\ s.posted \in Seq(Updates)
    /\ OnUiThread => s.posted = r.posted

Rockish(r) == DOMAIN r = RockFields /\ r.posted \in Seq(Updates)

\* The message m is the one that is waited for, and its status is final.
Settled(r, m) == m # Nothing /\ Final(r.status[m]) /\ r.sendingMsg = m[1] /\ r.sendingMsg # None

\* s is r after observers were told of m.
Told(r, m, s) ==
    /\ DOMAIN s = RockFields
    /\ s.state = r.state /\ s.device = r.device /\ s.lock = r.lock
    /\ s.air = r.air /\ s.table = r.table /\ s.status = r.status /\ s.closed = r.closed
    /\ s.sendingMsg # r.sendingMsg => s.sendingMsg = None /\ Settled(r, m)
    /\ s.timeout => r.timeout \/ (s.sendingMsg = None /\ Settled(r, m))
    /\ s.posted \in Seq(Updates)

\* RockTransport.observe and AndroidObserver, told of a message.
LEMMA ObserveFacts ==
    ASSUME NEW r, NEW m, Rockish(r)
    PROVE  Told(r, m, observe(r, m))
BY DEF observe, Told, Settled, Rockish, RockFields

LEMMA NotifyFacts ==
    ASSUME NEW r, NEW m \in Updates, Rockish(r)
    PROVE  Told(r, m, notifyObservers(r, m))
<1>1. CASE ~r.observing
  BY <1>1 DEF notifyObservers, Told, Rockish
<1>2. CASE r.observing /\ OnUiThread
  BY <1>2, ObserveFacts DEF notifyObservers
<1>3. CASE r.observing /\ ~OnUiThread
  BY <1>3 DEF notifyObservers, Told, Rockish, RockFields
<1> QED  BY <1>1, <1>2, <1>3

\* Observers that are told of no message leave the messages alone.
LEMMA NotifyQuiet ==
    ASSUME NEW r, Rockish(r)
    PROVE  LET s == notifyObservers(r, Nothing)
           IN Quiet(r, s) /\ s.state = r.state /\ s.device = r.device /\ s.lock = r.lock
<1>1. /\ Quiet(r, observe(r, Nothing))
      /\ observe(r, Nothing).state = r.state /\ observe(r, Nothing).device = r.device
      /\ observe(r, Nothing).lock = r.lock
  BY DEF observe, Quiet, Rockish, RockFields
<1>2. CASE ~r.observing
  BY <1>2 DEF notifyObservers, Quiet, Rockish
<1>3. CASE r.observing /\ OnUiThread
  BY <1>1, <1>3 DEF notifyObservers
<1>4. CASE r.observing /\ ~OnUiThread
  BY <1>4 DEF notifyObservers, Quiet, Rockish, RockFields, Updates
<1> QED  BY <1>2, <1>3, <1>4

\* RockMessaging.deviceStateChanged: a device that is lost is forgotten.
LEMMA StateChangedFacts ==
    ASSUME NEW r, Rockish(r), Linked(r),
           NEW to \in {"Off", "Idle", "Ready", "Connecting", "Connected"},
           to = "Connecting" => r.state = "Ready"
    PROVE  Quiet(r, deviceStateChanged(r, to)) /\ Linked(deviceStateChanged(r, to))
<1> DEFINE changed == [r EXCEPT !.state = to, !.error = FALSE]
           forgot == [changed EXCEPT !.device = FALSE, !.id = FALSE, !.lock = "null"]
           same == [r EXCEPT !.state = to]
           lost == isConnecting(r.state) /\ ~isConnecting(to)
           quick == r.state = to \/ (r.id /\ r.state = "Idle" /\ to = "Ready")
<1>1. CASE quick
  <2>1. deviceStateChanged(r, to) = same
    BY <1>1 DEF deviceStateChanged
  <2>2. Quiet(r, same) /\ Linked(same)
    BY <1>1 DEF Quiet, Rockish, RockFields, Linked
  <2> QED  BY <2>1, <2>2
<1>2. CASE ~quick /\ lost
  <2>1. deviceStateChanged(r, to) = notifyObservers(forgot, Nothing)
    BY <1>2 DEF deviceStateChanged
  <2>2. Rockish(forgot) /\ Quiet(r, forgot) /\ Linked(forgot)
    BY DEF Quiet, Rockish, RockFields, Linked
  <2> HIDE DEF forgot
  <2>3. /\ Quiet(forgot, notifyObservers(forgot, Nothing))
        /\ notifyObservers(forgot, Nothing).state = forgot.state
        /\ notifyObservers(forgot, Nothing).device = forgot.device
        /\ notifyObservers(forgot, Nothing).lock = forgot.lock
    BY <2>2, NotifyQuiet
  <2> QED  BY <2>1, <2>2, <2>3 DEF Quiet, Linked
<1>3. CASE ~quick /\ ~lost
  <2>1. deviceStateChanged(r, to) = notifyObservers(changed, Nothing)
    BY <1>3 DEF deviceStateChanged
  <2>2. Rockish(changed) /\ Quiet(r, changed) /\ Linked(changed)
    BY <1>3 DEF Quiet, Rockish, RockFields, Linked, isConnecting
  <2> HIDE DEF changed
  <2>3. /\ Quiet(changed, notifyObservers(changed, Nothing))
        /\ notifyObservers(changed, Nothing).state = changed.state
        /\ notifyObservers(changed, Nothing).device = changed.device
        /\ notifyObservers(changed, Nothing).lock = changed.lock
    BY <2>2, NotifyQuiet
  <2> QED  BY <2>1, <2>2, <2>3 DEF Quiet, Linked
<1> QED  BY <1>1, <1>2, <1>3

\* RockTransport.checkAvailable asks for things and waits for none.
LEMMA CheckFacts ==
    ASSUME NEW r, Rockish(r), Linked(r)
    PROVE  Quiet(r, checkAvailable(r)) /\ Linked(checkAvailable(r))
BY DEF checkAvailable, checkState, Quiet, Rockish, RockFields, Linked

-----------------------------------------------------------------------------
\* The steps that are not about a message.
QuietStep ==
    \/ QueueAlarm \/ SmsTakes \/ SmsBusy \/ RockNotReady \/ SmsSent \/ AirplaneMode
    \/ Answers \/ Drops \/ BluetoothOff \/ deviceError \/ UNCHANGED vars

LEMMA QuietSteps ==
    ASSUME Linked(rock), Loaded, QuietStep
    PROVE  Quiet(rock, rock') /\ Linked(rock')
<1>0. Rockish(rock) /\ Quiet(rock, rock)
  BY DEF Loaded, Rockish, Quiet
<1>1. CASE QueueAlarm
  <2>1. rock' = [rock EXCEPT !.alarm = FALSE]
    BY <1>1 DEF QueueAlarm
  <2> QED  BY <1>0, <2>1 DEF Quiet, Linked, Rockish, RockFields
<1>2. CASE SmsTakes \/ SmsBusy \/ UNCHANGED vars
  <2>1. rock' = rock
    BY <1>2 DEF SmsTakes, SmsBusy, vars
  <2> QED  BY <1>0, <2>1
<1>3. CASE RockNotReady
  <2>1. rock' = checkAvailable(rock) \/ rock' = rock
    BY <1>3 DEF RockNotReady
  <2> QED  BY <1>0, <2>1, CheckFacts
<1>4. CASE SmsSent \/ AirplaneMode
  <2>1. \/ rock' = rock
        \/ rock' = [rock EXCEPT !.alarm = ~rock.closed]
        \/ rock' = [rock EXCEPT !.alarm = @ \/ ~rock.closed]
    BY <1>4 DEF SmsSent, AirplaneMode
  <2> QED  BY <1>0, <2>1 DEF Quiet, Linked, Rockish, RockFields
<1>5. CASE Enabled \/ Connects \/ IsConnected \/ Drops
  <2> DEFINE asks(s) == [rock EXCEPT !.asked = s]
  <2>1. \E to \in {"Idle", "Ready", "Connecting", "Connected"} :
           /\ to = "Connecting" => rock.state = "Ready"
           /\ rock' = deviceStateChanged(rock, to) \/ \E s : rock' = deviceStateChanged(asks(s), to)
    BY <1>5 DEF Enabled, Connects, IsConnected, Drops
  <2>2. \A s : Rockish(asks(s)) /\ Linked(asks(s)) /\ Quiet(rock, asks(s)) /\ asks(s).state = rock.state
    BY <1>0 DEF Quiet, Linked, Rockish, RockFields
  <2> HIDE DEF asks
  <2>3. PICK to \in {"Idle", "Ready", "Connecting", "Connected"} :
           /\ to = "Connecting" => rock.state = "Ready"
           /\ rock' = deviceStateChanged(rock, to) \/ \E s : rock' = deviceStateChanged(asks(s), to)
    BY <2>1
  <2>4. CASE rock' = deviceStateChanged(rock, to)
    BY <1>0, <2>3, <2>4, StateChangedFacts
  <2>5. CASE \E s : rock' = deviceStateChanged(asks(s), to)
    <3>1. PICK s : rock' = deviceStateChanged(asks(s), to)
      BY <2>5
    <3>2. Quiet(asks(s), rock') /\ Linked(rock')
      BY <2>2, <2>3, <3>1, StateChangedFacts
    <3> QED  BY <2>2, <3>2 DEF Quiet
  <2> QED  BY <2>3, <2>4, <2>5
<1>6. CASE deviceConnected \/ deviceLockStatusUpdated \/ BluetoothOn \/ deviceError
  <2>1. \E r : /\ rock' = notifyObservers(r, Nothing)
               /\ Rockish(r) /\ Quiet(rock, r) /\ Linked(r)
    <3>1. CASE deviceConnected
      <4>1. PICK lock \in {"Locked", "Unlocked"} :
               rock' = notifyObservers([rock EXCEPT !.device = TRUE, !.lock = lock], Nothing)
        BY <3>1 DEF deviceConnected
      <4>2. LET r == [rock EXCEPT !.device = TRUE, !.lock = lock]
            IN Rockish(r) /\ Quiet(rock, r) /\ Linked(r)
        BY <1>0, <3>1 DEF deviceConnected, Quiet, Linked, Rockish, RockFields
      <4> QED  BY <4>1, <4>2
    <3>2. CASE deviceLockStatusUpdated
      <4>1. LET r == [rock EXCEPT !.asked = @ \ {"unlock"}, !.lock = "Unlocked", !.error = FALSE]
            IN Rockish(r) /\ Quiet(rock, r) /\ Linked(r) /\ rock' = notifyObservers(r, Nothing)
        BY <1>0, <3>2 DEF deviceLockStatusUpdated, Quiet, Linked, Rockish, RockFields
      <4> QED  BY <4>1
    <3>3. CASE BluetoothOn
      <4>1. LET r == checkState([rock EXCEPT !.bluetooth = TRUE, !.asked = @ \ {"bluetooth"}])
            IN Rockish(r) /\ Quiet(rock, r) /\ Linked(r)
        BY <1>0 DEF checkState, Quiet, Linked, Rockish, RockFields
      <4> QED  BY <3>3, <4>1 DEF BluetoothOn
    <3>4. CASE deviceError
      <4>1. LET r == [rock EXCEPT !.error = TRUE]
            IN Rockish(r) /\ Quiet(rock, r) /\ Linked(r) /\ rock' = notifyObservers(r, Nothing)
        BY <1>0, <3>4 DEF deviceError, Quiet, Linked, Rockish, RockFields
      <4> QED  BY <4>1
    <3> QED  BY <1>6, <3>1, <3>2, <3>3, <3>4
  <2>2. PICK r : rock' = notifyObservers(r, Nothing) /\ Rockish(r) /\ Quiet(rock, r) /\ Linked(r)
    BY <2>1
  <2>3. Quiet(r, rock') /\ rock'.state = r.state /\ rock'.device = r.device /\ rock'.lock = r.lock
    BY <2>2, NotifyQuiet
  <2> QED  BY <2>2, <2>3 DEF Quiet, Linked
<1>7. CASE BluetoothOff
  <2> DEFINE r == [rock EXCEPT !.bluetooth = FALSE, !.asked = {}]
             s == notifyObservers(r, Nothing)
  <2>1. rock' = deviceStateChanged(s, "Off")
    BY <1>7 DEF BluetoothOff
  <2>2. Rockish(r) /\ Quiet(rock, r) /\ Linked(r)
    BY <1>0 DEF Quiet, Linked, Rockish, RockFields
  <2> HIDE DEF r
  <2>3. Quiet(r, s) /\ s.state = r.state /\ s.device = r.device /\ s.lock = r.lock
    BY <2>2, NotifyQuiet
  <2>4. Rockish(s) /\ Linked(s)
    BY <2>2, <2>3 DEF Quiet, Rockish, Linked
  <2> HIDE DEF s
  <2>5. Quiet(s, rock') /\ Linked(rock')
    BY <2>1, <2>4, StateChangedFacts
  <2> QED  BY <2>2, <2>3, <2>5 DEF Quiet
<1> QED  BY <1>1, <1>2, <1>3, <1>4, <1>5, <1>6, <1>7 DEF QuietStep, Answers

LEMMA CountNat == ASSUME TransportsAssumption PROVE Count \in Nat
BY DEF TransportsAssumption

\* The mark goes on, and SMSTransport waits for a fragment before it.
LEMMA HandingNext ==
    ASSUME TransportsAssumption, Handing, [Next]_vars
    PROVE  Handing'
<1> USE DEF Fragments, None
<1>0. Count \in Nat /\ next \in 1 .. (Count + 1)
  BY CountNat DEF Handing
<1> DEFINE Same == UNCHANGED next /\ pc' \in {"idle", "loop", "took"}
                   /\ (pc' = "took" => next <= Count)
<1>1. CASE Same /\ sms' = sms
  BY <1>1 DEF Handing
<1>2. CASE Same /\ DOMAIN sms' = DOMAIN sms /\ sms'.sending \in {sms.sending, None}
  BY <1>2 DEF Handing
<1>3. ASSUME next' = next + 1, next <= Count, pc' = "loop",
             DOMAIN sms' = DOMAIN sms, sms'.sending \in {sms.sending, next}
      PROVE  Handing'
  <2>1. next' = next + 1 /\ next' \in 1 .. (Count + 1)
    BY <1>0, <1>3
  <2>2. sms'.sending \in Fragments \cup {None} /\ sms'.sending < next'
    BY <1>0, <1>3, <2>1 DEF Handing
  <2> QED  BY <1>0, <1>3, <2>1, <2>2 DEF Handing
<1>4. CASE QueueAlarm \/ SmsBusy \/ RockNotReady \/ RockSends \/ Done
  <2>1. Same /\ sms' = sms
    BY <1>4 DEF QueueAlarm, SmsBusy, RockNotReady, RockSends, Done, Handing
  <2> QED  BY <1>1, <2>1
<1>5. CASE SmsTakes
  <2>1. next' = next + 1 /\ next <= Count /\ pc' = "loop"
    BY <1>5 DEF SmsTakes
  <2>2. DOMAIN sms' = DOMAIN sms /\ sms'.sending = next
    BY <1>5 DEF SmsTakes, Handing
  <2> QED  BY <1>3, <2>1, <2>2
<1>6. CASE RockTook
  <2>1. next' = next + 1 /\ next <= Count /\ pc' = "loop" /\ sms' = sms
    BY <1>6 DEF RockTook, Handing
  <2> QED  BY <1>3, <2>1
<1>7. CASE SmsSent
  <2>1. UNCHANGED <<next, pc>> /\ DOMAIN sms' = DOMAIN sms /\ sms'.sending \in {sms.sending, None}
    BY <1>7 DEF SmsSent, Handing
  <2> QED  BY <1>2, <2>1 DEF Handing
<1>8. CASE AirplaneMode
  <2>1. UNCHANGED <<next, pc>> /\ DOMAIN sms' = DOMAIN sms /\ sms'.sending = sms.sending
    BY <1>8 DEF AirplaneMode, Handing
  <2> QED  BY <1>2, <2>1 DEF Handing
<1>9. CASE UNCHANGED <<next, pc, sms>>
  BY <1>1, <1>9 DEF Handing
<1>10. ASSUME NEW f, NEW status, messageStatusUpdated(f, status)
       PROVE  UNCHANGED <<next, pc, sms>>
  BY <1>10 DEF messageStatusUpdated, Framework
<1>11. CASE Observe \/ Answers \/ Drops \/ BluetoothOff \/ deviceError
  <2>1. UNCHANGED <<next, pc, sms>>
    BY <1>11 DEF Observe, Answers, Enabled, Connects, IsConnected, deviceConnected,
       deviceLockStatusUpdated, BluetoothOn, Drops, BluetoothOff, deviceError, Framework
  <2> QED  BY <1>9, <2>1
<1>12. CASE Progress \/ Transmitted \/ Failed
  <2>1. UNCHANGED <<next, pc, sms>>
    BY <1>10, <1>12 DEF Progress, Transmitted, Failed
  <2> QED  BY <1>9, <2>1
<1> QED
  BY <1>4, <1>5, <1>6, <1>7, <1>8, <1>9, <1>11, <1>12 DEF Next, Queue, vars

-----------------------------------------------------------------------------
\* Where the queue's thread stands with the modem: a step that neither begins nor ends a call.
Steady ==
    /\ pc' = "took" <=> pc = "took"
    /\ next' >= next
    /\ pc = "took" => next' = next

MessageInv == Loaded /\ Airborne /\ StaysOn

LEMMA QuietKeeps ==
    ASSUME TransportsAssumption, TransportsInv, Handing', Quiet(rock, rock'), Steady
    PROVE  MessageInv'
<1>1. next \in Int /\ next' \in Int /\ (\A m \in Messages : m[1] \in Int) /\ rock.sendingMsg \in Int
  <2>1. next \in Int /\ next' \in Int
    BY CountNat DEF TransportsInv, Handing
  <2>2. \A m \in Messages : m[1] \in Int
    BY CountNat DEF Messages, Fragments
  <2>3. rock.sendingMsg \in Int
    BY CountNat DEF TransportsInv, Loaded, Fragments, None
  <2> QED  BY <2>1, <2>2, <2>3
<1>2. /\ DOMAIN rock' = RockFields
      /\ rock'.air = rock.air /\ rock'.status = rock.status /\ rock'.sendingMsg = rock.sendingMsg
      /\ rock'.timeout => rock.timeout
      /\ rock'.posted \in Seq(Updates)
  BY DEF Quiet
<1>3. Loaded'
  BY <1>1, <1>2 DEF TransportsInv, Loaded, Steady
<1>4. Airborne'
  BY <1>1, <1>2 DEF TransportsInv, Airborne, Steady
<1>5. StaysOn'
  BY <1>2 DEF TransportsInv, StaysOn
<1> QED  BY <1>3, <1>4, <1>5 DEF MessageInv

LEMMA QuietIsSteady ==
    ASSUME TransportsAssumption, Handing, QuietStep
    PROVE  Steady
<1>1. next \in Nat
  BY CountNat DEF Handing
<1>2. CASE QueueAlarm \/ SmsBusy \/ RockNotReady \/ SmsSent \/ AirplaneMode \/ UNCHANGED vars
  <2>1. next' = next /\ (pc' = pc \/ (pc' # "took" /\ pc # "took"))
    BY <1>2 DEF QueueAlarm, SmsBusy, RockNotReady, SmsSent, AirplaneMode, vars
  <2> QED  BY <1>1, <2>1 DEF Steady
<1>3. CASE SmsTakes
  BY <1>1, <1>3 DEF SmsTakes, Steady
<1>4. CASE Answers \/ Drops \/ BluetoothOff \/ deviceError
  <2>1. UNCHANGED <<next, pc>>
    BY <1>4 DEF Answers, Enabled, Connects, IsConnected, deviceConnected,
       deviceLockStatusUpdated, BluetoothOn, Drops, BluetoothOff, deviceError, Framework
  <2> QED  BY <1>1, <2>1 DEF Steady
<1> QED  BY <1>2, <1>3, <1>4 DEF QuietStep

\* An observer that is told of the message that is waited for finds nothing left in the air.
LEMMA ToldKeeps ==
    ASSUME TransportsAssumption, Handing, UNCHANGED <<next, pc>>,
           NEW r, NEW m \in Updates, Told(r, m, rock'),
           r.air \subseteq Fragments, r.sendingMsg \in Fragments \cup {None}, r.sendingMsg < next,
           DOMAIN r.status = Messages,
           r.air \subseteq (IF pc = "took" THEN {next} ELSE {r.sendingMsg}),
           pc = "took" => r.sendingMsg = None,
           \A n \in Messages : Final(r.status[n]) =>
               n[1] \notin r.air /\ (n[1] < next \/ (pc = "took" /\ n[1] = next)),
           r.air # {} => ~r.timeout
    PROVE  MessageInv'
<1>1. /\ DOMAIN rock' = RockFields
      /\ rock'.air = r.air /\ rock'.status = r.status
      /\ rock'.sendingMsg # r.sendingMsg => rock'.sendingMsg = None /\ Settled(r, m)
      /\ rock'.timeout => r.timeout \/ (rock'.sendingMsg = None /\ Settled(r, m))
      /\ rock'.posted \in Seq(Updates)
  BY DEF Told
<1>2. Settled(r, m) => r.air = {}
  <2> SUFFICES ASSUME Settled(r, m) PROVE r.air = {}
    OBVIOUS
  <2>1. m \in Messages /\ Final(r.status[m]) /\ r.sendingMsg = m[1] /\ r.sendingMsg # None
    BY DEF Settled, Updates
  <2>2. m[1] \notin r.air /\ pc # "took"
    BY <2>1
  <2> QED  BY <2>1, <2>2
<1>3. None < next
  BY DEF Handing, None
<1>4. Loaded'
  BY <1>1, <1>3 DEF Loaded
<1>5. Airborne'
  BY <1>1, <1>2 DEF Airborne
<1>6. StaysOn'
  BY <1>1, <1>2 DEF StaysOn
<1> QED  BY <1>4, <1>5, <1>6 DEF MessageInv

LEMMA ObserveKeeps ==
    ASSUME TransportsAssumption, TransportsInv, Observe
    PROVE  MessageInv' /\ Linked(rock')
<1> DEFINE r == [rock EXCEPT !.posted = Tail(@)]
           m == Head(rock.posted)
<1>1. rock.posted \in Seq(Updates) /\ rock.posted # << >>
  BY DEF Observe, TransportsInv, Loaded
<1>2. m \in Updates /\ Tail(rock.posted) \in Seq(Updates)
  BY <1>1
<1>3. rock' = observe(r, m) /\ UNCHANGED <<next, pc>>
  BY DEF Observe
<1>4. /\ DOMAIN r = RockFields /\ r.posted = Tail(rock.posted)
      /\ r.state = rock.state /\ r.device = rock.device /\ r.lock = rock.lock
      /\ r.air = rock.air /\ r.status = rock.status /\ r.sendingMsg = rock.sendingMsg
      /\ r.timeout = rock.timeout
  BY DEF TransportsInv, Loaded, RockFields
<1> HIDE DEF r, m
<1>5. Rockish(r)
  BY <1>2, <1>4 DEF Rockish
<1>6. Told(r, m, rock')
  BY <1>3, <1>5, ObserveFacts
<1>7. MessageInv'
  <2>1. /\ r.air \subseteq Fragments /\ r.sendingMsg \in Fragments \cup {None} /\ r.sendingMsg < next
        /\ DOMAIN r.status = Messages /\ Handing
    BY <1>4 DEF TransportsInv, Loaded
  <2>2. /\ r.air \subseteq (IF pc = "took" THEN {next} ELSE {r.sendingMsg})
        /\ pc = "took" => r.sendingMsg = None
        /\ \A n \in Messages : Final(r.status[n]) =>
               n[1] \notin r.air /\ (n[1] < next \/ (pc = "took" /\ n[1] = next))
    BY <1>4 DEF TransportsInv, Airborne
  <2>3. r.air # {} => ~r.timeout
    BY <1>4 DEF TransportsInv, StaysOn
  <2> QED  BY <1>2, <1>3, <1>6, <2>1, <2>2, <2>3, ToldKeeps
<1>8. Linked(rock')
  BY <1>4, <1>6 DEF Told, Linked, TransportsInv
<1> QED  BY <1>7, <1>8

\* The message that a status is about.
About(f) == <<f, IF f \in rock.table THEN "own" ELSE "early">>

\* A status is put into the message and observers are told.
LEMMA StatusFacts ==
    ASSUME TransportsInv, NEW f \in Fragments, NEW status, messageStatusUpdated(f, status)
    PROVE  \E r : /\ Told(r, About(f), rock') /\ About(f) \in Messages
                  /\ r.state = rock.state /\ r.device = rock.device /\ r.lock = rock.lock
                  /\ r.air = rock.air \ (IF Final(status) THEN {f} ELSE {})
                  /\ r.status = [rock.status EXCEPT ![About(f)] = status]
                  /\ r.sendingMsg = rock.sendingMsg /\ r.timeout = rock.timeout
                  /\ f \in rock.air /\ UNCHANGED <<next, pc>>
<1> DEFINE m == About(f)
           done == IF Final(status) THEN {f} ELSE {}
           updated == [rock EXCEPT !.status[m] = status, !.air = @ \ done]
           told == notifyObservers(updated, m)
           r == [updated EXCEPT !.table = rock'.table]
<1>1. /\ f \in rock.air /\ UNCHANGED <<next, pc>>
      /\ rock' = [told EXCEPT !.table = IF status = "Transmitted" THEN @ \ {f} ELSE @]
  BY DEF messageStatusUpdated, About, Framework
<1>2. m \in Messages
  BY DEF About, Messages
<1>3. /\ DOMAIN updated = RockFields /\ updated.posted = rock.posted
      /\ updated.state = rock.state /\ updated.device = rock.device /\ updated.lock = rock.lock
      /\ updated.air = rock.air \ done /\ updated.status = [rock.status EXCEPT ![m] = status]
      /\ updated.sendingMsg = rock.sendingMsg /\ updated.timeout = rock.timeout
  BY DEF TransportsInv, Loaded, RockFields
<1>4. Rockish(updated) /\ m \in Updates
  BY <1>2, <1>3 DEF Rockish, TransportsInv, Loaded, Updates
<1> HIDE DEF updated, m
<1>5. Told(updated, m, told)
  BY <1>4, NotifyFacts
<1> HIDE DEF told
<1>6. /\ DOMAIN rock' = RockFields
      /\ rock'.state = told.state /\ rock'.device = told.device /\ rock'.lock = told.lock
      /\ rock'.air = told.air /\ rock'.status = told.status /\ rock'.closed = told.closed
      /\ rock'.sendingMsg = told.sendingMsg /\ rock'.timeout = told.timeout /\ rock'.posted = told.posted
  BY <1>1, <1>5 DEF Told, RockFields
<1>7. /\ r.state = updated.state /\ r.device = updated.device /\ r.lock = updated.lock
      /\ r.air = updated.air /\ r.status = updated.status /\ r.closed = updated.closed
      /\ r.sendingMsg = updated.sendingMsg /\ r.timeout = updated.timeout /\ r.table = rock'.table
  BY <1>3 DEF RockFields
<1> HIDE DEF r
<1>8. Told(r, m, rock')
  BY <1>5, <1>6, <1>7 DEF Told, Settled
<1> QED
  BY <1>1, <1>2, <1>3, <1>7, <1>8 DEF m

LEMMA StatusKeeps ==
    ASSUME TransportsAssumption, TransportsInv, NEW f \in Fragments, NEW status, messageStatusUpdated(f, status)
    PROVE  MessageInv' /\ Linked(rock')
<1> DEFINE m == About(f)
<1>1. PICK r : /\ Told(r, m, rock') /\ m \in Messages
               /\ r.state = rock.state /\ r.device = rock.device /\ r.lock = rock.lock
               /\ r.air = rock.air \ (IF Final(status) THEN {f} ELSE {})
               /\ r.status = [rock.status EXCEPT ![m] = status]
               /\ r.sendingMsg = rock.sendingMsg /\ r.timeout = rock.timeout
               /\ f \in rock.air /\ UNCHANGED <<next, pc>>
  BY StatusFacts
<1>2. m[1] = f
  BY DEF About
<1> HIDE DEF m
<1>3. f < next \/ (pc = "took" /\ f = next)
  BY <1>1 DEF TransportsInv, Airborne, Loaded
<1>4. /\ r.air \subseteq rock.air
      /\ DOMAIN r.status = Messages /\ r.status[m] = status
      /\ \A n \in Messages : n # m => r.status[n] = rock.status[n]
  BY <1>1 DEF TransportsInv, Loaded
<1>5. \A n \in Messages : Final(r.status[n]) =>
         n[1] \notin r.air /\ (n[1] < next \/ (pc = "took" /\ n[1] = next))
  <2> SUFFICES ASSUME NEW n \in Messages, Final(r.status[n])
               PROVE  n[1] \notin r.air /\ (n[1] < next \/ (pc = "took" /\ n[1] = next))
    OBVIOUS
  <2>1. CASE n = m
    BY <1>1, <1>2, <1>3, <1>4, <2>1
  <2>2. CASE n # m
    BY <1>4, <2>2 DEF TransportsInv, Airborne
  <2> QED  BY <2>1, <2>2
<1>6. /\ r.air \subseteq Fragments /\ r.sendingMsg \in Fragments \cup {None} /\ r.sendingMsg < next
      /\ r.air \subseteq (IF pc = "took" THEN {next} ELSE {r.sendingMsg})
      /\ pc = "took" => r.sendingMsg = None
      /\ Handing /\ m \in Updates
  BY <1>1, <1>4 DEF TransportsInv, Loaded, Airborne, Updates
<1>7. r.air # {} => ~r.timeout
  BY <1>1, <1>4 DEF TransportsInv, StaysOn
<1>8. MessageInv'
  BY <1>1, <1>4, <1>5, <1>6, <1>7, ToldKeeps
<1>9. Linked(rock')
  BY <1>1 DEF Told, Linked, TransportsInv
<1> QED  BY <1>8, <1>9

\* A fragment is given to the modem when it has none, which is when none is waited for.
LEMMA RockSendsKeeps ==
    ASSUME TransportsAssumption, TransportsInv, RockSends
    PROVE  MessageInv' /\ Linked(rock')
<1> DEFINE r == checkAvailable(rock)
<1>1. Rockish(rock) /\ Linked(rock)
  BY DEF TransportsInv, Loaded, Rockish
<1>2. Quiet(rock, r) /\ Linked(r)
  BY <1>1, CheckFacts
<1>3. /\ pc = "loop" /\ pc' = "took" /\ next' = next /\ next <= Count /\ rock.sendingMsg = None
      /\ rock' = [r EXCEPT !.timeout = FALSE, !.error = FALSE, !.air = @ \cup {next}]
  BY DEF RockSends, Ready
<1> HIDE DEF r
<1>4. /\ DOMAIN rock' = RockFields /\ rock'.air = rock.air \cup {next} /\ ~rock'.timeout
      /\ rock'.sendingMsg = None /\ rock'.status = rock.status /\ rock'.posted \in Seq(Updates)
      /\ rock'.state = r.state /\ rock'.lock = r.lock /\ rock'.device = r.device
  BY <1>2, <1>3 DEF Quiet, RockFields
<1>5. rock.air = {} /\ next \in Fragments /\ None < next
  BY <1>3, CountNat DEF TransportsInv, Airborne, Loaded, Fragments, None, Handing
<1>6. \A m \in Messages : Final(rock.status[m]) => m[1] < next
  BY <1>3 DEF TransportsInv, Airborne
<1>7. \A m \in Messages : m[1] \in Int /\ next \in Int
  BY <1>5, CountNat DEF Messages, Fragments
<1>8. Loaded'
  BY <1>3, <1>4, <1>5 DEF TransportsInv, Loaded
<1>9. Airborne'
  BY <1>3, <1>4, <1>5, <1>6, <1>7 DEF Airborne
<1> QED
  BY <1>2, <1>4, <1>8, <1>9 DEF MessageInv, StaysOn, Linked

\* From now on the fragment in the air is waited for, if its status is not final already.
LEMMA RockTookKeeps ==
    ASSUME TransportsAssumption, TransportsInv, RockTook
    PROVE  MessageInv' /\ Linked(rock')
<1>1. /\ pc = "took" /\ pc' = "loop" /\ next' = next + 1 /\ next <= Count
      /\ rock' = [rock EXCEPT !.sendingMsg = next, !.table = @ \cup {next}]
  BY DEF RockTook, TransportsInv, Handing
<1>2. /\ DOMAIN rock' = RockFields /\ rock'.air = rock.air /\ rock'.timeout = rock.timeout
      /\ rock'.sendingMsg = next /\ rock'.status = rock.status /\ rock'.posted = rock.posted
      /\ rock'.state = rock.state /\ rock'.lock = rock.lock /\ rock'.device = rock.device
  BY <1>1 DEF TransportsInv, Loaded, RockFields
<1>3. next \in Fragments /\ next < next' /\ next \in Int
  BY <1>1, CountNat DEF TransportsInv, Handing, Fragments
<1>4. \A m \in Messages : m[1] \in Int
  BY CountNat DEF Messages, Fragments
<1>5. Loaded'
  BY <1>2, <1>3 DEF TransportsInv, Loaded
<1>6. Airborne'
  BY <1>1, <1>2, <1>3, <1>4 DEF TransportsInv, Airborne
<1>7. StaysOn' /\ Linked(rock')
  BY <1>2 DEF TransportsInv, StaysOn, Linked
<1> QED  BY <1>5, <1>6, <1>7 DEF MessageInv

\* The modem may turn itself off when none is waited for, as nothing is in the air then.
LEMMA DoneKeeps ==
    ASSUME TransportsAssumption, TransportsInv, Done
    PROVE  MessageInv' /\ Linked(rock')
<1>1. /\ pc = "loop" /\ pc' = "idle" /\ next' = next
      /\ rock' = [rock EXCEPT !.required = FALSE, !.timeout = @ \/ rock.sendingMsg = None,
                              !.closed = TeamCloses, !.observing = @ /\ ~(TeamCloses /\ rock.sendingMsg = None)]
  BY DEF Done
<1>2. /\ DOMAIN rock' = RockFields /\ rock'.air = rock.air
      /\ rock'.timeout => rock.timeout \/ rock.sendingMsg = None
      /\ rock'.sendingMsg = rock.sendingMsg /\ rock'.status = rock.status /\ rock'.posted = rock.posted
      /\ rock'.state = rock.state /\ rock'.lock = rock.lock /\ rock'.device = rock.device
  BY <1>1 DEF TransportsInv, Loaded, RockFields
<1>3. rock.sendingMsg = None => rock.air = {}
  BY <1>1 DEF TransportsInv, Airborne, Loaded, Fragments, None
<1>4. Loaded'
  BY <1>1, <1>2 DEF TransportsInv, Loaded
<1>5. Airborne'
  BY <1>1, <1>2 DEF TransportsInv, Airborne
<1>6. StaysOn' /\ Linked(rock')
  BY <1>2, <1>3 DEF TransportsInv, StaysOn, Linked
<1> QED  BY <1>4, <1>5, <1>6 DEF MessageInv

-----------------------------------------------------------------------------
LEMMA TransportsStart == ASSUME TransportsAssumption, Init PROVE TransportsInv
<1>1. Count \in Nat
  BY CountNat
<1>2. next = 1
  BY DEF Init
<1>4. Handing
  BY <1>1, <1>2 DEF Init, Handing, None
<1>5. rock.posted = << >> /\ << >> \in Seq(Updates)
  BY DEF Init
<1>6. Loaded
  BY <1>2, <1>5 DEF Init, Loaded, RockFields, None
<1>7. Linked(rock) /\ Airborne /\ StaysOn
  BY DEF Init, Linked, Airborne, StaysOn, Final
<1> QED  BY <1>4, <1>6, <1>7 DEF TransportsInv

LEMMA TransportsStep ==
    ASSUME TransportsAssumption, TransportsInv, [Next]_vars
    PROVE  TransportsInv'
<1>1. Handing'
  BY HandingNext DEF TransportsInv
<1>2. CASE QuietStep
  <2>1. Quiet(rock, rock') /\ Linked(rock') /\ Steady
    BY <1>2, QuietSteps, QuietIsSteady DEF TransportsInv
  <2> QED  BY <1>1, <2>1, QuietKeeps DEF MessageInv, TransportsInv
<1>3. CASE Observe \/ RockSends \/ RockTook \/ Done
  <2>1. MessageInv' /\ Linked(rock')
    BY <1>3, ObserveKeeps, RockSendsKeeps, RockTookKeeps, DoneKeeps
  <2> QED  BY <1>1, <2>1 DEF MessageInv, TransportsInv
<1>4. CASE Progress \/ Transmitted \/ Failed
  <2>1. MessageInv' /\ Linked(rock')
    BY <1>4, StatusKeeps DEF Progress, Transmitted, Failed
  <2> QED  BY <1>1, <2>1 DEF MessageInv, TransportsInv
<1> QED  BY <1>2, <1>3, <1>4 DEF Next, Queue, QuietStep

(***************************************************************************)
(* Types, and a message that is waited for has been handed over: next is   *)
(* the mark "sending" of MessageQueue.sendNextFragment, sendingMsg and     *)
(* sending the fields of the two transports.                               *)
(***************************************************************************)
THEOREM TransportsTypes == ASSUME TransportsAssumption PROVE Spec => []TypeOK
<1>1. TransportsInv => TypeOK
  BY DEF TransportsInv, Handing, Linked, Loaded, TypeOK
<1> QED  BY <1>1, TransportsStart, TransportsStep, PTL DEF Spec

(***************************************************************************)
(* The modem has no fragment but the one that RockTransport waits for, or  *)
(* that trySend is about to wait for, for any number of fragments, drops,  *)
(* errors and failures and with updates on either thread.                  *)
(***************************************************************************)
THEOREM TransportsOneInAir == ASSUME TransportsAssumption PROVE Spec => []OneInAir
<1>1. TransportsInv => OneInAir
  BY DEF TransportsInv, Airborne, OneInAir
<1> QED  BY <1>1, TransportsStart, TransportsStep, PTL DEF Spec

(***************************************************************************)
(* The modem is on for a connection, and as long as it has something to    *)
(* transmit: RockTransport lets it turn itself off only when the message   *)
(* that it waits for is out of the air, also when updates are posted and   *)
(* seen late, and when a status comes before trySend has returned.         *)
(***************************************************************************)
THEOREM TransportsModem == ASSUME TransportsAssumption PROVE Spec => []ModemHeld
<1>1. TransportsInv => ModemHeld
  BY DEF TransportsInv, Linked, ModemHeld, DeviceOfConnection
<1> QED  BY <1>1, TransportsStart, TransportsStep, PTL DEF Spec

-----------------------------------------------------------------------------
(***************************************************************************)
(* Closing.  The framework calls back on the UI thread, so that observers  *)
(* run at once, and no message fails.                                      *)
(***************************************************************************)
\* No step but a failure counts one.
LEMMA NoFailure ==
    ASSUME MaxFails = 0, Closing, [Next]_vars
    PROVE  ~Failed /\ DOMAIN count' = Events /\ count'["fails"] = 0
<1>1. DOMAIN count = Events /\ count["fails"] = 0
  BY DEF Closing
<1>2. ~Failed
  BY <1>1 DEF Failed, Happens
<1>3. \A e \in {"drops", "errors", "flights"} : \A b : Happens(e, b) => DOMAIN count' = Events /\ count'["fails"] = 0
  BY <1>1 DEF Happens, Events
<1>4. CASE UNCHANGED count
  BY <1>1, <1>2, <1>4
<1>5. CASE AirplaneMode \/ Drops \/ BluetoothOff \/ deviceError
  <2>1. \E e \in {"drops", "errors", "flights"}, b \in {MaxDrops, MaxErrors, MaxFlights} : Happens(e, b)
    BY <1>5 DEF AirplaneMode, Drops, BluetoothOff, deviceError
  <2> QED  BY <1>2, <1>3, <2>1
<1>6. CASE Queue \/ Observe \/ SmsSent \/ Answers \/ Progress \/ Transmitted \/ UNCHANGED vars
  <2>1. UNCHANGED count
    BY <1>6 DEF Queue, QueueAlarm, SmsTakes, SmsBusy, RockNotReady, RockSends, RockTook, Done,
       Observe, SmsSent, Answers, Enabled, Connects, IsConnected, deviceConnected,
       deviceLockStatusUpdated, BluetoothOn, Progress, Transmitted, vars
  <2> QED  BY <1>4, <2>1
<1> QED  BY <1>2, <1>5, <1>6 DEF Next

LEMMA QuietCloses ==
    ASSUME TransportsAssumption, OnUiThread = TRUE, ClosingInv, QuietStep,
           DOMAIN count' = Events, count'["fails"] = 0
    PROVE  Closing' /\ TornDown'
<1>1. Quiet(rock, rock') /\ Steady
  BY QuietSteps, QuietIsSteady DEF ClosingInv, TransportsInv
<1>2. rock.closed => pc' = "idle"
  <2>1. CASE QueueAlarm \/ SmsTakes \/ SmsBusy \/ RockNotReady
    BY <2>1 DEF QueueAlarm, SmsTakes, SmsBusy, RockNotReady, ClosingInv, Closing
  <2>2. CASE SmsSent \/ AirplaneMode \/ Answers \/ Drops \/ BluetoothOff \/ deviceError \/ UNCHANGED vars
    <3>1. pc' = pc
      BY <2>2 DEF SmsSent, AirplaneMode, Answers, Enabled, Connects, IsConnected, deviceConnected,
         deviceLockStatusUpdated, BluetoothOn, Drops, BluetoothOff, deviceError, Framework, vars
    <3> QED  BY <3>1 DEF ClosingInv, Closing
  <2> QED  BY <2>1, <2>2 DEF QuietStep
<1>3. next \in Int /\ next' \in Int /\ next' >= next
  <2>1. Handing /\ Handing'
    BY HandingNext DEF ClosingInv, TransportsInv, QuietStep, Next, Queue
  <2> QED  BY <1>1, <2>1, CountNat DEF Handing, Steady
<1>4. Closing'
  BY <1>1, <1>2, <1>3 DEF ClosingInv, Closing, Quiet
<1>5. TornDown'
  BY <1>1 DEF ClosingInv, TornDown, Quiet
<1> QED  BY <1>4, <1>5

\* The queue's thread gives the modem nothing once the queue is closed.
LEMMA QueueCloses ==
    ASSUME TransportsAssumption, OnUiThread = TRUE, ClosingInv, RockSends \/ RockTook \/ Done,
           DOMAIN count' = Events, count'["fails"] = 0
    PROVE  Closing' /\ TornDown'
<1>0. next \in Nat
  BY CountNat DEF ClosingInv, TransportsInv, Handing
<1>1. CASE RockSends
  <2> DEFINE r == checkAvailable(rock)
  <2>1. Rockish(rock) /\ Linked(rock)
    BY DEF ClosingInv, TransportsInv, Loaded, Rockish
  <2>2. Quiet(rock, r)
    BY <2>1, CheckFacts
  <2>3. /\ pc = "loop" /\ next' = next
        /\ rock' = [r EXCEPT !.timeout = FALSE, !.error = FALSE, !.air = @ \cup {next}]
    BY <1>1 DEF RockSends
  <2> HIDE DEF r
  <2>4. /\ rock'.closed = rock.closed /\ rock'.posted = rock.posted /\ rock'.table = rock.table
        /\ rock'.crashed <=> rock.crashed
    BY <2>2, <2>3 DEF Quiet, RockFields
  <2> QED  BY <2>3, <2>4 DEF ClosingInv, Closing, TornDown
<1>2. CASE RockTook
  <2>1. /\ pc = "took" /\ next' = next + 1
        /\ rock' = [rock EXCEPT !.sendingMsg = next, !.table = @ \cup {next}]
    BY <1>2 DEF RockTook
  <2>2. /\ rock'.closed = rock.closed /\ rock'.posted = rock.posted
        /\ rock'.table = rock.table \cup {next} /\ rock'.crashed = rock.crashed
    BY <2>1 DEF ClosingInv, TransportsInv, Loaded, RockFields
  <2>3. rock'.table \subseteq 1 .. (next' - 1)
    <3>1. rock.table \subseteq 1 .. (next - 1) /\ next >= 1
      BY DEF ClosingInv, Closing, TransportsInv, Handing
    <3> QED  BY <1>0, <2>1, <2>2, <3>1
  <2> QED  BY <2>1, <2>2, <2>3 DEF ClosingInv, Closing, TornDown
<1>3. CASE Done
  <2>1. /\ pc' = "idle" /\ next' = next
        /\ rock' = [rock EXCEPT !.required = FALSE, !.timeout = @ \/ rock.sendingMsg = None,
                                !.closed = TeamCloses, !.observing = @ /\ ~(TeamCloses /\ rock.sendingMsg = None)]
    BY <1>3 DEF Done
  <2>2. /\ rock'.posted = rock.posted /\ rock'.table = rock.table /\ rock'.crashed = rock.crashed
        /\ rock'.closed = TeamCloses /\ rock'.sendingMsg = rock.sendingMsg
        /\ rock.sendingMsg = None => rock'.timeout
        /\ TeamCloses /\ rock.sendingMsg = None => ~rock'.observing
    BY <2>1 DEF ClosingInv, TransportsInv, Loaded, RockFields
  <2> QED  BY <2>1, <2>2 DEF ClosingInv, Closing, TornDown
<1> QED  BY <1>1, <1>2, <1>3

\* A status that comes back after closing lets the modem turn itself off, and is the last.
LEMMA StatusCloses ==
    ASSUME TransportsAssumption, OnUiThread = TRUE, ClosingInv,
           NEW f \in Fragments, NEW status \in {"Pending", "Transmitted"}, messageStatusUpdated(f, status),
           DOMAIN count' = Events, count'["fails"] = 0
    PROVE  Closing' /\ TornDown'
<1> DEFINE m == About(f)
           done == IF Final(status) THEN {f} ELSE {}
           r == [rock EXCEPT !.status[m] = status, !.air = @ \ done]
           told == notifyObservers(r, m)
<1>1. /\ f \in rock.air /\ UNCHANGED <<next, pc>>
      /\ status = "Transmitted" => f \in rock.table
      /\ rock' = [told EXCEPT !.table = IF status = "Transmitted" THEN @ \ {f} ELSE @]
  BY DEF messageStatusUpdated, About, Framework
<1>2. m \in Messages /\ m[1] = f /\ m # Nothing
  BY CountNat DEF About, Messages, Nothing, Fragments, None
<1>3. status = "Transmitted" => rock.sendingMsg = f /\ f # None
  <2> SUFFICES ASSUME status = "Transmitted" PROVE rock.sendingMsg = f /\ f # None
    OBVIOUS
  <2>1. f \in 1 .. (next - 1) /\ next \in Int
    BY <1>1, CountNat DEF ClosingInv, Closing, TransportsInv, Handing
  <2>2. pc # "took"
    BY <1>1, <2>1 DEF ClosingInv, TransportsInv, Airborne
  <2>3. f # None
    BY <2>1 DEF None
  <2> QED  BY <1>1, <2>2, <2>3 DEF ClosingInv, TransportsInv, Airborne
<1>4. /\ DOMAIN r = RockFields /\ r.posted = rock.posted /\ r.status[m] = status
      /\ r.closed = rock.closed /\ r.table = rock.table /\ r.crashed = rock.crashed
      /\ r.sendingMsg = rock.sendingMsg /\ r.timeout = rock.timeout /\ r.observing = rock.observing
  BY <1>2 DEF ClosingInv, TransportsInv, Loaded, RockFields
<1> HIDE DEF r, m
<1>5. told = IF rock.observing THEN observe(r, m) ELSE r
  BY <1>4 DEF notifyObservers
<1>6. /\ DOMAIN told = RockFields /\ told.posted = rock.posted /\ told.closed = rock.closed
      /\ told.table = rock.table
      /\ told.crashed <=> rock.crashed
      /\ told.sendingMsg = rock.sendingMsg =>
            (rock.timeout => told.timeout) /\ (told.observing => rock.observing)
      /\ told.sendingMsg # rock.sendingMsg => told.timeout /\ (rock.closed => ~told.observing)
  <2>1. CASE rock.observing /\ status = "Transmitted"
    <3>1. told = observe(r, m) /\ Final(r.status[m]) /\ r.status[m] = "Transmitted"
          /\ r.sendingMsg = m[1] /\ r.sendingMsg # None
      BY <1>2, <1>3, <1>4, <1>5, <2>1 DEF Final
    <3> QED  BY <1>2, <1>4, <3>1 DEF observe, RockFields
  <2>2. CASE rock.observing /\ status = "Pending"
    <3>1. told = observe(r, m) /\ ~Final(r.status[m])
      BY <1>4, <1>5, <2>2 DEF Final
    <3> QED  BY <1>4, <3>1 DEF observe, RockFields
  <2>3. CASE ~rock.observing
    BY <1>4, <1>5, <2>3
  <2> QED  BY <2>1, <2>2, <2>3
<1> HIDE DEF told
<1>7. /\ rock'.posted = rock.posted /\ rock'.closed = rock.closed /\ rock'.table \subseteq rock.table
      /\ rock'.crashed <=> rock.crashed
      /\ rock'.sendingMsg = told.sendingMsg /\ rock'.timeout = told.timeout
      /\ rock'.observing = told.observing
  BY <1>1, <1>6 DEF RockFields
<1>8. Closing'
  BY <1>1, <1>7 DEF ClosingInv, Closing
<1>9. TornDown'
  BY <1>6, <1>7 DEF ClosingInv, TornDown
<1> QED  BY <1>8, <1>9

(***************************************************************************)
(* With updates on the UI thread and messages that do not fail, no status  *)
(* meets an empty sendingMsg in RockTransport.observe, and once the queue  *)
(* is closed and nothing is being sent the modem may turn itself off and   *)
(* nobody observes it any more (RockTransport.close, observe).             *)
(***************************************************************************)
THEOREM TransportsClosed ==
    ASSUME TransportsAssumption, OnUiThread = TRUE, MaxFails = 0
    PROVE  Spec => []NoCrash /\ []TornDown
<1>1. Init => ClosingInv
  <2> SUFFICES ASSUME Init PROVE ClosingInv
    OBVIOUS
  <2>1. TransportsInv
    BY TransportsStart
  <2>2. Closing /\ TornDown
    BY DEF Init, Closing, TornDown, Events
  <2> QED  BY <2>1, <2>2 DEF ClosingInv
<1>2. ClosingInv /\ [Next]_vars => ClosingInv'
  <2> SUFFICES ASSUME ClosingInv, [Next]_vars PROVE ClosingInv'
    OBVIOUS
  <2>1. TransportsInv'
    BY TransportsStep DEF ClosingInv
  <2>2. ~Failed /\ DOMAIN count' = Events /\ count'["fails"] = 0
    BY NoFailure DEF ClosingInv
  <2>3. CASE QuietStep
    BY <2>1, <2>2, <2>3, QuietCloses DEF ClosingInv
  <2>4. CASE RockSends \/ RockTook \/ Done
    BY <2>1, <2>2, <2>4, QueueCloses DEF ClosingInv
  <2>5. CASE Progress \/ Transmitted
    <3>1. PICK f \in Fragments, status \in {"Pending", "Transmitted"} : messageStatusUpdated(f, status)
      BY <2>5 DEF Progress, Transmitted
    <3> QED  BY <2>1, <2>2, <3>1, StatusCloses DEF ClosingInv
  <2>6. ~Observe
    BY DEF Observe, ClosingInv, Closing
  <2> QED  BY <2>2, <2>3, <2>4, <2>5, <2>6 DEF Next, Queue, QuietStep
<1>3. ClosingInv => NoCrash /\ TornDown
  BY DEF ClosingInv, Closing, NoCrash
<1> QED  BY <1>1, <1>2, <1>3, PTL DEF Spec

-----------------------------------------------------------------------------
Record == [peer : People, enroll : BOOLEAN]

(* The list after every number of records of the file ms, read from the    *)
(* start.                                                                  *)
ListsOf(ms) ==
    LET lists[i \in 0 .. Len(ms)] ==
            IF i = 0 THEN EmptyList ELSE Read(lists[i - 1], ms[i])
    IN lists

(* A list: every position that somebody has is a place of peerIds, and     *)
(* that person is there.                                                   *)
IsList(l) ==
    /\ l = [read |-> l.read, positions |-> l.positions, peerIds |-> l.peerIds]
    /\ l.read \in Nat /\ l.peerIds \in Seq(People \cup {EOC})
    /\ l.positions = [p \in DOMAIN l.positions |-> l.positions[p]]
    /\ \A p \in DOMAIN l.positions :
          /\ l.positions[p] \in Nat /\ l.positions[p] + 1 \in 1 .. Len(l.peerIds)
          /\ l.peerIds[l.positions[p] + 1] = p

(* The inductive invariant: types and marks, ...                           *)
MemberTypes ==
    /\ id \in [People -> Seq(BOOLEAN)] /\ enrolled \in [People -> Nat]
    /\ chat \in [People -> Nat] /\ chatSent \in [People -> Nat]
    /\ \A p \in People : enrolled[p] <= Len(id[p]) /\ chatSent[p] <= chat[p]
    /\ members \in Seq(Record) /\ sent \in 0 .. Len(members)
    /\ queue \subseteq People /\ \A p \in queue : chatSent[p] < chat[p]
    /\ step \in {"idle", "visited", "enrol", "chats", "ended"}
    /\ step = "visited" => at \in People
    /\ step = "enrol" => at \in sent .. Len(members)
    /\ step = "chats" => sent = Len(members)
    /\ eoc \in [names : SUBSET (Nat \X People), left : SUBSET Nat,
                chats : SUBSET (People \X SUBSET People)]

(* ... what was read of the file is the list after so many records, ...    *)
Listed == list.read \in 0 .. Len(members) /\ list = ListsOf(members)[list.read]

(* ... who has a position at the EOC is at that place of the whole list,   *)
Whole == ListsOf(members)[Len(members)]
ToldRight ==
    \A n \in eoc.names : n[1] + 1 \in 1 .. Len(Whole.peerIds) /\ Whole.peerIds[n[1] + 1] = n[2]

(* ... and whoever has a position was told to the EOC, or a record that    *)
(* enrols them is still to come.                                           *)
SentUpTo == IF step = "enrol" THEN at ELSE sent
ToldAll ==
    \A p \in People \cap DOMAIN Whole.positions :
       \/ Whole.positions[p] > MaxPosition
       \/ <<Whole.positions[p], p>> \in eoc.names
       \/ \E j \in (SentUpTo + 1) .. Len(members) : members[j] = [peer |-> p, enroll |-> TRUE]

MembersInv == MemberTypes /\ Listed /\ ToldRight /\ ToldAll /\ NamedRight

-----------------------------------------------------------------------------
(* A nonempty set of naturals has a least element.                         *)
LEMMA Least ==
    ASSUME NEW T \in SUBSET Nat, T # {}
    PROVE  \E x \in T : \A y \in T : x <= y
<1>1. \E x \in T : \A y \in T : ~ (<<y, x>> \in OpToRel(<, Nat))
  BY NatLessThanWellFounded, WFMin
<1>2. \A x, y \in T : <<y, x>> \in OpToRel(<, Nat) <=> y < x
  BY DEF OpToRel
<1>3. PICK x \in T : \A y \in T : ~ (y < x)
  BY <1>1, <1>2, Zenon
<1> QED  BY <1>3

(* Loop(f, k, n, l, ms): f is the function of a loop from the record after *)
(* k, with the list l, to the record n.                                     *)
Loop(f, k, n, l, ms) ==
    f = [i \in k .. n |-> IF i = k THEN l ELSE Read(f[i - 1], ms[i])]

(* There is one: a least end without one could be reached in one record     *)
(* more.                                                                    *)
LEMMA LoopExists ==
    ASSUME NEW k \in Nat, NEW n \in Nat, k <= n, NEW l, NEW ms
    PROVE  \E f : Loop(f, k, n, l, ms)
<1> DEFINE Missing == {m \in k .. n : ~ \E f : Loop(f, k, m, l, ms)}
<1>1. Missing = {}
  <2> SUFFICES ASSUME Missing # {} PROVE FALSE
    OBVIOUS
  <2>1. PICK m \in Missing : \A j \in Missing : m <= j
    <3>1. Missing \in SUBSET Nat
      OBVIOUS
    <3> QED  BY <3>1, Least
  <2>2. m \in k .. n /\ ~ \E f : Loop(f, k, m, l, ms)
    OBVIOUS
  <2>3. m # k
    <3> SUFFICES ASSUME m = k PROVE FALSE
      OBVIOUS
    <3> DEFINE f == [i \in k .. m |-> l]
    <3>1. \A i \in k .. m : i = k
      OBVIOUS
    <3>2. f = [i \in k .. m |-> IF i = k THEN l ELSE Read(f[i - 1], ms[i])]
      BY <3>1
    <3> HIDE DEF f
    <3>3. Loop(f, k, m, l, ms)
      BY <3>2 DEF Loop
    <3> QED  BY <2>2, <3>3
  <2>4. m - 1 \in k .. n /\ ~ (m <= m - 1)
    BY <2>2, <2>3
  <2>5. \E f : Loop(f, k, m - 1, l, ms)
    <3>1. m - 1 \notin Missing
      <4> HIDE DEF Missing
      <4> QED  BY <2>1, <2>4
    <3> QED  BY <2>4, <3>1, Zenon
  <2>6. PICK f : Loop(f, k, m - 1, l, ms)
    BY <2>5
  <2> DEFINE e == Read(f[m - 1], ms[m])
             g == [i \in k .. m |-> IF i = m THEN e ELSE f[i]]
  <2>7. \A i \in k .. (m - 1) : f[i] = IF i = k THEN l ELSE Read(f[i - 1], ms[i])
    BY <2>6 DEF Loop
  <2>8. \A i \in k .. m : g[i] = IF i = k THEN l ELSE Read(g[i - 1], ms[i])
    <3> SUFFICES ASSUME NEW i \in k .. m PROVE g[i] = IF i = k THEN l ELSE Read(g[i - 1], ms[i])
      OBVIOUS
    <3>1. CASE i = m
      <4>1. g[i] = e /\ g[i - 1] = f[m - 1]
        <5> HIDE DEF e
        <5> QED  BY <2>2, <2>3, <3>1
      <4> QED  BY <2>3, <3>1, <4>1
    <3>2. CASE i # m
      <4>1. i \in k .. (m - 1) /\ (i # k => i - 1 \in k .. m /\ i - 1 # m)
        BY <2>2, <3>2
      <4>2. g[i] = f[i] /\ (i # k => g[i - 1] = f[i - 1])
        BY <3>2, <4>1
      <4> HIDE DEF g
      <4> QED  BY <2>7, <4>1, <4>2
    <3> QED  BY <3>1, <3>2
  <2>9. g = [i \in k .. m |-> g[i]]
    OBVIOUS
  <2> HIDE DEF g
  <2>10. Loop(g, k, m, l, ms)
    BY <2>8, <2>9 DEF Loop
  <2> QED  BY <2>2, <2>10
<1>2. n \in k .. n
  OBVIOUS
<1> QED  BY <1>1, <1>2

(* What the list of every number of records is.                             *)
LEMMA ListsAre ==
    ASSUME NEW ms \in Seq(Record)
    PROVE  /\ ListsOf(ms)[0] = EmptyList
           /\ \A i \in 1 .. Len(ms) : ListsOf(ms)[i] = Read(ListsOf(ms)[i - 1], ms[i])
<1> DEFINE f == CHOOSE f : Loop(f, 0, Len(ms), EmptyList, ms)
<1>1. Len(ms) \in Nat
  OBVIOUS
<1>2. Loop(f, 0, Len(ms), EmptyList, ms)
  BY <1>1, LoopExists
<1>3. ListsOf(ms) = f
  BY DEF ListsOf, Loop
<1> HIDE DEF f
<1>4. \A i \in 0 .. Len(ms) : f[i] = IF i = 0 THEN EmptyList ELSE Read(f[i - 1], ms[i])
  BY <1>2 DEF Loop
<1> QED  BY <1>1, <1>3, <1>4

(* getMembers reads on to the list of the whole file.                       *)
LEMMA GetMembersIs ==
    ASSUME members \in Seq(Record), Listed
    PROVE  getMembers = Whole
<1> DEFINE n == Len(members)
           k == list.read
           f == CHOOSE f : Loop(f, k, n, list, members)
           lists == ListsOf(members)
<1>1. n \in Nat /\ k \in 0 .. n /\ list = lists[k]
  BY DEF Listed
<1>2. Loop(f, k, n, list, members)
  <2>1. k \in Nat /\ k <= n
    BY <1>1
  <2> HIDE DEF k, n
  <2>2. \E g : Loop(g, k, n, list, members)
    BY <1>1, <2>1, LoopExists
  <2> QED  BY <2>2
<1>3. getMembers = f[n]
  BY DEF getMembers, Loop
<1>4. \A i \in 1 .. n : lists[i] = Read(lists[i - 1], members[i])
  BY ListsAre
<1> HIDE DEF f, lists, k, n
<1>5. \A i \in k .. n : f[i] = IF i = k THEN list ELSE Read(f[i - 1], members[i])
  BY <1>2 DEF Loop
<1> DEFINE Bad == {i \in k .. n : f[i] # lists[i]}
<1>6. Bad = {}
  <2> SUFFICES ASSUME Bad # {} PROVE FALSE
    OBVIOUS
  <2>1. PICK i \in Bad : \A j \in Bad : i <= j
    <3>1. Bad \in SUBSET Nat
      BY <1>1
    <3> QED  BY <3>1, Least
  <2>2. i \in k .. n /\ f[i] # lists[i]
    OBVIOUS
  <2>3. i # k
    BY <1>1, <1>5, <2>2
  <2>4. i - 1 \in k .. n /\ ~ (i <= i - 1) /\ i \in 1 .. n
    BY <1>1, <2>2, <2>3
  <2>5. f[i - 1] = lists[i - 1]
    <3>1. i - 1 \notin Bad
      <4> HIDE DEF Bad
      <4> QED  BY <2>1, <2>4
    <3> QED  BY <2>4, <3>1, Zenon
  <2> QED  BY <1>4, <1>5, <2>2, <2>3, <2>4, <2>5
<1>7. n \in k .. n
  BY <1>1
<1>8. f[n] = lists[n]
  BY <1>6, <1>7
<1> QED  BY <1>3, <1>8 DEF Whole, lists, n

(* One record: the list stays one, nobody loses their place in peerIds, and *)
(* who has a position had it before or is enrolled by the record.           *)
LEMMA ReadFacts ==
    ASSUME EOC \notin People, NEW l, IsList(l), NEW m \in Record
    PROVE  /\ IsList(Read(l, m)) /\ Read(l, m).read = l.read + 1
           /\ Len(l.peerIds) <= Len(Read(l, m).peerIds)
           /\ \A i \in 1 .. Len(l.peerIds) : Read(l, m).peerIds[i] = l.peerIds[i]
           /\ \A p \in DOMAIN Read(l, m).positions :
                 \/ p \in DOMAIN l.positions /\ Read(l, m).positions[p] = l.positions[p]
                 \/ m = [peer |-> p, enroll |-> TRUE]
<1> DEFINE P == l.positions
           D == DOMAIN P
           n == Len(l.peerIds)
           r == Read(l, m)
<1>0. /\ m.peer \in People /\ m.enroll \in BOOLEAN /\ m = [peer |-> m.peer, enroll |-> m.enroll]
      /\ l.read \in Nat /\ l.peerIds \in Seq(People \cup {EOC}) /\ n \in Nat
      /\ P = [p \in D |-> P[p]] /\ l = [read |-> l.read, positions |-> P, peerIds |-> l.peerIds]
      /\ \A p \in D : P[p] \in Nat /\ P[p] + 1 \in 1 .. n /\ l.peerIds[P[p] + 1] = p
  BY DEF IsList, Record
<1>1. CASE ~m.enroll
  <2> DEFINE Q == [p \in D \ {m.peer} |-> P[p]]
  <2>1. r = [read |-> l.read + 1, positions |-> Q, peerIds |-> l.peerIds]
    BY <1>0, <1>1 DEF Read, Restrict
  <2>2. DOMAIN Q = D \ {m.peer} /\ \A p \in DOMAIN Q : Q[p] = P[p]
    OBVIOUS
  <2>3. Q = [p \in DOMAIN Q |-> Q[p]]
    OBVIOUS
  <2> HIDE DEF Q, r
  <2> QED  BY <1>0, <2>1, <2>2, <2>3 DEF IsList, r
<1>2. CASE m.enroll /\ m.peer \in D
  <2>1. r = [read |-> l.read + 1, positions |-> P, peerIds |-> l.peerIds]
    BY <1>0, <1>2 DEF Read
  <2> HIDE DEF r
  <2> QED  BY <1>0, <2>1 DEF IsList, r
<1>3. CASE m.enroll /\ m.peer \notin D
  <2> DEFINE Q == [p \in D \cup {m.peer} |-> IF p = m.peer THEN n ELSE P[p]]
             q == Append(l.peerIds, m.peer)
  <2>1. r = [read |-> l.read + 1, positions |-> Q, peerIds |-> q]
    BY <1>0, <1>3 DEF Read
  <2>2. DOMAIN Q = D \cup {m.peer} /\ Q[m.peer] = n /\ \A p \in D : Q[p] = P[p]
    BY <1>3
  <2>3. Q = [p \in DOMAIN Q |-> Q[p]]
    OBVIOUS
  <2>4. /\ q \in Seq(People \cup {EOC}) /\ Len(q) = n + 1 /\ q[n + 1] = m.peer
        /\ \A i \in 1 .. n : q[i] = l.peerIds[i]
    BY <1>0, AppendProperties
  <2>5. m = [peer |-> m.peer, enroll |-> TRUE]
    BY <1>0, <1>3
  <2> HIDE DEF Q, q, r
  <2>6. \A p \in DOMAIN Q : Q[p] \in Nat /\ Q[p] + 1 \in 1 .. Len(q) /\ q[Q[p] + 1] = p
    BY <1>0, <2>2, <2>4
  <2>7. IsList(r) /\ r.read = l.read + 1
    BY <1>0, <2>1, <2>3, <2>4, <2>6 DEF IsList
  <2> QED  BY <1>0, <2>1, <2>2, <2>4, <2>5, <2>7 DEF r
<1> QED  BY <1>0, <1>1, <1>2, <1>3

(* So is every list that the file gives.                                    *)
LEMMA ListsFacts ==
    ASSUME EOC \notin People, NEW ms \in Seq(Record), NEW i \in 0 .. Len(ms)
    PROVE  IsList(ListsOf(ms)[i]) /\ ListsOf(ms)[i].read = i
<1> DEFINE f == ListsOf(ms)
           Bad == {j \in 0 .. Len(ms) : ~(IsList(f[j]) /\ f[j].read = j)}
<1>0. Len(ms) \in Nat
  OBVIOUS
<1>1. f[0] = EmptyList /\ \A j \in 1 .. Len(ms) : f[j] = Read(f[j - 1], ms[j])
  BY ListsAre
<1> HIDE DEF f
<1>2. IsList(f[0]) /\ f[0].read = 0
  <2> DEFINE P == [p \in {EOC} |-> 0]
  <2>1. DOMAIN P = {EOC} /\ P[EOC] = 0 /\ P = [p \in DOMAIN P |-> P[p]]
    OBVIOUS
  <2>2. EmptyList = [read |-> 0, positions |-> P, peerIds |-> <<EOC>>]
    BY DEF EmptyList
  <2>3. <<EOC>> \in Seq(People \cup {EOC}) /\ Len(<<EOC>>) = 1 /\ <<EOC>>[1] = EOC
    OBVIOUS
  <2> HIDE DEF P
  <2> QED  BY <1>1, <2>1, <2>2, <2>3 DEF IsList
<1>3. Bad = {}
  <2> SUFFICES ASSUME Bad # {} PROVE FALSE
    OBVIOUS
  <2>1. PICK j \in Bad : \A h \in Bad : j <= h
    <3>1. Bad \in SUBSET Nat
      OBVIOUS
    <3> QED  BY <3>1, Least
  <2>2. j \in 0 .. Len(ms) /\ ~(IsList(f[j]) /\ f[j].read = j)
    OBVIOUS
  <2>3. j \in 1 .. Len(ms) /\ j - 1 \in 0 .. Len(ms) /\ ~ (j <= j - 1)
    BY <1>0, <1>2, <2>2
  <2>4. IsList(f[j - 1]) /\ f[j - 1].read = j - 1
    <3>1. j - 1 \notin Bad
      <4> HIDE DEF Bad
      <4> QED  BY <2>1, <2>3
    <3> QED  BY <2>3, <3>1, Zenon
  <2>5. ms[j] \in Record
    BY <2>3, ElementOfSeq
  <2>6. IsList(Read(f[j - 1], ms[j])) /\ Read(f[j - 1], ms[j]).read = f[j - 1].read + 1
    BY <2>4, <2>5, ReadFacts, Zenon
  <2> QED  BY <1>1, <2>2, <2>3, <2>4, <2>6
<1> QED  BY <1>3 DEF f

(* A record more, at the end of the file.                                   *)
LEMMA ListsAppend ==
    ASSUME NEW ms \in Seq(Record), NEW m \in Record
    PROVE  /\ \A i \in 0 .. Len(ms) : ListsOf(Append(ms, m))[i] = ListsOf(ms)[i]
           /\ ListsOf(Append(ms, m))[Len(ms) + 1] = Read(ListsOf(ms)[Len(ms)], m)
<1> DEFINE n == Len(ms)
           a == Append(ms, m)
           f == ListsOf(ms)
           g == ListsOf(a)
           Bad == {i \in 0 .. n : g[i] # f[i]}
<1>1. /\ n \in Nat /\ a \in Seq(Record) /\ Len(a) = n + 1 /\ a[n + 1] = m
      /\ \A i \in 1 .. n : a[i] = ms[i]
  BY AppendProperties
<1>2. f[0] = EmptyList /\ \A i \in 1 .. n : f[i] = Read(f[i - 1], ms[i])
  BY ListsAre
<1>3. g[0] = EmptyList /\ \A i \in 1 .. (n + 1) : g[i] = Read(g[i - 1], a[i])
  BY <1>1, ListsAre
<1> HIDE DEF f, g, n, a
<1>4. Bad = {}
  <2> SUFFICES ASSUME Bad # {} PROVE FALSE
    OBVIOUS
  <2>1. PICK i \in Bad : \A j \in Bad : i <= j
    <3>1. Bad \in SUBSET Nat
      BY <1>1
    <3> QED  BY <3>1, Least
  <2>2. i \in 0 .. n /\ g[i] # f[i]
    OBVIOUS
  <2>3. i \in 1 .. n /\ i \in 1 .. (n + 1) /\ i - 1 \in 0 .. n /\ ~ (i <= i - 1)
    BY <1>1, <1>2, <1>3, <2>2
  <2>4. g[i - 1] = f[i - 1]
    <3>1. i - 1 \notin Bad
      <4> HIDE DEF Bad
      <4> QED  BY <2>1, <2>3
    <3> QED  BY <2>3, <3>1, Zenon
  <2> QED  BY <1>1, <1>2, <1>3, <2>2, <2>3, <2>4
<1>5. \A i \in 0 .. n : g[i] = f[i]
  BY <1>4
<1>6. g[n + 1] = Read(g[n], m)
  <2>1. n + 1 \in 1 .. (n + 1) /\ (n + 1) - 1 = n
    BY <1>1
  <2> QED  BY <1>1, <1>3, <2>1
<1>7. g[n] = f[n]
  BY <1>1, <1>5
<1> QED  BY <1>5, <1>6, <1>7 DEF f, g, n, a

-----------------------------------------------------------------------------
(* The invariant at the start, and one lemma for each group of actions.     *)
LEMMA MembersStart == ASSUME MembersAssumption, MembersInit PROVE MembersInv
<1>1. MemberTypes
  <2>1. members = << >> /\ Len(members) = 0 /\ members \in Seq(Record)
    BY DEF MembersInit
  <2>2. id \in [People -> Seq(BOOLEAN)] /\ \A p \in People : Len(id[p]) = 0
    BY DEF MembersInit
  <2> QED  BY <2>1, <2>2 DEF MembersInit, MemberTypes
<1>2. ListsOf(members)[0] = EmptyList /\ Len(members) = 0
  BY <1>1, ListsAre DEF MembersInit, MemberTypes
<1>3. Listed
  BY <1>2 DEF Listed, MembersInit, EmptyList
<1>4. ToldRight /\ NamedRight
  BY DEF ToldRight, NamedRight, MembersInit
<1>5. ToldAll
  <2>1. DOMAIN Whole.positions = {EOC}
    BY <1>2 DEF Whole, EmptyList
  <2> QED  BY <2>1 DEF ToldAll, MembersAssumption
<1> QED  BY <1>1, <1>3, <1>4, <1>5 DEF MembersInv

LEMMA WholeFacts ==
    ASSUME MembersAssumption, MemberTypes
    PROVE  IsList(Whole) /\ Whole.read = Len(members) /\ Len(members) \in Nat
<1>1. Len(members) \in Nat /\ Len(members) \in 0 .. Len(members)
  BY DEF MemberTypes
<1> QED  BY <1>1, ListsFacts DEF MemberTypes, MembersAssumption, Whole

(* Nothing more is told, and what was told still counts.                    *)
LEMMA NothingTold ==
    ASSUME MemberTypes, ToldRight, ToldAll, members' = members, eoc'.names = eoc.names,
           SentUpTo \in Nat, SentUpTo' \in Nat, SentUpTo' <= SentUpTo
    PROVE  ToldRight' /\ ToldAll'
<1>1. Whole' = Whole /\ Len(members) \in Nat
  BY DEF Whole, MemberTypes
<1>2. ToldRight'
  BY <1>1 DEF ToldRight
<1>3. \A j \in (SentUpTo + 1) .. Len(members) : j \in (SentUpTo' + 1) .. Len(members)
  <2> SUFFICES ASSUME NEW t \in Nat, NEW u \in Nat, u <= t, NEW n \in Nat
               PROVE  \A j \in (t + 1) .. n : j \in (u + 1) .. n
    BY <1>1
  <2> QED  OBVIOUS
<1>4. ToldAll'
  BY <1>1, <1>3 DEF ToldAll
<1> QED  BY <1>2, <1>4

(* The list after getMembers, or of a new process.                          *)
LEMMA ListedAgain ==
    ASSUME MembersAssumption, MemberTypes, Listed, members' = members,
           list' = getMembers \/ list' = EmptyList \/ list' = list
    PROVE  Listed'
<1>1. members \in Seq(Record) /\ ListsOf(members)' = ListsOf(members) /\ Len(members) \in Nat
  BY DEF MemberTypes
<1>2. CASE list' = getMembers
  <2>1. list' = Whole /\ Whole.read = Len(members)
    BY <1>1, <1>2, GetMembersIs, WholeFacts
  <2> QED  BY <1>1, <2>1 DEF Listed, Whole
<1>3. CASE list' = EmptyList
  <2>1. ListsOf(members)[0] = EmptyList /\ EmptyList.read = 0
    BY <1>1, ListsAre DEF EmptyList
  <2> QED  BY <1>1, <1>3, <2>1 DEF Listed
<1>4. CASE list' = list
  BY <1>1, <1>4 DEF Listed
<1> QED  BY <1>2, <1>3, <1>4

(* SentUpTo is a mark of the file of members.                                   *)
LEMMA SentUpToType == ASSUME MemberTypes PROVE SentUpTo \in sent .. Len(members) /\ sent \in Nat
<1>1. Len(members) \in Nat /\ sent \in 0 .. Len(members)
  BY DEF MemberTypes
<1> QED  BY <1>1 DEF MemberTypes, SentUpTo

(* What people do, and steps that neither read nor tell.                    *)
MemberQuietStep ==
    \/ \E p \in People : JoinOrLeave(p) \/ Chats(p) \/ ChatVisit(p)
    \/ Visited \/ AlarmRuns \/ EnrolmentsDone \/ Kill \/ Restart

LEMMA QuietTypes ==
    ASSUME MembersAssumption, MemberTypes, MemberQuietStep \/ UNCHANGED memberVars PROVE MemberTypes'
<1>0. Len(members) \in Nat /\ sent \in 0 .. Len(members)
  BY DEF MemberTypes
<1>1. ASSUME NEW p \in People, JoinOrLeave(p) PROVE MemberTypes'
  <2> DEFINE b == ~InTeam(p)
  <2>1. id[p] \in Seq(BOOLEAN) /\ b \in BOOLEAN
    BY DEF MemberTypes
  <2>2. id' = [id EXCEPT ![p] = Append(@, b)]
    BY <1>1 DEF JoinOrLeave
  <2> HIDE DEF b
  <2>3. Append(id[p], b) \in Seq(BOOLEAN) /\ Len(Append(id[p], b)) = Len(id[p]) + 1 /\ Len(id[p]) \in Nat
    BY <2>1, AppendProperties
  <2>4. id' \in [People -> Seq(BOOLEAN)] /\ \A q \in People : enrolled[q] <= Len(id'[q])
    <3>1. id' \in [People -> Seq(BOOLEAN)]
      BY <2>2, <2>3 DEF MemberTypes
    <3>2. SUFFICES ASSUME NEW q \in People PROVE enrolled[q] <= Len(id'[q])
      BY <3>1
    <3>3. enrolled[q] \in Nat /\ enrolled[q] <= Len(id[q]) /\ id[q] \in Seq(BOOLEAN)
      BY DEF MemberTypes
    <3>4. CASE q = p
      <4>1. id'[q] = Append(id[p], b)
        BY <2>2, <3>4 DEF MemberTypes
      <4> QED  BY <2>3, <3>3, <3>4, <4>1
    <3>5. CASE q # p
      <4>1. id'[q] = id[q]
        BY <2>2, <3>5 DEF MemberTypes
      <4> QED  BY <3>3, <4>1
    <3> QED  BY <3>4, <3>5
  <2> QED  BY <1>1, <2>4 DEF JoinOrLeave, MemberTypes
<1>2. ASSUME NEW p \in People, Chats(p) PROVE MemberTypes'
  BY <1>2 DEF Chats, MemberTypes
<1>3. ASSUME NEW p \in People, ChatVisit(p) PROVE MemberTypes'
  BY <1>3 DEF ChatVisit, MemberTypes, files
<1>4. CASE Visited
  <2>1. at \in People /\ id[at] \in Seq(BOOLEAN) /\ Len(id[at]) \in Nat
    BY <1>4 DEF Visited, MemberTypes
  <2> QED  BY <1>4, <2>1 DEF Visited, MemberTypes
<1>5. CASE AlarmRuns
  BY <1>0, <1>5 DEF AlarmRuns, MemberTypes, files
<1>6. CASE EnrolmentsDone
  BY <1>0, <1>6 DEF EnrolmentsDone, MemberTypes
<1>7. CASE Kill \/ Restart
  BY <1>0, <1>7 DEF Kill, Restart, Restarted, MemberTypes, files
<1>8. CASE UNCHANGED memberVars
  BY <1>8 DEF memberVars, files, MemberTypes
<1> QED  BY <1>1, <1>2, <1>3, <1>4, <1>5, <1>6, <1>7, <1>8 DEF MemberQuietStep

LEMMA MemberQuietKeeps ==
    ASSUME MembersAssumption, MembersInv, MemberQuietStep \/ UNCHANGED memberVars
    PROVE  MembersInv'
<1>1. MemberTypes'
  BY QuietTypes DEF MembersInv
<1>2. members' = members /\ eoc' = eoc
  BY DEF MemberQuietStep, JoinOrLeave, Chats, ChatVisit, Visited, AlarmRuns, EnrolmentsDone, Kill, Restart,
         Restarted, memberVars, files
<1>3. list' = list \/ list' = EmptyList
  BY DEF MemberQuietStep, JoinOrLeave, Chats, ChatVisit, Visited, AlarmRuns, EnrolmentsDone, Kill, Restart,
         Restarted, memberVars, files
<1>4. SentUpTo' <= SentUpTo
  <2>1. SentUpTo \in sent .. Len(members) /\ sent \in Nat /\ Len(members) \in Nat
    BY SentUpToType DEF MembersInv, MemberTypes
  <2>2. CASE EnrolmentsDone
    BY <2>1, <2>2 DEF EnrolmentsDone, SentUpTo
  <2>3. CASE AlarmRuns
    BY <2>1, <2>3 DEF AlarmRuns, SentUpTo, files
  <2>4. CASE Kill \/ Restart
    BY <2>1, <2>4 DEF Kill, Restart, Restarted, SentUpTo, files
  <2>5. CASE Visited
    BY <2>1, <2>5 DEF Visited, SentUpTo
  <2>6. CASE UNCHANGED memberVars
    BY <2>1, <2>6 DEF memberVars, files, SentUpTo
  <2>7. CASE \E p \in People : JoinOrLeave(p) \/ Chats(p) \/ ChatVisit(p)
    BY <2>1, <2>7 DEF JoinOrLeave, Chats, ChatVisit, files, SentUpTo
  <2> QED  BY <2>2, <2>3, <2>4, <2>5, <2>6, <2>7 DEF MemberQuietStep
<1>5. Listed'
  BY <1>2, <1>3, ListedAgain DEF MembersInv
<1>6. ToldRight' /\ ToldAll'
  <2>1. SentUpTo \in Nat /\ SentUpTo' \in Nat
    <3>1. SentUpTo \in sent .. Len(members) /\ sent \in Nat /\ Len(members) \in Nat
      BY SentUpToType DEF MembersInv, MemberTypes
    <3>2. SentUpTo' \in sent' .. Len(members)' /\ sent' \in Nat /\ Len(members)' \in Nat
      <4>1. Len(members)' \in Nat /\ sent' \in 0 .. Len(members)'
        BY <1>1 DEF MemberTypes
      <4> QED  BY <1>1, <4>1 DEF MemberTypes, SentUpTo
    <3> QED  BY <3>1, <3>2
  <2> QED  BY <1>2, <1>4, <2>1, NothingTold DEF MembersInv
<1>7. NamedRight'
  BY <1>2 DEF MembersInv, NamedRight
<1> QED  BY <1>1, <1>5, <1>6, <1>7 DEF MembersInv

(* The watcher appends a record: whoever has a position had it before, or   *)
(* the new record enrols them and is still to be told.                      *)
LEMMA VisitKeeps ==
    ASSUME MembersAssumption, MembersInv, NEW p \in People, Visit(p)
    PROVE  MembersInv'
<1> DEFINE m == [peer |-> p, enroll |-> InTeam(p)]
           n == Len(members)
<1>1. /\ MemberTypes /\ members \in Seq(Record) /\ n \in Nat /\ sent \in 0 .. n
      /\ list.read \in 0 .. n /\ list = ListsOf(members)[list.read]
  BY DEF MembersInv, MemberTypes, Listed
<1>2. m \in Record
  <2>1. id[p] \in Seq(BOOLEAN)
    BY <1>1 DEF MemberTypes
  <2>2. InTeam(p) \in BOOLEAN
    BY DEF InTeam
  <2> QED  BY <2>2 DEF Record
<1>3. /\ members' = Append(members, m) /\ step = "idle" /\ step' = "visited" /\ at' = p
      /\ UNCHANGED <<id, enrolled, chat, chatSent, sent, list, queue, eoc, kills>>
  BY DEF Visit
<1> HIDE DEF m
<1>4. /\ members' \in Seq(Record) /\ Len(members') = n + 1 /\ members'[n + 1] = m
      /\ \A j \in 1 .. n : members'[j] = members[j]
  BY <1>1, <1>2, <1>3, AppendProperties
<1>5. /\ \A i \in 0 .. n : ListsOf(members')[i] = ListsOf(members)[i]
      /\ ListsOf(members')[n + 1] = Read(ListsOf(members)[n], m)
  BY <1>1, <1>2, <1>3, ListsAppend
<1> DEFINE w == Whole
           x == Read(w, m)
<1>6. IsList(w) /\ Whole' = x
  BY <1>1, <1>4, <1>5, WholeFacts DEF Whole
<1>7. /\ Len(w.peerIds) <= Len(x.peerIds) /\ Len(w.peerIds) \in Nat /\ Len(x.peerIds) \in Nat
      /\ \A i \in 1 .. Len(w.peerIds) : x.peerIds[i] = w.peerIds[i]
      /\ \A q \in DOMAIN x.positions :
            \/ q \in DOMAIN w.positions /\ x.positions[q] = w.positions[q]
            \/ m = [peer |-> q, enroll |-> TRUE]
  <2> HIDE DEF w
  <2>1. IsList(x) /\ EOC \notin People
    BY <1>2, <1>6, ReadFacts DEF MembersAssumption
  <2>2. Len(w.peerIds) \in Nat /\ Len(x.peerIds) \in Nat
    BY <1>6, <2>1 DEF IsList
  <2> QED  BY <1>2, <1>6, <2>1, <2>2, ReadFacts
<1> HIDE DEF n, x
<1>8. MemberTypes'
  BY <1>1, <1>3, <1>4 DEF MemberTypes
<1>9. Listed'
  BY <1>1, <1>3, <1>4, <1>5 DEF Listed
<1>10. ToldRight'
  <2> SUFFICES ASSUME NEW k \in eoc.names PROVE k[1] + 1 \in 1 .. Len(x.peerIds) /\ x.peerIds[k[1] + 1] = k[2]
    BY <1>3, <1>6 DEF ToldRight
  <2>1. k[1] + 1 \in 1 .. Len(w.peerIds) /\ w.peerIds[k[1] + 1] = k[2]
    BY DEF MembersInv, ToldRight
  <2> HIDE DEF w
  <2> QED  BY <1>7, <2>1
<1>11. ToldAll'
  <2>1. SentUpTo' = sent /\ SentUpTo = sent
    BY <1>3 DEF SentUpTo
  <2> SUFFICES ASSUME NEW q \in People \cap DOMAIN x.positions
               PROVE  \/ x.positions[q] > MaxPosition
                      \/ <<x.positions[q], q>> \in eoc.names
                      \/ \E j \in (sent + 1) .. (n + 1) : members'[j] = [peer |-> q, enroll |-> TRUE]
    BY <1>3, <1>4, <1>6, <2>1 DEF ToldAll
  <2>2. CASE m = [peer |-> q, enroll |-> TRUE]
    <3>1. n + 1 \in (sent + 1) .. (n + 1)
      BY <1>1
    <3> QED  BY <1>4, <2>2, <3>1
  <2>3. CASE q \in DOMAIN w.positions /\ x.positions[q] = w.positions[q]
    <3>1. \/ w.positions[q] > MaxPosition
          \/ <<w.positions[q], q>> \in eoc.names
          \/ \E j \in (sent + 1) .. n : members[j] = [peer |-> q, enroll |-> TRUE]
      BY <2>1, <2>3 DEF MembersInv, ToldAll, n
    <3>2. ASSUME NEW j \in (sent + 1) .. n PROVE j \in (sent + 1) .. (n + 1) /\ members'[j] = members[j]
      BY <1>1, <1>4, <3>2
    <3> HIDE DEF w
    <3> QED  BY <2>3, <3>1, <3>2
  <2> QED  BY <1>7, <2>2, <2>3
<1>12. NamedRight'
  BY <1>3 DEF MembersInv, NamedRight
<1> QED  BY <1>8, <1>9, <1>10, <1>11, <1>12 DEF MembersInv

(* The EOC is told of a record: of the position that its person has now.    *)
LEMMA EnrolmentKeeps ==
    ASSUME MembersAssumption, MembersInv, Enrolment
    PROVE  MembersInv'
<1> DEFINE n == Len(members)
           m == members[at + 1]
           w == Whole
           pos == w.positions[m.peer]
           told == m.peer \in DOMAIN w.positions /\ pos <= MaxPosition
           news == IF told /\ m.enroll THEN {<<pos, m.peer>>} ELSE {}
           lefts == IF told /\ ~m.enroll THEN {pos} ELSE {}
<1>1. /\ MemberTypes /\ members \in Seq(Record) /\ n \in Nat /\ sent \in 0 .. n
      /\ step = "enrol" /\ at \in sent .. n /\ at < n /\ MaxPosition \in Nat
  <2>1. MemberTypes /\ step = "enrol" /\ at < n /\ MaxPosition \in Nat
    BY DEF MembersInv, Enrolment, MembersAssumption
  <2>2. members \in Seq(Record) /\ sent \in 0 .. n /\ at \in sent .. n
    BY <2>1 DEF MemberTypes
  <2>3. n \in Nat
    BY <2>2
  <2> QED  BY <2>1, <2>2, <2>3
<1>2. getMembers = w /\ IsList(w)
  BY <1>1, GetMembersIs, WholeFacts DEF MembersInv
<1>3. /\ list' = w /\ at' = at + 1 /\ UNCHANGED <<files, queue, kills>>
      /\ step' = IF m.peer \in DOMAIN w.positions THEN step ELSE "ended"
      /\ eoc' = [eoc EXCEPT !.names = @ \cup news, !.left = @ \cup lefts]
  BY <1>2 DEF Enrolment
<1>4. m \in Record /\ m.peer \in People /\ m.enroll \in BOOLEAN /\ m = [peer |-> m.peer, enroll |-> m.enroll]
  <2>1. at + 1 \in 1 .. n
    BY <1>1
  <2>2. m \in Record
    BY <1>1, <2>1, ElementOfSeq
  <2> QED  BY <2>2 DEF Record
<1>5. told => pos \in Nat /\ pos + 1 \in 1 .. Len(w.peerIds) /\ w.peerIds[pos + 1] = m.peer
  <2> HIDE DEF w, m
  <2>1. w.peerIds \in Seq(People \cup {EOC}) /\ Len(w.peerIds) \in Nat
    BY <1>2 DEF IsList
  <2>2. told => pos + 1 \in 1 .. Len(w.peerIds) /\ w.peerIds[pos + 1] = m.peer /\ pos \in Nat
    <3> SUFFICES ASSUME told PROVE pos + 1 \in 1 .. Len(w.peerIds) /\ w.peerIds[pos + 1] = m.peer /\ pos \in Nat
      OBVIOUS
    <3>1. pos + 1 \in 1 .. Len(w.peerIds) /\ w.peerIds[pos + 1] = m.peer
      BY <1>2 DEF IsList
    <3>2. pos \in Nat
      BY <1>2, <2>1, <3>1 DEF IsList
    <3> QED  BY <3>1, <3>2
  <2> QED  BY <2>2
<1>6. Whole' = w /\ members' = members /\ sent' = sent
  BY <1>3 DEF Whole, files
<1> HIDE DEF m, w
<1>7. news \subseteq Nat \X People /\ lefts \subseteq Nat
  <2> HIDE DEF pos
  <2> QED  BY <1>4, <1>5
<1>8. /\ eoc'.names = eoc.names \cup news /\ eoc'.chats = eoc.chats
      /\ eoc' \in [names : SUBSET (Nat \X People), left : SUBSET Nat,
                   chats : SUBSET (People \X SUBSET People)]
  <2> HIDE DEF news, lefts
  <2> QED  BY <1>1, <1>3, <1>7 DEF MemberTypes
<1>9. MemberTypes'
  <2> HIDE DEF news, lefts, pos
  <2>1. step' \in {"enrol", "ended"} /\ at' \in sent .. n
    BY <1>1, <1>3
  <2> QED  BY <1>1, <1>3, <1>6, <1>8, <2>1 DEF MemberTypes, files
<1>10. Listed'
  BY <1>1, <1>2, <1>3, <1>6, ListedAgain DEF MembersInv
<1>11. ToldRight'
  <2> SUFFICES ASSUME NEW k \in eoc.names \cup news
               PROVE  k[1] + 1 \in 1 .. Len(w.peerIds) /\ w.peerIds[k[1] + 1] = k[2]
    BY <1>6, <1>8 DEF ToldRight
  <2>1. CASE k \in eoc.names
    BY <2>1 DEF MembersInv, ToldRight, w
  <2>2. CASE k \in news
    <3>1. told /\ k[1] = pos /\ k[2] = m.peer
      BY <2>2
    <3> QED  BY <1>5, <3>1
  <2> QED  BY <2>1, <2>2
<1>12. ToldAll'
  <2>1. SentUpTo = at /\ SentUpTo' \in {at + 1, sent}
    BY <1>1, <1>3, <1>6 DEF SentUpTo
  <2> SUFFICES ASSUME NEW q \in People \cap DOMAIN w.positions
               PROVE  \/ w.positions[q] > MaxPosition
                      \/ <<w.positions[q], q>> \in eoc.names \cup news
                      \/ \E j \in (SentUpTo' + 1) .. n : members[j] = [peer |-> q, enroll |-> TRUE]
    BY <1>6, <1>8 DEF ToldAll
  <2>2. \/ w.positions[q] > MaxPosition
        \/ <<w.positions[q], q>> \in eoc.names
        \/ \E j \in (at + 1) .. n : members[j] = [peer |-> q, enroll |-> TRUE]
    BY <2>1 DEF MembersInv, ToldAll, w
  <2>3. ASSUME NEW j \in (at + 1) .. n, members[j] = [peer |-> q, enroll |-> TRUE],
               ~(w.positions[q] > MaxPosition)
        PROVE  \/ <<w.positions[q], q>> \in news
               \/ j \in (SentUpTo' + 1) .. n
    <3>1. CASE j = at + 1
      <4>1. m.peer = q /\ m.enroll /\ m.peer \in DOMAIN w.positions
        BY <2>3, <3>1 DEF m
      <4>2. pos \in Int
        <5>1. IsList(w) /\ m.peer \in DOMAIN w.positions
          BY <1>2, <4>1
        <5> QED  BY <5>1 DEF IsList
      <4>3. pos <= MaxPosition
        BY <1>1, <2>3, <4>1, <4>2
      <4> QED  BY <4>1, <4>3
    <3>2. CASE j # at + 1
      <4>1. CASE SentUpTo' = at + 1
        BY <1>1, <2>3, <3>2, <4>1
      <4>2. CASE SentUpTo' = sent
        BY <1>1, <2>3, <4>2
      <4> QED  BY <2>1, <4>1, <4>2
    <3> QED  BY <3>1, <3>2
  <2> HIDE DEF news
  <2> QED  BY <2>2, <2>3
<1>13. NamedRight'
  BY <1>8 DEF MembersInv, NamedRight
<1> QED  BY <1>9, <1>10, <1>11, <1>12, <1>13 DEF MembersInv

(* A chat message: all records have been told, so the EOC knows its author, *)
(* and knows nobody else with the position.                                 *)
LEMMA ChatKeeps ==
    ASSUME MembersAssumption, MembersInv, ChatMessage \/ NoChatMessage
    PROVE  MembersInv'
<1> DEFINE n == Len(members)
           w == Whole
<1>1. /\ MemberTypes /\ n \in Nat /\ sent = n /\ step = "chats" /\ MaxPosition \in Nat
      /\ chat \in [People -> Nat] /\ chatSent \in [People -> Nat] /\ queue \subseteq People
  BY DEF MembersInv, MemberTypes, ChatMessage, NoChatMessage, MembersAssumption
<1>2. getMembers = w /\ IsList(w)
  BY <1>1, GetMembersIs, WholeFacts DEF MembersInv, MemberTypes
<1>3. /\ members' = members /\ sent' = sent /\ step' = "idle" /\ list' = getMembers
      /\ UNCHANGED <<id, enrolled, chat>>
  BY DEF ChatMessage, NoChatMessage, files
<1>4. Listed'
  BY <1>1, <1>3, ListedAgain DEF MembersInv
<1>5. SentUpTo = sent /\ SentUpTo' = sent /\ sent \in Nat
  BY <1>1, <1>3 DEF SentUpTo
<1>6. CASE NoChatMessage
  <2>1. MemberTypes' /\ eoc' = eoc
    BY <1>1, <1>6 DEF NoChatMessage, MemberTypes, files
  <2>2. ToldRight' /\ ToldAll'
    <3>1. SentUpTo' <= SentUpTo
      BY <1>5
    <3> QED  BY <1>1, <1>3, <1>5, <2>1, <3>1, NothingTold DEF MembersInv
  <2>3. NamedRight'
    BY <2>1 DEF MembersInv, NamedRight
  <2> QED  BY <1>4, <2>1, <2>2, <2>3 DEF MembersInv
<1>7. CASE ChatMessage
  <2>1. PICK p \in queue :
           /\ Sendable(p)
           /\ eoc' = [eoc EXCEPT !.chats = @ \cup {<<p, Known(getMembers.positions[p])>>}]
           /\ chatSent' = [chatSent EXCEPT ![p] = @ + 1]
           /\ queue' = IF chat[p] > chatSent'[p] THEN queue ELSE queue \ {p}
    BY <1>7 DEF ChatMessage
  <2> DEFINE pos == w.positions[p]
  <2>2. p \in People /\ p \in DOMAIN w.positions /\ pos <= MaxPosition
    BY <1>1, <1>2, <2>1 DEF Sendable
  <2>3. w.peerIds[pos + 1] = p /\ pos \in Int
    <3> HIDE DEF w
    <3>1. pos + 1 \in 1 .. Len(w.peerIds) /\ w.peerIds[pos + 1] = p
      BY <1>2, <2>2 DEF IsList
    <3> QED  BY <1>2, <2>2, <3>1 DEF IsList
  <2>4. Known(pos) = {p}
    <3>1. <<pos, p>> \in eoc.names
      <4>1. \/ pos > MaxPosition \/ <<pos, p>> \in eoc.names
            \/ \E j \in (sent + 1) .. n : members[j] = [peer |-> p, enroll |-> TRUE]
        BY <1>5, <2>2 DEF MembersInv, ToldAll
      <4>2. (sent + 1) .. n = {}
        BY <1>1
      <4>3. ~(pos > MaxPosition)
        <5> HIDE DEF pos
        <5> QED  BY <1>1, <2>2, <2>3
      <4> HIDE DEF pos
      <4> QED  BY <4>1, <4>2, <4>3
    <3>2. ASSUME NEW k \in eoc.names, k[1] = pos PROVE k[2] = p
      BY <2>3, <3>2 DEF MembersInv, ToldRight
    <3> HIDE DEF pos
    <3> QED  BY <3>1, <3>2 DEF Known
  <2>5. eoc' = [eoc EXCEPT !.chats = @ \cup {<<p, {p}>>}]
    BY <1>2, <2>1, <2>4
  <2> HIDE DEF pos
  <2>6. /\ eoc'.names = eoc.names /\ eoc'.chats = eoc.chats \cup {<<p, {p}>>}
        /\ eoc' \in [names : SUBSET (Nat \X People), left : SUBSET Nat,
                     chats : SUBSET (People \X SUBSET People)]
    <3>1. eoc \in [names : SUBSET (Nat \X People), left : SUBSET Nat,
                  chats : SUBSET (People \X SUBSET People)]
      BY <1>1 DEF MemberTypes
    <3>2. <<p, {p}>> \in People \X SUBSET People
      BY <2>2
    <3> QED  BY <2>5, <3>1, <3>2
  <2>7. /\ chatSent' \in [People -> Nat] /\ queue' \subseteq People
        /\ \A q \in People : chatSent'[q] <= chat[q]
        /\ \A q \in queue' : chatSent'[q] < chat[q]
    <3>1. /\ \A q \in queue : chatSent[q] < chat[q]
          /\ \A q \in People : chatSent[q] <= chat[q]
      BY <1>1 DEF MemberTypes
    <3> QED  BY <1>1, <2>1, <2>2, <3>1
  <2>8. MemberTypes'
    BY <1>1, <1>3, <2>6, <2>7 DEF MemberTypes
  <2>9. ToldRight' /\ ToldAll'
    <3>1. SentUpTo' <= SentUpTo
      BY <1>5
    <3> QED  BY <1>1, <1>3, <1>5, <2>6, <3>1, NothingTold DEF MembersInv
  <2>10. NamedRight'
    BY <2>6 DEF MembersInv, NamedRight
  <2> QED  BY <1>4, <2>8, <2>9, <2>10 DEF MembersInv
<1> QED  BY <1>6, <1>7

(***************************************************************************)
(* A position stands for one person, for any number of people, records and *)
(* kills: in MembershipList it is the place in peerIds, whoever leaves and *)
(* joins again, and the EOC was told whose it is before a message with it  *)
(* was given to the queue (MemberEnrolments before ChatQueueWatcher), and  *)
(* of nobody else.                                                         *)
(***************************************************************************)
THEOREM PositionsStayRight ==
    ASSUME MembersAssumption
    PROVE  MembersSpec => []PositionsRight
<1>1. MembersInit => MembersInv
  BY MembersStart
<1>2. MembersInv /\ [MembersNext]_memberVars => MembersInv'
  <2> SUFFICES ASSUME MembersInv, [MembersNext]_memberVars PROVE MembersInv'
    OBVIOUS
  <2>1. CASE MemberQuietStep \/ UNCHANGED memberVars
    BY <2>1, MemberQuietKeeps
  <2>2. ASSUME NEW p \in People, Visit(p) PROVE MembersInv'
    BY <2>2, VisitKeeps
  <2>3. CASE Enrolment
    BY <2>3, EnrolmentKeeps
  <2>4. CASE ChatMessage \/ NoChatMessage
    BY <2>4, ChatKeeps
  <2> QED  BY <2>1, <2>2, <2>3, <2>4 DEF MembersNext, Background, MemberQuietStep
<1>3. MembersInv => PositionsRight
  <2> SUFFICES ASSUME MembersInv PROVE PositionsRight
    OBVIOUS
  <2>1. MembersTypeOK
    <3>1. \A i \in DOMAIN members : members[i] \in Record
      BY DEF MembersInv, MemberTypes
    <3>2. \A i \in DOMAIN members : members[i].peer \in People
      BY <3>1 DEF Record
    <3> QED  BY <3>2 DEF MembersInv, MemberTypes, Listed, MembersTypeOK
  <2>2. IsList(list)
    BY ListsFacts DEF MembersInv, MemberTypes, Listed, MembersAssumption
  <2>3. ListRight
    BY <2>2 DEF IsList, ListRight
  <2> QED  BY <2>1, <2>3 DEF PositionsRight, MembersInv
<1> QED  BY <1>1, <1>2, <1>3, PTL DEF MembersSpec
=============================================================================
