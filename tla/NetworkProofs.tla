---------------------------- MODULE NetworkProofs ----------------------------
(***************************************************************************)
(* What holds of the stun tool, of the walk over a network's addresses and *)
(* of the interfaces that a phone keeps, for any number of slots, for      *)
(* addresses of any width and for any number of interfaces and changes.    *)
(***************************************************************************)
EXTENDS Stun, AddressWalk, Networks,
        SequenceTheorems, FiniteSetTheorems, WellFoundedInduction, TLAPS

-----------------------------------------------------------------------------
(* Induction up to n, and functions that are defined by a loop.            *)
LEMMA Least ==
    ASSUME NEW T \in SUBSET Nat, T # {}
    PROVE  \E x \in T : \A y \in T : x <= y
<1>1. \E x \in T : \A y \in T : ~ (<<y, x>> \in OpToRel(<, Nat))
  BY NatLessThanWellFounded, WFMin
<1>2. \A x, y \in T : <<y, x>> \in OpToRel(<, Nat) <=> y < x
  BY DEF OpToRel
<1>3. PICK x \in T : \A y \in T : ~ (y < x)
  BY <1>1, <1>2, Zenon
<1> QED  BY <1>3

LEMMA Climb ==
    ASSUME NEW n \in Nat, NEW G, 0 \in G, \A i \in 1 .. n : i - 1 \in G => i \in G
    PROVE  \A i \in 0 .. n : i \in G
<1> DEFINE T == {i \in 0 .. n : i \notin G}
<1> SUFFICES ASSUME T # {} PROVE FALSE
  OBVIOUS
<1>1. PICK x \in T : \A y \in T : x <= y
  <2>1. T \in SUBSET Nat
    OBVIOUS
  <2> QED  BY <2>1, Least
<1>2. x \in 0 .. n /\ x \notin G
  OBVIOUS
<1>3. x \in 1 .. n
  BY <1>2
<1>4. x - 1 \in 0 .. n /\ ~ (x <= x - 1)
  BY <1>3
<1>5. x - 1 \in G
  BY <1>1, <1>4
<1> QED  BY <1>2, <1>3, <1>5

Iterates(f, n, a, E) == f[0] = a /\ \A i \in 1 .. n : f[i] = E[i][f[i - 1]]
LEMMA LoopExists ==
    ASSUME NEW n \in Nat, NEW X, NEW a \in X, NEW E \in [1 .. n -> [X -> X]]
    PROVE  \E f \in [0 .. n -> X] : Iterates(f, n, a, E)
<1> DEFINE Runs(f, m) == f[0] = a /\ \A i \in 1 .. m : f[i] = E[i][f[i - 1]]
           G == {m \in 0 .. n : \E f \in [0 .. m -> X] : Runs(f, m)}
<1>1. 0 \in G
  <2> DEFINE f == [i \in 0 .. 0 |-> a]
  <2>1. f \in [0 .. 0 -> X] /\ f[0] = a /\ 1 .. 0 = {}
    OBVIOUS
  <2> HIDE DEF f
  <2>2. \E g \in [0 .. 0 -> X] : Runs(g, 0)
    BY <2>1
  <2> QED  BY <2>2
<1>2. ASSUME NEW m \in 1 .. n, m - 1 \in G PROVE m \in G
  <2>1. PICK f \in [0 .. (m - 1) -> X] : Runs(f, m - 1)
    BY <1>2
  <2>2. m - 1 \in 0 .. (m - 1) /\ f[m - 1] \in X
    OBVIOUS
  <2> DEFINE e == E[m][f[m - 1]]
             g == [i \in 0 .. m |-> IF i = m THEN e ELSE f[i]]
  <2>3. e \in X
    BY <2>2
  <2> HIDE DEF e
  <2>4. g \in [0 .. m -> X] /\ g[m] = e /\ \A i \in 0 .. (m - 1) : g[i] = f[i]
    BY <2>3
  <2> HIDE DEF g
  <2>5. g[0] = a
    BY <2>1, <2>4
  <2>6. ASSUME NEW i \in 1 .. m PROVE g[i] = E[i][g[i - 1]]
    <3>1. CASE i = m
      BY <2>2, <2>4, <3>1 DEF e
    <3>2. CASE i # m
      <4>1. i \in 1 .. (m - 1) /\ i \in 0 .. (m - 1) /\ i - 1 \in 0 .. (m - 1)
        BY <3>2
      <4> QED  BY <2>1, <2>4, <4>1
    <3> QED  BY <3>1, <3>2
  <2>7. Runs(g, m)
    BY <2>5, <2>6
  <2> HIDE DEF Runs
  <2> QED  BY <2>4, <2>7
<1>3. n \in G
  <2> HIDE DEF G
  <2>1. \A i \in 0 .. n : i \in G
    BY <1>1, <1>2, Climb
  <2> QED  BY <2>1
<1> QED  BY <1>3 DEF Iterates

-----------------------------------------------------------------------------
(* Stun.  The loop over the table copies the slots that it should.         *)
LEMMA ToldFacts ==
    ASSUME StunAssumption, NEW s
    PROVE  Told(s) \in Seq(Slots) /\ ToSet(Told(s)) = {i \in Slots : Copied(i, s)}
<1> DEFINE n == STUN_ADDRS
           X == Seq(Slots)
           E == [i \in 1 .. n |-> [u \in X |-> IF Copied(i, s) THEN Append(u, i) ELSE u]]
           Is(f) == f = [i \in 0 .. n |->
                           IF i = 0 THEN << >> ELSE IF Copied(i, s) THEN Append(f[i - 1], i) ELSE f[i - 1]]
           told == CHOOSE f : Is(f)
<1>1. n \in Nat /\ Slots = 1 .. n
  BY DEF StunAssumption, Slots
<1>2. \E f : Is(f)
  <2>1. << >> \in X /\ E \in [1 .. n -> [X -> X]]
    <3>1. << >> \in X /\ \A i \in 1 .. n : \A u \in X : Append(u, i) \in X
      BY <1>1
    <3> HIDE DEF X, n
    <3> QED  BY <3>1
  <2>2. PICK f \in [0 .. n -> X] : f[0] = << >> /\ \A i \in 1 .. n : f[i] = E[i][f[i - 1]]
    <3> HIDE DEF E, X, n
    <3>1. \E f \in [0 .. n -> X] : Iterates(f, n, << >>, E)
      BY <1>1, <2>1, LoopExists
    <3> QED  BY <3>1 DEF Iterates
  <2>3. \A i \in 1 .. n : f[i - 1] \in X
    BY <1>1, <2>2
  <2>4. \A i \in 1 .. n : f[i] = IF Copied(i, s) THEN Append(f[i - 1], i) ELSE f[i - 1]
    BY <2>2, <2>3
  <2>5. f = [i \in 0 .. n |-> f[i]]
    BY <2>2
  <2>6. \A i \in 0 .. n : i = 0 \/ i \in 1 .. n
    BY <1>1
  <2>7. f = [i \in 0 .. n |->
              IF i = 0 THEN << >> ELSE IF Copied(i, s) THEN Append(f[i - 1], i) ELSE f[i - 1]]
    BY <1>1, <2>2, <2>4, <2>5, <2>6
  <2> QED  BY <2>7
<1>3. Is(told)
  BY <1>2
<1>4. Told(s) = told[n]
  BY DEF Told
<1> HIDE DEF told
<1>5. told[0] = << >> /\ \A i \in 1 .. n : told[i] = IF Copied(i, s) THEN Append(told[i - 1], i) ELSE told[i - 1]
  <2>1. \A i \in 0 .. n :
           told[i] = IF i = 0 THEN << >> ELSE IF Copied(i, s) THEN Append(told[i - 1], i) ELSE told[i - 1]
    BY <1>3
  <2>2. 0 \in 0 .. n /\ \A i \in 1 .. n : i \in 0 .. n /\ i # 0
    BY <1>1
  <2> QED  BY <2>1, <2>2, Zenon
<1> DEFINE Good(i) == told[i] \in X /\ ToSet(told[i]) = {j \in 1 .. i : Copied(j, s)}
           G == {i \in 0 .. n : Good(i)}
<1>6. 0 \in G
  <2>1. told[0] \in X /\ ToSet(told[0]) = {} /\ 1 .. 0 = {}
    BY <1>5 DEF ToSet
  <2> QED  BY <1>1, <2>1
<1>7. ASSUME NEW i \in 1 .. n, i - 1 \in G PROVE i \in G
  <2>1. told[i - 1] \in X /\ ToSet(told[i - 1]) = {j \in 1 .. (i - 1) : Copied(j, s)}
    BY <1>7
  <2>2. 1 .. i = (1 .. (i - 1)) \cup {i}
    BY <1>1
  <2>3. CASE Copied(i, s)
    <3>1. told[i] = Append(told[i - 1], i)
      BY <1>5, <2>3
    <3> DEFINE u == told[i - 1]
    <3>2. /\ Append(u, i) \in X /\ Len(u) \in Nat /\ Len(Append(u, i)) = Len(u) + 1
          /\ Append(u, i)[Len(u) + 1] = i /\ \A k \in 1 .. Len(u) : Append(u, i)[k] = u[k]
      <4> HIDE DEF u
      <4> QED  BY <1>1, <2>1, AppendProperties DEF u
    <3>3. DOMAIN u = 1 .. Len(u) /\ DOMAIN Append(u, i) = 1 .. (Len(u) + 1)
      BY <2>1, <3>2
    <3> HIDE DEF u
    <3>4. ToSet(Append(u, i)) = ToSet(u) \cup {i}
      BY <3>2, <3>3 DEF ToSet
    <3>5. ToSet(told[i]) = {j \in 1 .. i : Copied(j, s)}
      BY <2>1, <2>2, <2>3, <3>1, <3>4 DEF u
    <3>6. i \in 0 .. n /\ told[i] \in X
      BY <1>1, <3>1, <3>2 DEF u
    <3> HIDE DEF X, n
    <3> QED  BY <3>5, <3>6
  <2>4. CASE ~Copied(i, s)
    <3>1. told[i] = told[i - 1]
      BY <1>5, <2>4
    <3> QED  BY <1>1, <2>1, <2>2, <2>4, <3>1
  <2> QED  BY <2>3, <2>4
<1>8. n \in G
  <2> HIDE DEF G, n
  <2> QED  BY <1>1, <1>6, <1>7, Climb
<1> QED  BY <1>1, <1>4, <1>8

(* The inductive invariant: types and one slot each, and with room for      *)
(* everybody all who were heard lately have theirs.                         *)
AllKept ==
    Roomy => \A s \in Heard : now - last[s] <= Recent => \E i \in Slots : Matches(i, s)
StunInv == TypeOK /\ OneSlotEach /\ IsFiniteSet(Heard) /\ AllKept /\ FewFit

(* A slot with a port is somebody's who was heard.                          *)
LEMMA SlotOf ==
    ASSUME StunAssumption, TypeOK, OneSlotEach, NEW i \in Slots, heard[i].port # 0
    PROVE  LET t == <<heard[i].addr, heard[i].port>>
           IN /\ t \in Senders /\ Matches(i, t) /\ last[t] = heard[i].time /\ heard[i].time \in 0 .. now
              /\ heard[i].time # Never
<1> DEFINE t == <<heard[i].addr, heard[i].port>>
<1>1. heard[i] \in [addr : Addresses, port : Ports, time : 0 .. now]
  <2>1. heard[i] \in {Free} \cup [addr : Addresses, port : Ports, time : 0 .. now]
    BY DEF TypeOK
  <2>2. heard[i] # Free
    BY DEF Free
  <2> QED  BY <2>1, <2>2
<1>2. heard[i].addr \in Addresses /\ heard[i].port \in Ports /\ heard[i].time \in 0 .. now
  BY <1>1
<1>3. t \in Senders /\ t[1] = heard[i].addr /\ t[2] = heard[i].port
  BY <1>2 DEF Senders
<1> HIDE DEF t
<1>4. Matches(i, t)
  BY <1>3 DEF Matches
<1>5. last[t] = heard[i].time
  BY <1>3, <1>4 DEF OneSlotEach
<1>6. heard[i].time # Never
  <2>1. now \in Nat
    BY DEF TypeOK
  <2> QED  BY <1>2, <2>1 DEF Never
<1> QED  BY <1>2, <1>3, <1>4, <1>5, <1>6 DEF t

LEMMA SendersFacts ==
    ASSUME NEW s \in Senders
    PROVE  s = <<s[1], s[2]>> /\ s[1] \in Addresses /\ s[2] \in Ports
BY DEF Senders

LEMMA TellsOf ==
    ASSUME StunAssumption, TypeOK, OneSlotEach, NEW s \in Senders, NEW i \in Slots, Copied(i, s)
    PROVE  heard[i].addr \in Known(s)
<1>1. heard[i].port = s[2] /\ s[2] \in Ports /\ now - heard[i].time <= Recent /\ ~Matches(i, s)
  BY SendersFacts DEF Copied
<1>2. heard[i].port # 0
  BY <1>1 DEF StunAssumption
<1>3. /\ <<heard[i].addr, s[2]>> \in Senders
      /\ last[<<heard[i].addr, s[2]>>] = heard[i].time /\ heard[i].time # Never
  BY <1>1, <1>2, SlotOf
<1>4. heard[i].addr \in Addresses
  BY <1>3 DEF Senders
<1>5. heard[i].addr # s[1]
  BY <1>1 DEF Matches
<1> QED  BY <1>1, <1>3, <1>4, <1>5 DEF Known

(* The reply names the addresses of the slots that are copied.              *)
LEMMA ReplyNames ==
    ASSUME StunAssumption, NEW s \in Senders, Receive(s)
    PROVE  /\ ToSet(reply'.addrs) = {heard[i].addr : i \in {j \in Slots : Copied(j, s)}}
           /\ reply' = NoReply \/ <<reply'.to.addr, reply'.to.port>> = s
           /\ reply' = NoReply => ToSet(reply'.addrs) = {}
<1> DEFINE told == Told(s)
           addrs == [k \in DOMAIN told |-> heard[told[k]].addr]
           here == [addr |-> s[1], port |-> s[2], time |-> now]
<1>1. reply' = IF addrs = << >> THEN NoReply
               ELSE [to |-> here, addrs |-> addrs, length |-> LengthField(Entry * Len(addrs))]
  BY DEF Receive
<1>2. ToSet(told) = {j \in Slots : Copied(j, s)}
  BY ToldFacts
<1>3. ToSet(addrs) = {heard[i].addr : i \in ToSet(told)}
  <2> HIDE DEF told
  <2> QED  BY DEF ToSet
<1>4. <<here.addr, here.port>> = s
  BY SendersFacts
<1>5. ToSet(<< >>) = {}
  BY DEF ToSet
<1> HIDE DEF addrs, here, told
<1>6. CASE addrs = << >>
  BY <1>1, <1>2, <1>3, <1>5, <1>6 DEF NoReply
<1>7. CASE addrs # << >>
  <2>1. reply' = [to |-> here, addrs |-> addrs, length |-> LengthField(Entry * Len(addrs))]
    BY <1>1, <1>7
  <2>2. reply'.addrs = addrs /\ reply'.to = here
    BY <2>1
  <2>3. reply' # NoReply
    BY <1>7, <2>2 DEF NoReply
  <2> QED  BY <1>2, <1>3, <1>4, <2>2, <2>3
<1> QED  BY <1>6, <1>7

(* found of the loop of main: one slot, and the sender's own if it has one. *)
LEMMA OneSlotFound ==
    ASSUME StunAssumption, OneSlotEach, NEW s \in Senders
    PROVE  /\ SlotFor(s) \subseteq Slots
           /\ \A i, j \in SlotFor(s) : i = j
           /\ \A i \in Slots : Matches(i, s) => i \in SlotFor(s)
           /\ \A i \in SlotFor(s) : Matches(i, s) \/ ~Copied(i, s)
<1>1. \A i, j \in Slots : i <= j /\ j <= i => i = j
  BY DEF StunAssumption, Slots
<1>2. \A i, j \in Slots : Matches(i, s) /\ Matches(j, s) => i = j
  BY DEF OneSlotEach
<1>3. \A i \in Slots : i <= i
  BY DEF StunAssumption, Slots
<1>4. CASE \E i \in Slots : Matches(i, s)
  <2>1. SlotFor(s) = {i \in {k \in Slots : Matches(k, s)} : \A j \in {k \in Slots : Matches(k, s)} : j <= i}
    BY <1>4 DEF SlotFor
  <2> QED  BY <1>2, <1>3, <2>1
<1>5. CASE ~ \E i \in Slots : Matches(i, s)
  <2> DEFINE spare == {i \in Slots : ~Matches(i, s) /\ ~Copied(i, s)}
  <2>1. SlotFor(s) = {i \in spare : \A j \in spare : i <= j}
    BY <1>5 DEF SlotFor
  <2>2. spare \subseteq Slots /\ \A i \in spare : ~Copied(i, s)
    OBVIOUS
  <2> HIDE DEF spare
  <2> QED  BY <1>1, <1>5, <2>1, <2>2
<1> QED  BY <1>4, <1>5

(* With room for everybody there is a slot for a sender.                    *)
LEMMA SlotFound ==
    ASSUME StunAssumption, StunInv, NEW s \in Senders, Cardinality(Heard \cup {s}) <= STUN_ADDRS
    PROVE  SlotFor(s) # {}
<1>1. CASE \E i \in Slots : Matches(i, s)
  BY <1>1, OneSlotFound DEF StunInv
<1>2. CASE ~ \E i \in Slots : Matches(i, s)
  <2> DEFINE spare == {i \in Slots : ~Matches(i, s) /\ ~Copied(i, s)}
             H == Heard \ {s}
             g == [i \in Slots |-> <<heard[i].addr, heard[i].port>>]
  <2>1. SlotFor(s) = {i \in spare : \A j \in spare : i <= j}
    BY <1>2 DEF SlotFor
  <2>2. spare # {}
    <3> SUFFICES ASSUME spare = {} PROVE FALSE
      OBVIOUS
    <3>1. \A i \in Slots : heard[i].port # 0 /\ ~Matches(i, s)
      BY <1>2, SendersFacts DEF Copied, StunAssumption
    <3>2. \A i \in Slots : g[i] \in Senders /\ Matches(i, g[i]) /\ last[g[i]] # Never
      BY <3>1, SlotOf DEF StunInv
    <3> HIDE DEF g
    <3>3. \A i \in Slots : g[i] \in H
      BY <3>1, <3>2 DEF Heard
    <3>4. g \in [Slots -> H]
      BY <3>3 DEF g
    <3>5. IsFiniteSet(H) /\ Cardinality(H) < STUN_ADDRS
      <4>1. IsFiniteSet(Heard) /\ STUN_ADDRS \in Nat
        BY DEF StunInv, StunAssumption
      <4>2. IsFiniteSet(H) /\ IsFiniteSet(Heard \cup {s}) /\ H = (Heard \cup {s}) \ {s}
        BY <4>1, FS_AddElement, FS_RemoveElement
      <4>3. Cardinality(H) = Cardinality(Heard \cup {s}) - 1 /\ Cardinality(Heard \cup {s}) \in Nat
        BY <4>2, FS_RemoveElement, FS_CardinalityType
      <4> QED  BY <4>1, <4>2, <4>3
    <3>6. IsFiniteSet(Slots) /\ Cardinality(Slots) = STUN_ADDRS
      <4>1. STUN_ADDRS \in Nat /\ 1 <= STUN_ADDRS
        BY DEF StunAssumption
      <4> QED  BY <4>1, FS_Interval DEF Slots
    <3> HIDE DEF H
    <3>7. \A S, T : \A f \in [S -> T] :
             IsFiniteSet(S) /\ IsFiniteSet(T) /\ Cardinality(T) < Cardinality(S)
                => \E y, z \in S : y # z /\ f[y] = f[z]
      BY FS_PigeonHole
    <3>8. PICK i \in Slots, j \in Slots : i # j /\ g[i] = g[j]
      BY <3>4, <3>5, <3>6, <3>7
    <3>9. Matches(i, g[i]) /\ Matches(j, g[i]) /\ g[i] \in Senders
      BY <3>2, <3>8
    <3> QED  BY <3>8, <3>9 DEF StunInv, OneSlotEach
  <2>3. spare \in SUBSET Nat
    BY DEF Slots, StunAssumption
  <2> HIDE DEF spare
  <2> QED  BY <2>1, <2>2, <2>3, Least
<1> QED  BY <1>1, <1>2

(* One turn of the loop.                                                    *)
LEMMA ReceiveKeeps ==
    ASSUME StunAssumption, StunInv, NEW s \in Senders, Receive(s)
    PROVE  StunInv'
<1> DEFINE here == [addr |-> s[1], port |-> s[2], time |-> now]
<1>1. /\ heard' = [i \in Slots |-> IF i \in SlotFor(s) THEN here ELSE heard[i]]
      /\ last' = [last EXCEPT ![s] = now] /\ now' = now
  BY DEF Receive
<1>2. /\ SlotFor(s) \subseteq Slots
      /\ \A i, j \in SlotFor(s) : i = j
      /\ \A i \in Slots : Matches(i, s) => i \in SlotFor(s)
      /\ \A i \in SlotFor(s) : Matches(i, s) \/ ~Copied(i, s)
  BY OneSlotFound DEF StunInv
<1>3. \A i \in SlotFor(s) : heard'[i] = here
  BY <1>1, <1>2
<1>4. \A i \in Slots \ SlotFor(s) : heard'[i] = heard[i]
  BY <1>1
<1>5. \A t \in Senders : here.addr = t[1] /\ here.port = t[2] <=> t = s
  BY DEF Senders
<1>6. /\ DOMAIN last = Senders /\ last'[s] = now /\ now \in Nat
      /\ \A t \in Senders : t # s => last'[t] = last[t]
  BY <1>1 DEF StunInv, TypeOK
<1>7. \A i \in Slots, t \in Senders :
         Matches(i, t)' <=> IF t = s THEN i \in SlotFor(s) ELSE i \notin SlotFor(s) /\ Matches(i, t)
  BY <1>2, <1>3, <1>4, <1>5 DEF Matches
<1>8. OneSlotEach'
  <2> SUFFICES ASSUME NEW i \in Slots, NEW j \in Slots, NEW t \in Senders, Matches(i, t)'
               PROVE  heard'[i].time = last'[t] /\ (Matches(j, t)' => i = j)
    BY DEF OneSlotEach, Slots
  <2>1. CASE t = s
    BY <1>2, <1>3, <1>6, <1>7, <2>1
  <2>2. CASE t # s
    BY <1>4, <1>6, <1>7, <2>2 DEF StunInv, OneSlotEach
  <2> QED  BY <2>1, <2>2
<1>9. TypeOK'
  <2>1. here \in [addr : Addresses, port : Ports, time : 0 .. now]
    BY <1>6, SendersFacts
  <2>2. heard' \in [Slots -> {Free} \cup [addr : Addresses, port : Ports, time : 0 .. now]]
    <3> HIDE DEF here
    <3> QED  BY <1>1, <2>1 DEF StunInv, TypeOK
  <2>3. last' \in [Senders -> Never .. now]
    <3>1. now \in Never .. now
      BY <1>6 DEF Never
    <3> QED  BY <1>1, <3>1 DEF StunInv, TypeOK
  <2>4. ToSet(reply'.addrs) \subseteq Addresses
    <3>1. \A i \in Slots : Copied(i, s) => heard[i].addr \in Addresses
      <4>1. Known(s) \subseteq Addresses
        BY DEF Known
      <4> QED  BY <4>1, TellsOf DEF StunInv
    <3> QED  BY <3>1, ReplyNames
  <2>5. Slots' = Slots /\ Senders' = Senders
    BY DEF Slots, Senders
  <2>6. overrun' \in BOOLEAN
    BY DEF Receive, StunInv, TypeOK
  <2> QED  BY <1>1, <1>6, <2>2, <2>3, <2>4, <2>5, <2>6 DEF TypeOK, Slots, Senders
<1>10. Heard' = Heard \cup {s}
  <2>1. now # Never
    BY <1>6 DEF Never
  <2>2. \A t \in Senders : last'[t] # Never <=> t = s \/ last[t] # Never
    BY <1>6, <2>1
  <2>3. Heard' = {t \in Senders : last'[t] # Never}
    BY DEF Heard, Senders, Never
  <2> QED  BY <2>2, <2>3 DEF Heard
<1>11. IsFiniteSet(Heard')
  BY <1>10, FS_AddElement DEF StunInv
<1>12. AllKept'
  <2> SUFFICES ASSUME Roomy', NEW t \in Heard', now' - last'[t] <= Recent
               PROVE  \E i \in Slots : Matches(i, t)'
    BY DEF AllKept, Slots
  <2>1. Cardinality(Heard') <= STUN_ADDRS /\ \A u, w \in Heard' : u[2] = w[2]
    BY DEF Roomy
  <2>2. CASE t = s
    <3>1. SlotFor(s) # {}
      BY <1>10, <2>1, SlotFound
    <3> QED  BY <1>2, <1>7, <2>2, <3>1
  <2>3. CASE t # s
    <3>1. t \in Heard /\ t \in Senders /\ last'[t] = last[t]
      BY <1>6, <1>10, <2>3 DEF Heard
    <3>2. Roomy
      <4>1. Cardinality(Heard) <= Cardinality(Heard')
        BY <1>10, <1>11, FS_Subset
      <4>2. Cardinality(Heard) \in Nat /\ Cardinality(Heard') \in Nat /\ STUN_ADDRS \in Nat
        BY <1>11, FS_CardinalityType DEF StunInv, StunAssumption
      <4>3. Cardinality(Heard) <= STUN_ADDRS
        BY <2>1, <4>1, <4>2
      <4> QED  BY <1>10, <2>1, <4>3 DEF Roomy
    <3>3. PICK i \in Slots : Matches(i, t)
      BY <1>1, <3>1, <3>2 DEF StunInv, AllKept
    <3>4. i \notin SlotFor(s)
      <4>1. ~Matches(i, s)
        BY <2>3, <3>1, <3>3, SendersFacts DEF Matches
      <4>2. heard[i].port = s[2]
        BY <1>10, <2>1, <3>3 DEF Matches
      <4>3. heard[i].time = last[t]
        BY <3>1, <3>3 DEF StunInv, OneSlotEach
      <4>4. Copied(i, s)
        BY <1>1, <3>1, <4>1, <4>2, <4>3 DEF Copied
      <4> QED  BY <1>2, <4>1, <4>4
    <3> QED  BY <1>7, <2>3, <3>1, <3>3, <3>4
  <2> QED  BY <2>2, <2>3
<1>13. FewFit'
  BY DEF FewFit, Receive
<1> QED  BY <1>8, <1>9, <1>11, <1>12, <1>13 DEF StunInv

(* No more slots are copied than there are senders that were heard.         *)
LEMMA OverrunKeeps ==
    ASSUME StunAssumption, StunInv, NEW s \in Senders, Overrun(s)
    PROVE  StunInv'
<1> DEFINE C == {i \in Slots : Copied(i, s)}
           g == [i \in C |-> <<heard[i].addr, heard[i].port>>]
<1>1. Header + Entry * Cardinality(C) > Buffer
  BY DEF Overrun, Overruns
<1>2. \A i \in C : i \in Slots /\ g[i] \in Heard /\ Matches(i, g[i]) /\ g[i] \in Senders
  <2> SUFFICES ASSUME NEW i \in C PROVE g[i] \in Heard /\ Matches(i, g[i]) /\ g[i] \in Senders
    OBVIOUS
  <2>1. heard[i].port # 0
    BY SendersFacts DEF Copied, StunAssumption
  <2> QED  BY <2>1, SlotOf DEF StunInv, Heard
<1> HIDE DEF g
<1>3. g \in [C -> Heard] /\ \A i, j \in C : g[i] = g[j] => i = j
  <2>1. g \in [C -> Heard]
    BY <1>2 DEF g
  <2>2. ASSUME NEW i \in C, NEW j \in C, g[i] = g[j] PROVE i = j
    <3>1. Matches(i, g[i]) /\ Matches(j, g[i]) /\ g[i] \in Senders /\ i \in Slots /\ j \in Slots
      BY <1>2, <2>2
    <3> QED  BY <3>1 DEF StunInv, OneSlotEach
  <2> QED  BY <2>1, <2>2
<1>4. IsFiniteSet(C)
  <2>1. IsFiniteSet(Slots)
    <3>1. STUN_ADDRS \in Nat /\ 1 <= STUN_ADDRS
      BY DEF StunAssumption
    <3> QED  BY <3>1, FS_Interval DEF Slots
  <2> QED  BY <2>1, FS_Subset
<1>5. IsFiniteSet(Heard)
  BY DEF StunInv
<1> HIDE DEF C
<1>6. Cardinality(C) <= Cardinality(Heard)
  <2> SUFFICES ASSUME ~ (Cardinality(C) <= Cardinality(Heard)) PROVE FALSE
    OBVIOUS
  <2>1. Cardinality(C) \in Nat /\ Cardinality(Heard) \in Nat
    BY <1>4, <1>5, FS_CardinalityType
  <2>2. Cardinality(Heard) < Cardinality(C)
    BY <2>1
  <2>3. \A S, T : \A f \in [S -> T] :
           IsFiniteSet(S) /\ IsFiniteSet(T) /\ Cardinality(T) < Cardinality(S)
              => \E y, z \in S : y # z /\ f[y] = f[z]
    BY FS_PigeonHole
  <2> QED  BY <1>3, <1>4, <1>5, <2>2, <2>3
<1>7. Header + Entry * Cardinality(Heard) > Buffer
  <2>1. /\ Cardinality(C) \in Nat /\ Cardinality(Heard) \in Nat
        /\ Header \in Nat /\ Entry \in Nat /\ Buffer \in Nat
    BY <1>4, <1>5, FS_CardinalityType DEF StunAssumption
  <2>2. \A e, c, h \in Nat : c <= h => e * c <= e * h /\ e * c \in Nat /\ e * h \in Nat
    BY Z3
  <2>3. /\ Entry * Cardinality(C) <= Entry * Cardinality(Heard)
        /\ Entry * Cardinality(C) \in Nat /\ Entry * Cardinality(Heard) \in Nat
    BY <1>6, <2>1, <2>2
  <2> DEFINE ec == Entry * Cardinality(C)
             eh == Entry * Cardinality(Heard)
  <2>4. ec \in Nat /\ eh \in Nat /\ ec <= eh /\ Header + ec > Buffer
    BY <1>1, <2>3
  <2> HIDE DEF ec, eh
  <2>5. Header + eh > Buffer
    BY <2>1, <2>4
  <2> QED  BY <2>5 DEF eh
<1>8. UNCHANGED <<heard, now, reply, last>> /\ overrun' = TRUE
  BY DEF Overrun
<1>9. FewFit'
  BY <1>7, <1>8 DEF FewFit, Heard
<1> QED  BY <1>8, <1>9 DEF StunInv, TypeOK, OneSlotEach, Matches, Heard, AllKept, Roomy

LEMMA TickKeeps ==
    ASSUME StunAssumption, StunInv, Tick
    PROVE  StunInv'
<1>1. heard' = heard /\ last' = last /\ reply' = reply /\ now' = now + 1 /\ now \in Nat
  BY DEF Tick, StunInv, TypeOK
<1>2. 0 .. now \subseteq 0 .. now' /\ Never .. now \subseteq Never .. now' /\ now' \in Nat
  BY <1>1 DEF Never
<1>3. TypeOK'
  <2>1. heard' \in [Slots -> {Free} \cup [addr : Addresses, port : Ports, time : 0 .. now']]
    <3>1. \A i \in Slots : heard[i] \in {Free} \cup [addr : Addresses, port : Ports, time : 0 .. now']
      BY <1>2 DEF StunInv, TypeOK
    <3> QED  BY <1>1, <3>1 DEF StunInv, TypeOK
  <2>2. last' \in [Senders -> Never .. now']
    <3>1. \A t \in Senders : last[t] \in Never .. now'
      BY <1>2 DEF StunInv, TypeOK
    <3> QED  BY <1>1, <3>1 DEF StunInv, TypeOK
  <2>3. overrun' \in BOOLEAN
    BY DEF Tick, StunInv, TypeOK
  <2> QED  BY <1>1, <1>2, <2>1, <2>2, <2>3 DEF StunInv, TypeOK, Slots, Senders, Free
<1>4. OneSlotEach' /\ IsFiniteSet(Heard')
  BY <1>1 DEF StunInv, OneSlotEach, Matches, Heard
<1>5. AllKept'
  <2> SUFFICES ASSUME Roomy', NEW t \in Heard', now' - last'[t] <= Recent
               PROVE  \E i \in Slots : Matches(i, t)'
    BY DEF AllKept, Slots
  <2>1. Roomy /\ t \in Heard /\ t \in Senders
    BY <1>1 DEF Roomy, Heard
  <2>2. last[t] \in Int /\ Recent \in Nat
    BY <2>1, <1>1 DEF StunInv, TypeOK, Never, StunAssumption
  <2>3. now - last[t] <= Recent
    BY <1>1, <2>2
  <2>4. PICK i \in Slots : Matches(i, t)
    BY <2>1, <2>3 DEF StunInv, AllKept
  <2> QED  BY <1>1, <2>4 DEF Matches
<1>6. FewFit'
  BY DEF StunInv, FewFit, Tick, Heard
<1> QED  BY <1>3, <1>4, <1>5, <1>6 DEF StunInv

LEMMA StunStart == ASSUME StunAssumption, Init PROVE StunInv
<1>1. \A i \in Slots : heard[i] = Free
  BY DEF Init
<1>2. \A i \in Slots : \A s \in Senders : ~Matches(i, s)
  BY <1>1, SendersFacts DEF Matches, Free, StunAssumption
<1>3. Heard = {}
  BY DEF Init, Heard
<1>4. TypeOK
  <2>1. ToSet(reply.addrs) = {} /\ now = 0 /\ Never \in Never .. now
    BY DEF Init, NoReply, ToSet, Never
  <2>2. overrun \in BOOLEAN
    BY DEF Init
  <2> QED  BY <2>1, <2>2 DEF Init, TypeOK
<1>5. FewFit
  BY DEF FewFit, Init
<1> QED  BY <1>2, <1>3, <1>4, <1>5, FS_EmptySet DEF StunInv, OneSlotEach, AllKept

LEMMA StunStep == ASSUME StunAssumption, StunInv, [Next]_vars PROVE StunInv'
<1>1. CASE Tick
  BY <1>1, TickKeeps
<1>2. CASE \E s \in Senders : Receive(s)
  BY <1>2, ReceiveKeeps
<1>3. CASE \E s \in Senders : Overrun(s)
  BY <1>3, OverrunKeeps
<1>4. CASE UNCHANGED vars
  BY <1>4 DEF vars, StunInv, TypeOK, OneSlotEach, Matches, Heard, AllKept, Roomy, FewFit
<1> QED  BY <1>1, <1>2, <1>3, <1>4 DEF Next

(***************************************************************************)
(* No sender has two slots, and a slot has the last that was heard of its  *)
(* sender, for any number of slots, addresses and ports: the loop of main  *)
(* reuses the sender's own slot before it takes another.  And no reply is  *)
(* written past the end of buff before more senders were heard than it has *)
(* room for.                                                               *)
(***************************************************************************)
THEOREM StunOneSlot == ASSUME StunAssumption PROVE Spec => []TableRight
<1>1. Init => StunInv
  BY StunStart
<1>2. StunInv /\ [Next]_vars => StunInv'
  BY StunStep
<1>3. StunInv => TableRight
  BY DEF StunInv, TableRight
<1> QED  BY <1>1, <1>2, <1>3, PTL DEF Spec

(***************************************************************************)
(* The replies of the loop of main name only peers that were heard on the  *)
(* same port within ten seconds, never the one that asks, and all of them  *)
(* while there is a slot for everybody and one port; as far as the reply   *)
(* fits buff, since Receive is a turn of the loop whose reply does.        *)
(***************************************************************************)
THEOREM StunReplies == ASSUME StunAssumption PROVE Spec => RepliesRight
<1> DEFINE Right ==
      /\ reply' # reply =>
            ToSet(reply'.addrs) \subseteq (IF reply' = NoReply THEN {}
                                           ELSE Known(<<reply'.to.addr, reply'.to.port>>))
      /\ Roomy => \A s \in Senders : Receive(s) => Known(s) \subseteq ToSet(reply'.addrs)
<1>1. Init => StunInv
  BY StunStart
<1>2. StunInv /\ [Next]_vars => StunInv'
  BY StunStep
<1>3. StunInv /\ [Next]_vars => [Right]_vars
  <2> SUFFICES ASSUME StunInv, [Next]_vars, ~ UNCHANGED vars PROVE Right
    OBVIOUS
  <2>1. ASSUME NEW s \in Senders, Receive(s)
        PROVE  ToSet(reply'.addrs) \subseteq (IF reply' = NoReply THEN {}
                                             ELSE Known(<<reply'.to.addr, reply'.to.port>>))
    <3>1. ToSet(reply'.addrs) \subseteq Known(s)
      BY <2>1, ReplyNames, TellsOf DEF StunInv
    <3>2. reply' = NoReply => ToSet(reply'.addrs) = {}
      BY <2>1, ReplyNames
    <3>3. reply' # NoReply => <<reply'.to.addr, reply'.to.port>> = s
      BY <2>1, ReplyNames
    <3> QED  BY <3>1, <3>2, <3>3
  <2>2. ASSUME Roomy, NEW s \in Senders, Receive(s), NEW a \in Known(s)
        PROVE  a \in ToSet(reply'.addrs)
    <3> DEFINE t == <<a, s[2]>>
    <3>1. a \in Addresses /\ a # s[1] /\ last[t] # Never /\ now - last[t] <= Recent
      BY <2>2 DEF Known
    <3>2. t \in Senders /\ t \in Heard /\ t[1] = a /\ t[2] = s[2]
      BY <3>1, SendersFacts DEF Senders, Heard
    <3> HIDE DEF t
    <3>3. PICK i \in Slots : Matches(i, t)
      BY <2>2, <3>1, <3>2 DEF StunInv, AllKept
    <3>4. heard[i].time = last[t]
      BY <3>2, <3>3 DEF StunInv, OneSlotEach
    <3>5. heard[i].addr = a /\ heard[i].port = s[2]
      BY <3>2, <3>3 DEF Matches
    <3>6. Copied(i, s)
      BY <3>1, <3>4, <3>5 DEF Copied, Matches
    <3> QED  BY <2>2, <3>5, <3>6, ReplyNames
  <2>3. reply' # reply => \E s \in Senders : Receive(s)
    BY DEF Next, Tick, Overrun, vars
  <2> QED  BY <2>1, <2>2, <2>3
<1> QED  BY <1>1, <1>2, <1>3, PTL DEF Spec, RepliesRight

-----------------------------------------------------------------------------
\* A number of the n-th network of H numbers.
LEMMA NetworkOf ==
    ASSUME NEW H \in Nat \ {0}, NEW n \in Nat, NEW k \in 0 .. (H - 1)
    PROVE  (H * n + k) \div H = n
<1> DEFINE q == (H * n + k) \div H
<1>1. q \in Int /\ H * q <= H * n + k /\ H * n + k < H * q + H
  BY Z3
<1> HIDE DEF q
<1>2. CASE q > n
  <2>1. H * (q - n) >= H
    BY <1>1, <1>2, Z3
  <2> QED  BY <1>1, <2>1, Z3
<1>3. CASE q < n
  <2>1. H * (n - q) >= H
    BY <1>1, <1>3, Z3
  <2> QED  BY <1>1, <2>1, Z3
<1> QED  BY <1>1, <1>2, <1>3 DEF q

\* The bytes of an address that is not 0 are decreased without a borrow from outside.
LEMMA DecrFacts ==
    ASSUME WalkAssumption, NEW a \in 1 .. 2 ^ Bits
    PROVE  decr(a) = a - 1
<1> DEFINE M == 2 ^ Bits
           x == a - 1
<1>1. M \in Nat \ {0} /\ x \in 0 .. (M - 1)
  BY DEF WalkAssumption
<1> HIDE DEF M, x
<1>2. (M * 1 + x) \div M = 1
  BY <1>1, NetworkOf
<1>3. (x + M) \div M = 1
  BY <1>1, <1>2, Z3
<1>4. (x + M) % M = (x + M) - M * ((x + M) \div M)
  BY <1>1, Z3
<1>5. (x + M) % M = x
  BY <1>1, <1>3, <1>4, Z3
<1> QED  BY <1>5 DEF decr, M, x

\* The walk stays among the hosts 1 .. Hosts - 2 of the phone's network.
Walks ==
    \E net \in Nat, own \in 2 .. (Hosts - 2), host \in 1 .. (Hosts - 2) :
       /\ Hosts * net + Hosts <= 2 ^ Bits
       /\ address = Hosts * net + own /\ nextAddr = Hosts * net + host

(***************************************************************************)
(* Every address that is probed is a host of the phone's network, and none *)
(* is the phone itself, for addresses of any width and networks of any     *)
(* size, unless the phone's own address is the first of its network:       *)
(* IPInterface.nextAddress turns at the network address before it passes   *)
(* over the phone's own.                                                   *)
(***************************************************************************)
THEOREM WalkInRange ==
    ASSUME WalkAssumption PROVE WalkSpec => InRange
<1>0. Hosts \in Nat /\ Hosts > 3 /\ 2 ^ Bits \in Nat \ {0}
  BY DEF WalkAssumption
<1>1. WalkInit => First \/ Walks
  <2> SUFFICES ASSUME WalkInit, ~First PROVE Walks
    OBVIOUS
  <2>1. PICK net \in 0 .. (2 ^ Bits \div Hosts) - 1, own \in 1 .. (Hosts - 2) : address = Hosts * net + own
    BY DEF WalkInit
  <2>2. 2 ^ Bits \div Hosts \in Int /\ Hosts * (2 ^ Bits \div Hosts) <= 2 ^ Bits
    BY <1>0, Z3
  <2>3. net \in Nat /\ own \in 2 .. (Hosts - 2) /\ net + 1 <= 2 ^ Bits \div Hosts
    <3>1. net \in Nat /\ net + 1 <= 2 ^ Bits \div Hosts
      BY <2>1, <2>2
    <3>2. address \div Hosts = net
      BY <1>0, <2>1, <3>1, NetworkOf
    <3>3. net * Hosts = Hosts * net /\ Hosts * net \in Int
      BY <1>0, <3>1, Z3
    <3>4. own # 1
      BY <2>1, <3>2, <3>3 DEF First, firstAddr
    <3> QED  BY <1>0, <3>1, <3>4
  <2>4. Hosts * (net + 1) <= Hosts * (2 ^ Bits \div Hosts)
    BY <1>0, <2>2, <2>3, Z3
  <2>5. Hosts * net + Hosts <= 2 ^ Bits
    BY <1>0, <2>2, <2>3, <2>4, Z3
  <2>6. own \in 1 .. (Hosts - 2) /\ nextAddr = address
    BY <1>0, <2>3 DEF WalkInit
  <2> QED  BY <2>1, <2>3, <2>5, <2>6 DEF Walks
<1>2. ASSUME Walks, Probe PROVE Walks' /\ Probeable(nextAddr')
  <2>1. PICK net \in Nat, own \in 2 .. (Hosts - 2), host \in 1 .. (Hosts - 2) :
           /\ Hosts * net + Hosts <= 2 ^ Bits
           /\ address = Hosts * net + own /\ nextAddr = Hosts * net + host
    BY <1>2 DEF Walks
  <2> DEFINE first == Hosts * net
  <2>2. first \in Nat /\ firstAddr = first /\ broadcastAddr = first + Hosts - 1
    <3>1. address \div Hosts = net
      BY <1>0, <2>1, NetworkOf
    <3>2. net * Hosts = first /\ first \in Nat
      BY <1>0, <2>1, Z3
    <3> QED  BY <1>0, <3>1, <3>2 DEF firstAddr, broadcastAddr
  <2>3. /\ first + Hosts <= 2 ^ Bits /\ address = first + own /\ nextAddr = first + host
    BY <2>1
  <2> HIDE DEF first
  <2>4. \A k \in 1 .. (Hosts - 1) : decr(first + k) = first + (k - 1)
    <3> SUFFICES ASSUME NEW k \in 1 .. (Hosts - 1) PROVE decr(first + k) = first + (k - 1)
      OBVIOUS
    <3>1. first + k \in 1 .. 2 ^ Bits
      BY <1>0, <2>2, <2>3
    <3> QED  BY <1>0, <2>2, <3>1, DecrFacts
  <2> DEFINE turned == IF host = 1 THEN Hosts - 2 ELSE host - 1
             to == IF turned = own THEN turned - 1 ELSE turned
  <2>5. turned \in 1 .. (Hosts - 2) /\ to \in 1 .. (Hosts - 2) /\ to # own
    BY <1>0, <2>1
  <2>6. decr(nextAddr) = first + (host - 1)
    BY <1>0, <2>1, <2>3, <2>4
  <2>7. decr(broadcastAddr) = first + (Hosts - 2)
    <3>1. broadcastAddr = first + (Hosts - 1) /\ Hosts - 1 \in 1 .. (Hosts - 1)
      BY <1>0, <2>2
    <3> QED  BY <1>0, <2>4, <3>1
  <2>8. (IF decr(nextAddr) = firstAddr THEN decr(broadcastAddr) ELSE decr(nextAddr)) = first + turned
    BY <1>0, <2>1, <2>2, <2>6, <2>7
  <2>9. first + turned = address <=> turned = own
    BY <1>0, <2>1, <2>2, <2>3, <2>5
  <2>10. decr(first + turned) = first + (turned - 1)
    BY <1>0, <2>4, <2>5
  <2>11. nextAddress = first + to
    BY <2>8, <2>9, <2>10 DEF nextAddress
  <2>12. nextAddr' = first + to /\ address' = address
    BY <1>2, <2>11 DEF Probe
  <2>13. Walks'
    BY <2>1, <2>5, <2>12 DEF Walks, first
  <2>14. Probeable(nextAddr')
    <3> HIDE DEF to, turned
    <3>1. address \div Hosts = net /\ (Hosts * net + to) \div Hosts = net
      BY <1>0, <2>1, <2>5, NetworkOf
    <3>2. isInSubnet(nextAddr')
      BY <2>12, <3>1 DEF isInSubnet, first
    <3>3. nextAddr' # firstAddr /\ nextAddr' # broadcastAddr /\ nextAddr' # address
      BY <1>0, <2>1, <2>2, <2>3, <2>5, <2>12
    <3> QED  BY <3>2, <3>3 DEF Probeable
  <2> QED  BY <2>13, <2>14
<1>3. (First \/ Walks) /\ [Probe]_walkVars => (First \/ Walks)'
  <2>1. First /\ [Probe]_walkVars => First'
    BY DEF First, firstAddr, Probe, walkVars
  <2>2. Walks /\ UNCHANGED walkVars => Walks'
    BY DEF Walks, walkVars
  <2> QED  BY <1>2, <2>1, <2>2
<1>4. (First \/ Walks) /\ [Probe]_walkVars => [First \/ Probeable(nextAddr')]_walkVars
  BY <1>2
<1> QED  BY <1>1, <1>3, <1>4, PTL DEF WalkSpec, InRange

-----------------------------------------------------------------------------
(* Networks.  A datagram of the socket is one address that is gone, or      *)
(* addresses that there are.                                                *)
News == {RTM_NEWADDR(x) : x \in Address} \cup {NLMSG_DONE}
Datagram == {<<RTM_DELADDR(x)>> : x \in Address} \cup Seq(News)

Added(d) == {x \in Address : \E i \in DOMAIN d : d[i] = RTM_NEWADDR(x)}
GoneAfter(q, x, k) == \E j \in DOMAIN q : j > k /\ q[j] = <<RTM_DELADDR(x)>>
NoneGone(q) == \A x \in Address : ~GoneAfter(q, x, 0)

(* The inductive invariant: types, ...                                      *)
SocketTypes ==
    /\ NetworksTypeOK /\ IsFiniteSet(kernel) /\ changes \in Nat /\ sock \in Seq(Datagram)
    /\ pc = "start" => sock = << >> /\ DOMAIN networks = {}

(* ... an address that is used, or that a datagram adds, is one of the      *)
(* kernel, or a later datagram takes it back, ...                           *)
TakenBack ==
    /\ \A n \in DOMAIN networks : <<n, networks[n]>> \in kernel \/ GoneAfter(sock, <<n, networks[n]>>, 0)
    /\ \A k \in DOMAIN sock : \A x \in Added(sock[k]) : x \in kernel \/ GoneAfter(sock, x, k)

(* ... and with at most one change nothing that is there is taken back, and *)
(* all of it is found or about to be.                                       *)
Found ==
    /\ changes = 0 => NoneGone(sock) /\ \A x, y \in kernel : x = y
    /\ changes <= 1 => kernel = {} \/ NoneGone(sock)
    /\ changes <= 1 /\ pc = "polling" =>
          \A x \in kernel : x[1] \in Wifi =>
             x[1] \in DOMAIN networks \/ \E k \in DOMAIN sock : x \in Added(sock[k])

NetworksInv == SocketTypes /\ TakenBack /\ Found /\ HeartbeatsGoOn

-----------------------------------------------------------------------------
(* What the loop of read_addresses has: the networks and the alarm.         *)
Kept(s) ==
    /\ s = [networks |-> s.networks, alarm |-> s.alarm] /\ s.alarm \in BOOLEAN
    /\ DOMAIN s.networks \subseteq Wifi /\ \A n \in DOMAIN s.networks : s.networks[n] \in Addrs
    /\ DOMAIN s.networks # {} => s.alarm

LEMMA AddFacts ==
    ASSUME NEW s, Kept(s), NEW x \in Address
    PROVE  LET t == Handle(s, RTM_NEWADDR(x))
           IN /\ Kept(t)
              /\ DOMAIN s.networks \subseteq DOMAIN t.networks
              /\ x[1] \in Wifi => x[1] \in DOMAIN t.networks
              /\ \A n \in DOMAIN t.networks :
                    \/ <<n, t.networks[n]>> = x
                    \/ n \in DOMAIN s.networks /\ t.networks[n] = s.networks[n]
<1> DEFINE name == x[1]
           addr == x[2]
           t == Handle(s, RTM_NEWADDR(x))
<1>1. x = <<name, addr>> /\ name \in Names /\ addr \in Addrs
  BY DEF Address
<1>2. t = onAdd(s, name, addr)
  BY DEF Handle, RTM_NEWADDR
<1> HIDE DEF name, addr, t
<1>3. CASE name \notin Wifi
  <2>1. t = s
    BY <1>2, <1>3 DEF onAdd
  <2> QED  BY <1>3, <2>1 DEF t, name
<1>4. CASE name \in Wifi
  <2> DEFINE f == [n \in DOMAIN s.networks \cup {name} |-> IF n = name THEN addr ELSE s.networks[n]]
  <2>1. DOMAIN f = DOMAIN s.networks \cup {name} /\ f[name] = addr
    OBVIOUS
  <2>2. \A n \in DOMAIN s.networks : f[n] = IF n = name THEN addr ELSE s.networks[n]
    OBVIOUS
  <2>3. s = [networks |-> s.networks, alarm |-> s.alarm]
    BY DEF Kept
  <2>4. t = SetAlarm([networks |-> f, alarm |-> s.alarm])
    <3>1. [s EXCEPT !.networks = f] = [networks |-> f, alarm |-> s.alarm]
      BY <2>3
    <3> QED  BY <1>2, <1>4, <3>1 DEF onAdd
  <2> HIDE DEF f
  <2>5. t = [networks |-> f, alarm |-> TRUE]
    <3>1. DOMAIN f # {}
      BY <2>1
    <3> QED  BY <2>4, <3>1 DEF SetAlarm
  <2>6. Kept(t)
    BY <1>1, <1>4, <2>1, <2>2, <2>5 DEF Kept
  <2> QED  BY <1>1, <2>1, <2>2, <2>5, <2>6 DEF t, name
<1> QED  BY <1>3, <1>4

LEMMA RemoveFacts ==
    ASSUME NEW s, Kept(s), NEW x \in Address
    PROVE  LET t == Handle(s, RTM_DELADDR(x))
           IN /\ Kept(t) /\ DOMAIN t.networks = DOMAIN s.networks \ {x[1]}
              /\ \A n \in DOMAIN t.networks : t.networks[n] = s.networks[n]
<1> DEFINE name == x[1]
           t == Handle(s, RTM_DELADDR(x))
           left == [n \in DOMAIN s.networks \ {name} |-> s.networks[n]]
<1>1. t = onRemove(s, name)
  BY DEF Handle, RTM_DELADDR
<1> HIDE DEF t, name
<1>2. CASE name \notin DOMAIN s.networks
  <2>1. t = s
    BY <1>1, <1>2 DEF onRemove
  <2> QED  BY <1>2, <2>1 DEF t, name
<1>3. CASE name \in DOMAIN s.networks
  <2> DEFINE a == s.alarm /\ DOMAIN left # {}
  <2>1. t = [networks |-> left, alarm |-> a]
    BY <1>1, <1>3 DEF onRemove
  <2>2. DOMAIN left = DOMAIN s.networks \ {name} /\ \A n \in DOMAIN left : left[n] = s.networks[n]
    OBVIOUS
  <2>3. a \in BOOLEAN /\ (DOMAIN left # {} => a)
    BY <2>2 DEF Kept
  <2> HIDE DEF left, a
  <2>4. Kept(t)
    BY <2>1, <2>2, <2>3 DEF Kept
  <2> QED  BY <2>1, <2>2, <2>4 DEF t, name
<1> QED  BY <1>2, <1>3

(* Reads(f, s, d, n): f is the function of the loop, over n messages.       *)
Reads(f, s, d, n) == f = [i \in 0 .. n |-> IF i = 0 THEN s ELSE Handle(f[i - 1], d[i])]

LEMMA ReadsExists ==
    ASSUME NEW s, NEW d, NEW n \in Nat
    PROVE  \E f : Reads(f, s, d, n)
<1> DEFINE Missing == {m \in 0 .. n : ~ \E f : Reads(f, s, d, m)}
<1>1. Missing = {}
  <2> SUFFICES ASSUME Missing # {} PROVE FALSE
    OBVIOUS
  <2>1. PICK m \in Missing : \A j \in Missing : m <= j
    <3>1. Missing \in SUBSET Nat
      OBVIOUS
    <3> QED  BY <3>1, Least
  <2>2. m \in 0 .. n /\ ~ \E f : Reads(f, s, d, m)
    OBVIOUS
  <2>3. m # 0
    <3> SUFFICES ASSUME m = 0 PROVE FALSE
      OBVIOUS
    <3> DEFINE f == [i \in 0 .. m |-> s]
    <3>1. \A i \in 0 .. m : i = 0
      OBVIOUS
    <3>2. f = [i \in 0 .. m |-> IF i = 0 THEN s ELSE Handle(f[i - 1], d[i])]
      BY <3>1
    <3> HIDE DEF f
    <3>3. Reads(f, s, d, m)
      BY <3>2 DEF Reads
    <3> QED  BY <2>2, <3>3
  <2>4. m - 1 \in 0 .. n /\ ~ (m <= m - 1)
    BY <2>2, <2>3
  <2>5. \E f : Reads(f, s, d, m - 1)
    <3>1. m - 1 \notin Missing
      <4> HIDE DEF Missing
      <4> QED  BY <2>1, <2>4
    <3> QED  BY <2>4, <3>1, Zenon
  <2>6. PICK f : Reads(f, s, d, m - 1)
    BY <2>5
  <2> DEFINE e == Handle(f[m - 1], d[m])
             g == [i \in 0 .. m |-> IF i = m THEN e ELSE f[i]]
  <2>7. \A i \in 0 .. (m - 1) : f[i] = IF i = 0 THEN s ELSE Handle(f[i - 1], d[i])
    BY <2>6 DEF Reads
  <2>8. \A i \in 0 .. m : g[i] = IF i = 0 THEN s ELSE Handle(g[i - 1], d[i])
    <3> SUFFICES ASSUME NEW i \in 0 .. m PROVE g[i] = IF i = 0 THEN s ELSE Handle(g[i - 1], d[i])
      OBVIOUS
    <3>1. CASE i = m
      <4>1. g[i] = e /\ g[i - 1] = f[m - 1]
        <5> HIDE DEF e
        <5> QED  BY <2>2, <2>3, <3>1
      <4> QED  BY <2>3, <3>1, <4>1
    <3>2. CASE i # m
      <4>1. i \in 0 .. (m - 1) /\ (i # 0 => i - 1 \in 0 .. m /\ i - 1 # m)
        BY <2>2, <3>2
      <4>2. g[i] = f[i] /\ (i # 0 => g[i - 1] = f[i - 1])
        BY <3>2, <4>1
      <4> HIDE DEF g
      <4> QED  BY <2>7, <4>1, <4>2
    <3> QED  BY <3>1, <3>2
  <2>9. g = [i \in 0 .. m |-> g[i]]
    OBVIOUS
  <2> HIDE DEF g
  <2>10. Reads(g, s, d, m)
    BY <2>8, <2>9 DEF Reads
  <2> QED  BY <2>2, <2>10
<1>2. n \in 0 .. n
  OBVIOUS
<1> QED  BY <1>1, <1>2

(* What a datagram that adds addresses leads to.                            *)
LEMMA NewsFacts ==
    ASSUME NEW s, Kept(s), NEW d \in Seq(News), NEW f, Reads(f, s, d, Len(d))
    PROVE  LET t == f[Len(d)]
           IN /\ Kept(t) /\ DOMAIN s.networks \subseteq DOMAIN t.networks
              /\ \A x \in Added(d) : x[1] \in Wifi => x[1] \in DOMAIN t.networks
              /\ \A n \in DOMAIN t.networks :
                    \/ <<n, t.networks[n]>> \in Added(d)
                    \/ n \in DOMAIN s.networks /\ t.networks[n] = s.networks[n]
<1> DEFINE Good(i) ==
             /\ Kept(f[i]) /\ DOMAIN s.networks \subseteq DOMAIN f[i].networks
             /\ \A x \in Address : (\E j \in 1 .. i : d[j] = RTM_NEWADDR(x)) /\ x[1] \in Wifi
                                      => x[1] \in DOMAIN f[i].networks
             /\ \A n \in DOMAIN f[i].networks :
                    \/ <<n, f[i].networks[n]>> \in Added(d)
                    \/ n \in DOMAIN s.networks /\ f[i].networks[n] = s.networks[n]
           Bad == {i \in 0 .. Len(d) : ~Good(i)}
<1>1. /\ Len(d) \in Nat /\ DOMAIN d = 1 .. Len(d)
      /\ \A i \in 0 .. Len(d) : f[i] = IF i = 0 THEN s ELSE Handle(f[i - 1], d[i])
  BY DEF Reads
<1>2. Good(0)
  <2>1. f[0] = s /\ 1 .. 0 = {}
    BY <1>1
  <2> QED  BY <2>1
<1>3. ASSUME NEW i \in 1 .. Len(d), Good(i - 1) PROVE Good(i)
  <2>1. f[i] = Handle(f[i - 1], d[i]) /\ d[i] \in News
    BY <1>1, <1>3, ElementOfSeq
  <2>2. \A j \in 1 .. i : j = i \/ j \in 1 .. (i - 1)
    BY <1>1
  <2>3. CASE d[i] = NLMSG_DONE
    <3>1. f[i] = f[i - 1]
      BY <2>1, <2>3 DEF Handle, NLMSG_DONE
    <3>2. \A x \in Address : d[i] # RTM_NEWADDR(x)
      BY <2>3 DEF NLMSG_DONE, RTM_NEWADDR
    <3>3. \A x \in Address : (\E j \in 1 .. i : d[j] = RTM_NEWADDR(x))
                                => \E j \in 1 .. (i - 1) : d[j] = RTM_NEWADDR(x)
      BY <2>2, <3>2
    <3> QED  BY <1>3, <3>1, <3>3
  <2>4. CASE \E y \in Address : d[i] = RTM_NEWADDR(y)
    <3>1. PICK y \in Address : d[i] = RTM_NEWADDR(y)
      BY <2>4
    <3> DEFINE r == f[i - 1]
               t == Handle(r, RTM_NEWADDR(y))
    <3>2. Kept(r) /\ f[i] = t
      BY <1>3, <2>1, <3>1
    <3>3. /\ Kept(t)
          /\ DOMAIN r.networks \subseteq DOMAIN t.networks
          /\ y[1] \in Wifi => y[1] \in DOMAIN t.networks
          /\ \A n \in DOMAIN t.networks :
                \/ <<n, t.networks[n]>> = y
                \/ n \in DOMAIN r.networks /\ t.networks[n] = r.networks[n]
      <4> HIDE DEF r
      <4> QED  BY <3>2, AddFacts
    <3>4. y \in Added(d)
      BY <1>1, <3>1 DEF Added
    <3>5. \A x \in Address : d[i] = RTM_NEWADDR(x) => x = y
      <4> SUFFICES ASSUME NEW x \in Address, d[i] = RTM_NEWADDR(x) PROVE x = y
        OBVIOUS
      <4>1. RTM_NEWADDR(x).name = RTM_NEWADDR(y).name /\ RTM_NEWADDR(x).addr = RTM_NEWADDR(y).addr
        BY <3>1
      <4>2. x[1] = y[1] /\ x[2] = y[2]
        BY <4>1 DEF RTM_NEWADDR
      <4>3. x = <<x[1], x[2]>> /\ y = <<y[1], y[2]>>
        BY DEF Address
      <4> QED  BY <4>2, <4>3
    <3>6. DOMAIN s.networks \subseteq DOMAIN r.networks
      BY <1>3
    <3>7. \A n \in DOMAIN r.networks :
             \/ <<n, r.networks[n]>> \in Added(d)
             \/ n \in DOMAIN s.networks /\ r.networks[n] = s.networks[n]
      BY <1>3
    <3>8. \A x \in Address : (\E j \in 1 .. (i - 1) : d[j] = RTM_NEWADDR(x)) /\ x[1] \in Wifi
                                => x[1] \in DOMAIN r.networks
      BY <1>3
    <3> HIDE DEF r, t
    <3>9. \A n \in DOMAIN t.networks :
             \/ <<n, t.networks[n]>> \in Added(d)
             \/ n \in DOMAIN s.networks /\ t.networks[n] = s.networks[n]
      BY <3>3, <3>4, <3>7
    <3>10. \A x \in Address : (\E j \in 1 .. i : d[j] = RTM_NEWADDR(x)) /\ x[1] \in Wifi
                                => x[1] \in DOMAIN t.networks
      BY <2>2, <3>3, <3>5, <3>8
    <3> QED  BY <3>2, <3>3, <3>6, <3>9, <3>10
  <2> QED  BY <2>1, <2>3, <2>4 DEF News
<1> HIDE DEF Good
<1>4. Bad = {}
  <2> SUFFICES ASSUME Bad # {} PROVE FALSE
    OBVIOUS
  <2>1. PICK i \in Bad : \A j \in Bad : i <= j
    <3>1. Bad \in SUBSET Nat
      OBVIOUS
    <3> QED  BY <3>1, Least
  <2>2. i \in 0 .. Len(d) /\ ~Good(i)
    OBVIOUS
  <2>3. i \in 1 .. Len(d) /\ i - 1 \in 0 .. Len(d) /\ ~ (i <= i - 1)
    BY <1>1, <1>2, <2>2
  <2>4. Good(i - 1)
    <3>1. i - 1 \notin Bad
      <4> HIDE DEF Bad
      <4> QED  BY <2>1, <2>3
    <3> QED  BY <2>3, <3>1, Zenon
  <2> QED  BY <1>3, <2>2, <2>3, <2>4
<1>5. Good(Len(d))
  BY <1>1, <1>4
<1> QED  BY <1>1, <1>5 DEF Good, Added

(* The function of read_addresses is such a function.                       *)
LEMMA ReadIs ==
    ASSUME sock \in Seq(Datagram), read_addresses
    PROVE  \E f : /\ Reads(f, [networks |-> networks, alarm |-> alarm], Head(sock), Len(Head(sock)))
                  /\ networks' = f[Len(Head(sock))].networks /\ alarm' = f[Len(Head(sock))].alarm
<1> DEFINE s == [networks |-> networks, alarm |-> alarm]
           d == Head(sock)
           f == CHOOSE f : Reads(f, s, d, Len(d))
<1>1. d \in Datagram
  BY HeadTailProperties DEF read_addresses
<1>2. Len(d) \in Nat
  <2>1. CASE d \in Seq(News)
    BY <2>1
  <2>2. CASE \E x \in Address : d = <<RTM_DELADDR(x)>>
    BY <2>2
  <2> QED  BY <1>1, <2>1, <2>2 DEF Datagram
<1>3. Reads(f, s, d, Len(d))
  <2> HIDE DEF s, d
  <2>1. \E g : Reads(g, s, d, Len(d))
    BY <1>2, ReadsExists
  <2> QED  BY <2>1
<1>4. networks' = f[Len(d)].networks /\ alarm' = f[Len(d)].alarm
  BY DEF read_addresses, Reads
<1> HIDE DEF f
<1> QED  BY <1>3, <1>4

(* The answer to request_addresses names what the kernel has, all of it.    *)
LEMMA AnswerFacts ==
    ASSUME IsFiniteSet(kernel), kernel \subseteq Address, NEW order \in SetToSeqs(kernel)
    PROVE  LET d == [i \in DOMAIN order |-> RTM_NEWADDR(order[i])] \o <<NLMSG_DONE>>
           IN d \in Seq(News) /\ Added(d) = kernel
<1> DEFINE c == Cardinality(kernel)
           e == [i \in DOMAIN order |-> RTM_NEWADDR(order[i])]
           d == e \o <<NLMSG_DONE>>
<1>1. /\ c \in Nat /\ order \in [1 .. c -> kernel] /\ DOMAIN order = 1 .. c
      /\ \A i, j \in 1 .. c : i # j => order[i] # order[j]
  <2>1. c \in Nat
    BY FS_CardinalityType
  <2> QED  BY <2>1 DEF SetToSeqs
<1>2. \A x \in kernel : \E i \in 1 .. c : order[i] = x
  <2> SUFFICES ASSUME NEW x \in kernel, \A i \in 1 .. c : order[i] # x PROVE FALSE
    OBVIOUS
  <2>1. IsFiniteSet(kernel \ {x}) /\ Cardinality(kernel \ {x}) = c - 1
    BY FS_RemoveElement
  <2>2. IsFiniteSet(1 .. c) /\ Cardinality(1 .. c) = c
    BY <1>1, FS_Interval
  <2>3. order \in [1 .. c -> kernel \ {x}] /\ c - 1 < c
    BY <1>1
  <2> HIDE DEF c
  <2>4. \E i, j \in 1 .. c : i # j /\ order[i] = order[j]
    <3>1. Cardinality(kernel \ {x}) < Cardinality(1 .. c)
      BY <2>1, <2>2, <2>3
    <3>2. \A S, T : \A f \in [S -> T] :
             IsFiniteSet(S) /\ IsFiniteSet(T) /\ Cardinality(T) < Cardinality(S)
                => \E y, z \in S : y # z /\ f[y] = f[z]
      BY FS_PigeonHole
    <3> QED  BY <2>1, <2>2, <2>3, <3>1, <3>2
  <2>5. PICK i \in 1 .. c, j \in 1 .. c : i # j /\ order[i] = order[j]
    BY <2>4
  <2>6. order[i] # order[j]
    BY <1>1, <2>5
  <2> QED  BY <2>5, <2>6
<1> HIDE DEF c
<1>3. e \in Seq(News) /\ Len(e) = c /\ \A i \in 1 .. c : e[i] = RTM_NEWADDR(order[i])
  <2>1. \A i \in 1 .. c : RTM_NEWADDR(order[i]) \in News
    BY <1>1 DEF News
  <2>2. e \in [1 .. c -> News]
    BY <1>1, <2>1
  <2>3. e \in Seq(News)
    BY <1>1, <2>2, SeqDef
  <2> QED  BY <1>1, <2>2, <2>3, LenProperties
<1> HIDE DEF e
<1>4. <<NLMSG_DONE>> \in Seq(News) /\ Len(<<NLMSG_DONE>>) = 1 /\ <<NLMSG_DONE>>[1] = NLMSG_DONE
  BY DEF News
<1>5. /\ d \in Seq(News) /\ Len(d) = c + 1 /\ DOMAIN d = 1 .. (c + 1)
      /\ \A i \in 1 .. c : d[i] = e[i]
      /\ d[c + 1] = NLMSG_DONE
  <2>1. d \in Seq(News) /\ Len(d) = c + 1
    BY <1>1, <1>3, <1>4, ConcatProperties
  <2>2. \A i \in 1 .. (c + 1) : d[i] = IF i <= c THEN e[i] ELSE <<NLMSG_DONE>>[i - c]
    <3>1. Len(e) + Len(<<NLMSG_DONE>>) = c + 1
      BY <1>3, <1>4
    <3>2. \A i \in 1 .. (Len(e) + Len(<<NLMSG_DONE>>)) :
             d[i] = IF i <= Len(e) THEN e[i] ELSE <<NLMSG_DONE>>[i - Len(e)]
      BY <1>3, <1>4, ConcatProperties, Zenon
    <3> QED  BY <1>3, <3>1, <3>2, Zenon
  <2>3. d[c + 1] = <<NLMSG_DONE>>[1]
    <3>1. c + 1 \in 1 .. (c + 1) /\ ~ (c + 1 <= c) /\ (c + 1) - c = 1
      BY <1>1
    <3>2. d[c + 1] = IF c + 1 <= c THEN e[c + 1] ELSE <<NLMSG_DONE>>[(c + 1) - c]
      BY <2>2, <3>1, Zenon
    <3> QED  BY <3>1, <3>2, Zenon
  <2> HIDE DEF d
  <2> QED  BY <1>1, <1>4, <2>1, <2>2, <2>3, LenProperties
<1> HIDE DEF d
<1>6. \A x \in Address : NLMSG_DONE # RTM_NEWADDR(x)
  BY DEF NLMSG_DONE, RTM_NEWADDR
<1>7. \A x, y \in Address : RTM_NEWADDR(x) = RTM_NEWADDR(y) => x = y
  <2> SUFFICES ASSUME NEW x \in Address, NEW y \in Address, RTM_NEWADDR(x) = RTM_NEWADDR(y)
               PROVE  x = y
    OBVIOUS
  <2>1. x[1] = y[1] /\ x[2] = y[2]
    BY DEF RTM_NEWADDR
  <2>2. x = <<x[1], x[2]>> /\ y = <<y[1], y[2]>>
    BY DEF Address
  <2> QED  BY <2>1, <2>2
<1>8. ASSUME NEW x \in kernel PROVE x \in Added(d)
  <2>1. PICK i \in 1 .. c : order[i] = x
    BY <1>2
  <2>2. d[i] = RTM_NEWADDR(x) /\ i \in DOMAIN d
    BY <1>1, <1>3, <1>5, <2>1
  <2> QED  BY <2>2 DEF Added
<1>9. ASSUME NEW x \in Added(d) PROVE x \in kernel
  <2>1. PICK i \in 1 .. (c + 1) : d[i] = RTM_NEWADDR(x)
    BY <1>5 DEF Added
  <2>2. x \in Address
    BY DEF Added
  <2>3. i \in 1 .. c
    <3>1. i # c + 1
      BY <1>5, <1>6, <2>1, <2>2
    <3> QED  BY <1>1, <2>1, <3>1
  <2>4. RTM_NEWADDR(x) = RTM_NEWADDR(order[i]) /\ order[i] \in kernel
    BY <1>1, <1>3, <1>5, <2>1, <2>3
  <2> QED  BY <1>7, <2>2, <2>4
<1> QED  BY <1>5, <1>8, <1>9 DEF d, e

-----------------------------------------------------------------------------
(* Another datagram at the end of the socket, and one less at its front.    *)
LEMMA SocketAppend ==
    ASSUME NEW q \in Seq(Datagram), NEW d \in Datagram
    PROVE  /\ Append(q, d) \in Seq(Datagram) /\ Len(q) \in Nat
           /\ DOMAIN q = 1 .. Len(q) /\ DOMAIN Append(q, d) = 1 .. (Len(q) + 1)
           /\ Append(q, d)[Len(q) + 1] = d /\ \A k \in 1 .. Len(q) : Append(q, d)[k] = q[k]
           /\ \A x, k : GoneAfter(q, x, k) => GoneAfter(Append(q, d), x, k)
<1> DEFINE r == Append(q, d)
<1>1. Len(q) \in Nat /\ DOMAIN q = 1 .. Len(q)
  OBVIOUS
<1>2. /\ r \in Seq(Datagram) /\ Len(r) = Len(q) + 1 /\ r[Len(q) + 1] = d
      /\ \A k \in 1 .. Len(q) : r[k] = q[k]
  BY AppendProperties
<1> HIDE DEF r
<1>3. DOMAIN r = 1 .. (Len(q) + 1)
  BY <1>2
<1>4. \A x, k : GoneAfter(q, x, k) => GoneAfter(r, x, k)
  BY <1>1, <1>2, <1>3 DEF GoneAfter
<1> QED  BY <1>1, <1>2, <1>3, <1>4 DEF r

LEMMA SocketTail ==
    ASSUME NEW q \in Seq(Datagram), q # << >>
    PROVE  /\ Tail(q) \in Seq(Datagram) /\ Head(q) = q[1] /\ q[1] \in Datagram
           /\ Len(q) \in Nat /\ 1 <= Len(q)
           /\ DOMAIN q = 1 .. Len(q) /\ DOMAIN Tail(q) = 1 .. (Len(q) - 1)
           /\ \A k \in 1 .. (Len(q) - 1) : Tail(q)[k] = q[k + 1]
           /\ \A x : \A k \in Nat : GoneAfter(Tail(q), x, k) <=> GoneAfter(q, x, k + 1)
<1> DEFINE r == Tail(q)
           n == Len(q)
<1>1. n \in Nat /\ 1 <= n /\ DOMAIN q = 1 .. n
  OBVIOUS
<1>2. /\ r \in Seq(Datagram) /\ Len(r) = n - 1 /\ \A k \in 1 .. (n - 1) : r[k] = q[k + 1]
      /\ Head(q) = q[1]
  BY HeadTailProperties
<1>3. q[1] \in Datagram
  BY <1>1
<1> HIDE DEF r, n
<1>4. DOMAIN r = 1 .. (n - 1)
  BY <1>2
<1>5. ASSUME NEW x, NEW k \in Nat, GoneAfter(r, x, k) PROVE GoneAfter(q, x, k + 1)
  <2>1. PICK j \in 1 .. (n - 1) : j > k /\ r[j] = <<RTM_DELADDR(x)>>
    BY <1>4, <1>5 DEF GoneAfter
  <2>2. j + 1 \in DOMAIN q /\ j + 1 > k + 1 /\ q[j + 1] = r[j]
    BY <1>1, <1>2, <2>1
  <2> QED  BY <2>1, <2>2 DEF GoneAfter
<1>6. ASSUME NEW x, NEW k \in Nat, GoneAfter(q, x, k + 1) PROVE GoneAfter(r, x, k)
  <2>1. PICK j \in 1 .. n : j > k + 1 /\ q[j] = <<RTM_DELADDR(x)>>
    BY <1>1, <1>6 DEF GoneAfter
  <2>2. j - 1 \in 1 .. (n - 1) /\ j - 1 > k /\ (j - 1) + 1 = j
    BY <1>1, <2>1
  <2>3. r[j - 1] = q[j]
    BY <1>2, <2>2
  <2> QED  BY <1>4, <2>1, <2>2, <2>3 DEF GoneAfter
<1> QED  BY <1>1, <1>2, <1>3, <1>4, <1>5, <1>6 DEF r, n

(* A datagram with one address that is new is one of addresses; a datagram  *)
(* that takes one back adds none.                                           *)
LEMMA OneFacts ==
    ASSUME NEW x \in Address
    PROVE  /\ <<RTM_NEWADDR(x)>> \in Seq(News) /\ <<RTM_NEWADDR(x)>> \in Datagram
           /\ <<RTM_DELADDR(x)>> \in Datagram
           /\ Added(<<RTM_NEWADDR(x)>>) = {x} /\ Added(<<RTM_DELADDR(x)>>) = {}
           /\ \A y : <<RTM_NEWADDR(x)>> # <<RTM_DELADDR(y)>>
<1>1. RTM_NEWADDR(x) \in News
  BY DEF News
<1>2. \A y \in Address : RTM_NEWADDR(x) = RTM_NEWADDR(y) => x = y
  <2> SUFFICES ASSUME NEW y \in Address, RTM_NEWADDR(x) = RTM_NEWADDR(y) PROVE x = y
    OBVIOUS
  <2>1. x[1] = y[1] /\ x[2] = y[2]
    BY DEF RTM_NEWADDR
  <2>2. x = <<x[1], x[2]>> /\ y = <<y[1], y[2]>>
    BY DEF Address
  <2> QED  BY <2>1, <2>2
<1>3. \A y : RTM_DELADDR(x) # RTM_NEWADDR(y) /\ RTM_NEWADDR(x) # RTM_DELADDR(y)
  BY DEF RTM_DELADDR, RTM_NEWADDR
<1>4. \A m : DOMAIN <<m>> = {1} /\ <<m>>[1] = m
  OBVIOUS
<1>5. Added(<<RTM_NEWADDR(x)>>) = {x}
  <2>1. x \in Added(<<RTM_NEWADDR(x)>>)
    BY <1>4 DEF Added
  <2>2. ASSUME NEW y \in Added(<<RTM_NEWADDR(x)>>) PROVE y = x
    BY <1>2, <1>4 DEF Added
  <2> QED  BY <2>1, <2>2
<1>6. Added(<<RTM_DELADDR(x)>>) = {}
  BY <1>3, <1>4 DEF Added
<1>7. \A y : <<RTM_NEWADDR(x)>> # <<RTM_DELADDR(y)>>
  BY <1>3
<1>8. <<RTM_NEWADDR(x)>> \in Seq(News) /\ <<RTM_DELADDR(x)>> \in Datagram
  BY <1>1 DEF Datagram
<1> QED  BY <1>5, <1>6, <1>7, <1>8 DEF Datagram

(* No datagram that adds addresses takes one back.                          *)
LEMMA NewsOnly ==
    ASSUME NEW d \in Seq(News), NEW x
    PROVE  d # <<RTM_DELADDR(x)>>
<1> SUFFICES ASSUME d = <<RTM_DELADDR(x)>> PROVE FALSE
  OBVIOUS
<1>1. d[1] \in News /\ d[1] = RTM_DELADDR(x)
  <2>1. 1 \in DOMAIN d /\ d[1] = RTM_DELADDR(x) /\ DOMAIN d = 1 .. Len(d)
    OBVIOUS
  <2> QED  BY <2>1, ElementOfSeq
<1> QED  BY <1>1 DEF News, RTM_DELADDR, RTM_NEWADDR, NLMSG_DONE

(* The invariant at the start.                                              *)
LEMMA InterfacesStart ==
    ASSUME NetworksInit
    PROVE  NetworksInv
<1>1. DOMAIN networks = {} /\ DOMAIN sock = {} /\ sock = << >>
  BY DEF NetworksInit
<1>2. kernel \subseteq Address /\ IsFiniteSet(kernel) /\ \A x, y \in kernel : x = y
  BY FS_EmptySet, FS_Singleton DEF NetworksInit
<1>3. SocketTypes
  <2>1. alarm \in BOOLEAN
    BY DEF NetworksInit
  <2>2. NetworksTypeOK
    BY <1>1, <1>2, <2>1 DEF NetworksInit, NetworksTypeOK
  <2>3. sock \in Seq(Datagram)
    BY <1>1
  <2> QED  BY <1>1, <1>2, <2>2, <2>3 DEF NetworksInit, SocketTypes
<1>4. TakenBack
  BY <1>1 DEF TakenBack
<1>5. Found
  BY <1>1, <1>2 DEF Found, NoneGone, GoneAfter, NetworksInit
<1> QED  BY <1>1, <1>3, <1>4, <1>5 DEF NetworksInv, HeartbeatsGoOn

(* An address comes.                                                        *)
LEMMA AddStep ==
    ASSUME NetworksInv, NEW x \in Address, AddAddress(x)
    PROVE  NetworksInv'
<1> DEFINE d == <<RTM_NEWADDR(x)>>
           n == Len(sock)
<1>1. /\ kernel' = kernel \cup {x} /\ changes' = changes + 1 /\ changes \in Nat
      /\ networks' = networks /\ alarm' = alarm /\ pc' = pc /\ reached' = reached
      /\ sock' = IF pc = "start" THEN sock ELSE Append(sock, d)
  BY DEF AddAddress, Tells, NetworksInv, SocketTypes
<1>2. sock \in Seq(Datagram) /\ (pc = "start" => DOMAIN sock = {} /\ sock = << >> /\ DOMAIN networks = {})
  BY DEF NetworksInv, SocketTypes
<1>3. HeartbeatsGoOn'
  BY <1>1 DEF NetworksInv, HeartbeatsGoOn
<1>4. kernel' \subseteq Address /\ IsFiniteSet(kernel')
  <2>1. kernel \subseteq Address /\ IsFiniteSet(kernel)
    BY DEF NetworksInv, SocketTypes, NetworksTypeOK
  <2> QED  BY <1>1, <2>1, FS_AddElement
<1>5. NetworksTypeOK' /\ changes' \in Nat
  BY <1>1, <1>4 DEF NetworksInv, SocketTypes, NetworksTypeOK
<1>6. changes' # 0 /\ (changes' <= 1 => changes = 0 /\ changes <= 1)
  BY <1>1
<1>7. CASE pc = "start"
  <2>1. sock' = sock /\ DOMAIN sock' = {} /\ DOMAIN networks' = {}
    BY <1>1, <1>2, <1>7
  <2>2. SocketTypes'
    BY <1>2, <1>4, <1>5, <2>1, <1>7 DEF SocketTypes
  <2>3. TakenBack'
    BY <2>1 DEF TakenBack
  <2>4. Found'
    BY <1>1, <1>6, <1>7, <2>1 DEF Found, NoneGone, GoneAfter
  <2> QED  BY <1>3, <2>2, <2>3, <2>4 DEF NetworksInv
<1>8. CASE pc # "start"
  <2>1. sock' = Append(sock, d) /\ d \in Datagram
    BY <1>1, <1>8, OneFacts
  <2>2. Added(d) = {x} /\ \A y : d # <<RTM_DELADDR(y)>>
    BY OneFacts
  <2> HIDE DEF d
  <2>3. /\ sock' \in Seq(Datagram) /\ n \in Nat
        /\ DOMAIN sock = 1 .. n /\ DOMAIN sock' = 1 .. (n + 1)
        /\ sock'[n + 1] = d /\ \A k \in 1 .. n : sock'[k] = sock[k]
        /\ \A y, k : GoneAfter(sock, y, k) => GoneAfter(sock', y, k)
    BY <1>2, <2>1, SocketAppend
  <2> HIDE DEF n
  <2>4. \A k \in DOMAIN sock' : k = n + 1 \/ k \in DOMAIN sock
    BY <2>3
  <2>5. SocketTypes'
    BY <1>1, <1>4, <1>5, <1>8, <2>3 DEF SocketTypes
  <2>6. TakenBack'
    <3>1. \A k \in DOMAIN sock' : \A y \in Added(sock'[k]) : y \in kernel' \/ GoneAfter(sock', y, k)
      BY <1>1, <2>2, <2>3, <2>4 DEF NetworksInv, TakenBack
    <3>2. \A m \in DOMAIN networks' :
             <<m, networks'[m]>> \in kernel' \/ GoneAfter(sock', <<m, networks'[m]>>, 0)
      BY <1>1, <2>3 DEF NetworksInv, TakenBack
    <3> QED  BY <3>1, <3>2 DEF TakenBack
  <2>7. NoneGone(sock) => NoneGone(sock')
    BY <2>2, <2>3, <2>4 DEF NoneGone, GoneAfter
  <2>8. Found'
    <3>1. changes' <= 1 => NoneGone(sock')
      BY <1>6, <2>7 DEF NetworksInv, Found
    <3>2. ASSUME changes' <= 1, pc' = "polling", NEW y \in kernel', y[1] \in Wifi
          PROVE  y[1] \in DOMAIN networks' \/ \E k \in DOMAIN sock' : y \in Added(sock'[k])
      <4>1. CASE y = x
        <5>1. n + 1 \in DOMAIN sock' /\ y \in Added(sock'[n + 1])
          BY <2>2, <2>3, <4>1
        <5> QED  BY <5>1
      <4>2. CASE y \in kernel
        <5>1. y[1] \in DOMAIN networks \/ \E k \in DOMAIN sock : y \in Added(sock[k])
          BY <1>1, <1>6, <3>2, <4>2 DEF NetworksInv, Found
        <5>2. ASSUME NEW k \in DOMAIN sock, y \in Added(sock[k])
              PROVE  k \in DOMAIN sock' /\ y \in Added(sock'[k])
          BY <2>3, <5>2
        <5> QED  BY <1>1, <5>1, <5>2
      <4> QED  BY <1>1, <3>2, <4>1, <4>2
    <3> QED  BY <1>6, <3>1, <3>2 DEF Found
  <2> QED  BY <1>3, <2>5, <2>6, <2>8 DEF NetworksInv
<1> QED  BY <1>7, <1>8

(* An address goes.                                                         *)
LEMMA DelStep ==
    ASSUME NetworksInv, NEW x \in Address, DelAddress(x)
    PROVE  NetworksInv'
<1> DEFINE d == <<RTM_DELADDR(x)>>
           n == Len(sock)
<1>1. /\ x \in kernel /\ kernel' = kernel \ {x} /\ changes' = changes + 1 /\ changes \in Nat
      /\ networks' = networks /\ alarm' = alarm /\ pc' = pc /\ reached' = reached
      /\ sock' = IF pc = "start" THEN sock ELSE Append(sock, d)
  BY DEF DelAddress, Tells, NetworksInv, SocketTypes
<1>2. sock \in Seq(Datagram) /\ (pc = "start" => DOMAIN sock = {} /\ sock = << >> /\ DOMAIN networks = {})
  BY DEF NetworksInv, SocketTypes
<1>3. HeartbeatsGoOn'
  BY <1>1 DEF NetworksInv, HeartbeatsGoOn
<1>4. kernel' \subseteq Address /\ IsFiniteSet(kernel')
  <2>1. kernel \subseteq Address /\ IsFiniteSet(kernel)
    BY DEF NetworksInv, SocketTypes, NetworksTypeOK
  <2> QED  BY <1>1, <2>1, FS_RemoveElement
<1>5. NetworksTypeOK' /\ changes' \in Nat
  BY <1>1, <1>4 DEF NetworksInv, SocketTypes, NetworksTypeOK
<1>6. changes' # 0 /\ (changes' <= 1 => changes = 0)
  BY <1>1
<1>7. changes' <= 1 => kernel' = {}
  BY <1>1, <1>6 DEF NetworksInv, Found
<1>8. Found'
  BY <1>6, <1>7 DEF Found
<1>9. CASE pc = "start"
  <2>1. sock' = sock /\ DOMAIN sock' = {} /\ DOMAIN networks' = {}
    BY <1>1, <1>2, <1>9
  <2>2. SocketTypes'
    BY <1>2, <1>4, <1>5, <2>1, <1>9 DEF SocketTypes
  <2>3. TakenBack'
    BY <2>1 DEF TakenBack
  <2> QED  BY <1>3, <1>8, <2>2, <2>3 DEF NetworksInv
<1>10. CASE pc # "start"
  <2>1. sock' = Append(sock, d) /\ d \in Datagram /\ Added(d) = {}
    BY <1>1, <1>10, OneFacts
  <2>2. /\ sock' \in Seq(Datagram) /\ n \in Nat
        /\ DOMAIN sock = 1 .. n /\ DOMAIN sock' = 1 .. (n + 1)
        /\ sock'[n + 1] = d /\ \A k \in 1 .. n : sock'[k] = sock[k]
        /\ \A y, k : GoneAfter(sock, y, k) => GoneAfter(sock', y, k)
    <3> HIDE DEF d
    <3> QED  BY <1>2, <2>1, SocketAppend
  <2> HIDE DEF n
  <2>3. \A k \in DOMAIN sock' : k = n + 1 \/ k \in DOMAIN sock
    BY <2>2
  <2>4. \A k \in 0 .. n : GoneAfter(sock', x, k)
    BY <2>2 DEF GoneAfter
  <2> HIDE DEF d
  <2>5. SocketTypes'
    BY <1>1, <1>4, <1>5, <1>10, <2>2 DEF SocketTypes
  <2>6. TakenBack'
    <3>1. ASSUME NEW k \in DOMAIN sock', NEW y \in Added(sock'[k])
          PROVE  y \in kernel' \/ GoneAfter(sock', y, k)
      <4>1. k \in DOMAIN sock /\ k \in 0 .. n /\ y \in Added(sock[k])
        <5>1. k # n + 1
          BY <2>1, <2>2, <3>1
        <5> QED  BY <2>2, <2>3, <3>1, <5>1
      <4>2. y \in kernel \/ GoneAfter(sock, y, k)
        BY <4>1 DEF NetworksInv, TakenBack
      <4> QED  BY <1>1, <2>2, <2>4, <4>1, <4>2
    <3>2. \A m \in DOMAIN networks' :
             <<m, networks'[m]>> \in kernel' \/ GoneAfter(sock', <<m, networks'[m]>>, 0)
      <4>1. 0 \in 0 .. n
        BY <2>2
      <4> QED  BY <1>1, <2>2, <2>4, <4>1 DEF NetworksInv, TakenBack
    <3> QED  BY <3>1, <3>2 DEF TakenBack
  <2> QED  BY <1>3, <1>8, <2>5, <2>6 DEF NetworksInv
<1> QED  BY <1>9, <1>10

(* The socket is opened, and listens.                                       *)
LEMMA OpenStep ==
    ASSUME NetworksInv, netlink_socket
    PROVE  NetworksInv'
<1>1. /\ kernel' = kernel /\ changes' = changes /\ networks' = networks /\ alarm' = alarm
      /\ reached' = reached /\ sock' = sock /\ pc' = "bound" /\ pc' # "start" /\ pc' # "polling"
  BY DEF netlink_socket
<1>2. NetworksTypeOK'
  BY <1>1 DEF NetworksInv, SocketTypes, NetworksTypeOK
<1>3. SocketTypes'
  BY <1>1, <1>2 DEF NetworksInv, SocketTypes
<1>4. TakenBack'
  BY <1>1 DEF NetworksInv, TakenBack
<1>5. Found'
  BY <1>1 DEF NetworksInv, Found
<1> QED  BY <1>1, <1>3, <1>4, <1>5 DEF NetworksInv, HeartbeatsGoOn

(* The addresses are asked for.                                             *)
LEMMA RequestStep ==
    ASSUME NetworksInv, request_addresses
    PROVE  NetworksInv'
<1> DEFINE n == Len(sock)
<1>1. PICK order \in SetToSeqs(kernel) :
         sock' = Append(sock, [i \in DOMAIN order |-> RTM_NEWADDR(order[i])] \o <<NLMSG_DONE>>)
  BY DEF request_addresses
<1> DEFINE d == [i \in DOMAIN order |-> RTM_NEWADDR(order[i])] \o <<NLMSG_DONE>>
<1>2. /\ kernel' = kernel /\ changes' = changes /\ networks' = networks /\ alarm' = alarm
      /\ reached' = reached /\ pc' = "polling" /\ pc' # "start"
  BY DEF request_addresses
<1>3. kernel \subseteq Address /\ IsFiniteSet(kernel) /\ sock \in Seq(Datagram)
  BY DEF NetworksInv, SocketTypes, NetworksTypeOK
<1>4. d \in Seq(News) /\ Added(d) = kernel
  BY <1>3, AnswerFacts
<1>5. sock' = Append(sock, d)
  BY <1>1
<1> HIDE DEF d
<1>6. d \in Datagram /\ \A y : d # <<RTM_DELADDR(y)>>
  BY <1>4, NewsOnly DEF Datagram
<1>7. /\ sock' \in Seq(Datagram) /\ n \in Nat
      /\ DOMAIN sock = 1 .. n /\ DOMAIN sock' = 1 .. (n + 1)
      /\ sock'[n + 1] = d /\ \A k \in 1 .. n : sock'[k] = sock[k]
      /\ \A y, k : GoneAfter(sock, y, k) => GoneAfter(sock', y, k)
  BY <1>3, <1>5, <1>6, SocketAppend
<1> HIDE DEF n
<1>8. (\A k \in DOMAIN sock' : k = n + 1 \/ k \in DOMAIN sock) /\ n + 1 \in DOMAIN sock'
  BY <1>7
<1>9. NetworksTypeOK'
  BY <1>2 DEF NetworksInv, SocketTypes, NetworksTypeOK
<1>10. SocketTypes'
  BY <1>2, <1>7, <1>9 DEF NetworksInv, SocketTypes
<1>11. TakenBack'
  <2>1. \A k \in DOMAIN sock' : \A y \in Added(sock'[k]) : y \in kernel' \/ GoneAfter(sock', y, k)
    BY <1>2, <1>4, <1>7, <1>8 DEF NetworksInv, TakenBack
  <2>2. \A m \in DOMAIN networks' :
           <<m, networks'[m]>> \in kernel' \/ GoneAfter(sock', <<m, networks'[m]>>, 0)
    BY <1>2, <1>7 DEF NetworksInv, TakenBack
  <2> QED  BY <2>1, <2>2 DEF TakenBack
<1>12. Found'
  <2>1. NoneGone(sock) => NoneGone(sock')
    BY <1>6, <1>7, <1>8 DEF NoneGone, GoneAfter
  <2>2. \A y \in kernel' : \E k \in DOMAIN sock' : y \in Added(sock'[k])
    BY <1>2, <1>4, <1>7, <1>8
  <2> QED  BY <1>2, <2>1, <2>2 DEF NetworksInv, Found
<1> QED  BY <1>2, <1>10, <1>11, <1>12 DEF NetworksInv, HeartbeatsGoOn

(* A datagram is read.                                                      *)
LEMMA ReadStep ==
    ASSUME NetworksInv, read_addresses
    PROVE  NetworksInv'
<1> DEFINE s == [networks |-> networks, alarm |-> alarm]
           d == Head(sock)
           n == Len(sock)
<1>1. /\ kernel' = kernel /\ changes' = changes /\ reached' = reached /\ pc' = pc
      /\ pc = "polling" /\ pc' # "start" /\ sock # << >> /\ sock' = Tail(sock)
  BY DEF read_addresses
<1>2. /\ sock \in Seq(Datagram) /\ NetworksTypeOK
  BY DEF NetworksInv, SocketTypes
<1>3. PICK f : /\ Reads(f, s, d, Len(d))
               /\ networks' = f[Len(d)].networks /\ alarm' = f[Len(d)].alarm
  BY <1>2, ReadIs
<1> DEFINE t == f[Len(d)]
<1>4. s.networks = networks /\ s.alarm = alarm /\ Kept(s)
  BY <1>2 DEF NetworksInv, NetworksTypeOK, HeartbeatsGoOn, Kept
<1>5. /\ sock' \in Seq(Datagram) /\ d = sock[1] /\ d \in Datagram
      /\ n \in Nat /\ 1 <= n
      /\ DOMAIN sock = 1 .. n /\ DOMAIN sock' = 1 .. (n - 1)
      /\ \A k \in 1 .. (n - 1) : sock'[k] = sock[k + 1]
      /\ \A x : \A k \in Nat : GoneAfter(sock', x, k) <=> GoneAfter(sock, x, k + 1)
  BY <1>1, <1>2, SocketTail
<1> HIDE DEF s, d, n
<1>6. \A x : GoneAfter(sock', x, 0) <=> GoneAfter(sock, x, 1)
  <2>1. 0 \in Nat /\ 0 + 1 = 1
    OBVIOUS
  <2> QED  BY <1>5, <2>1
<1>7. \A x : GoneAfter(sock, x, 0) => d = <<RTM_DELADDR(x)>> \/ GoneAfter(sock', x, 0)
  <2> SUFFICES ASSUME NEW x, GoneAfter(sock, x, 0) PROVE d = <<RTM_DELADDR(x)>> \/ GoneAfter(sock, x, 1)
    BY <1>6
  <2>1. PICK j \in 1 .. n : sock[j] = <<RTM_DELADDR(x)>>
    BY <1>5 DEF GoneAfter
  <2>2. CASE j = 1
    BY <1>5, <2>1, <2>2
  <2>3. CASE j # 1
    <3>1. j \in DOMAIN sock /\ j > 1
      BY <1>5, <2>1, <2>3
    <3> QED  BY <2>1, <3>1 DEF GoneAfter
  <2> QED  BY <2>2, <2>3
<1>8. \A x : GoneAfter(sock', x, 0) => GoneAfter(sock, x, 0)
  <2>1. \A x : GoneAfter(sock, x, 1) => GoneAfter(sock, x, 0)
    BY <1>5 DEF GoneAfter
  <2> QED  BY <1>6, <2>1
<1>9. \A k \in DOMAIN sock' : \A x \in Added(sock'[k]) : x \in kernel' \/ GoneAfter(sock', x, k)
  <2> SUFFICES ASSUME NEW k \in 1 .. (n - 1), NEW x \in Added(sock[k + 1])
               PROVE  x \in kernel \/ GoneAfter(sock, x, k + 1)
    BY <1>1, <1>5
  <2>1. k + 1 \in DOMAIN sock
    BY <1>5
  <2> QED  BY <2>1 DEF NetworksInv, TakenBack
<1>10. NoneGone(sock) => NoneGone(sock')
  BY <1>8 DEF NoneGone
<1>11. SUFFICES /\ Kept(t)
                /\ \A m \in DOMAIN networks' :
                      <<m, networks'[m]>> \in kernel' \/ GoneAfter(sock', <<m, networks'[m]>>, 0)
                /\ changes <= 1 => \A x \in kernel : x[1] \in Wifi =>
                      x[1] \in DOMAIN networks' \/ \E k \in DOMAIN sock' : x \in Added(sock'[k])
  <2>1. networks' = t.networks /\ alarm' = t.alarm
    BY <1>3
  <2> HIDE DEF t
  <2>2. NetworksTypeOK' /\ HeartbeatsGoOn'
    BY <1>1, <1>2, <1>11, <2>1 DEF NetworksTypeOK, HeartbeatsGoOn, Kept
  <2>3. SocketTypes'
    BY <1>1, <1>5, <2>2 DEF NetworksInv, SocketTypes
  <2>4. TakenBack'
    BY <1>9, <1>11 DEF TakenBack
  <2>5. Found'
    BY <1>1, <1>10, <1>11 DEF NetworksInv, Found
  <2> QED  BY <2>2, <2>3, <2>4, <2>5 DEF NetworksInv
<1>12. networks' = t.networks
  BY <1>3
<1>13. CASE \E x \in Address : d = <<RTM_DELADDR(x)>>
  <2>1. PICK x \in Address : d = <<RTM_DELADDR(x)>>
    BY <1>13
  <2>2. t = Handle(s, RTM_DELADDR(x))
    <3>1. Len(d) = 1 /\ d[1] = RTM_DELADDR(x)
      BY <2>1
    <3>2. f = [i \in 0 .. 1 |-> IF i = 0 THEN s ELSE Handle(f[i - 1], d[i])]
      BY <1>3, <3>1 DEF Reads
    <3>3. f[0] = s
      BY <3>2
    <3>4. f[1] = Handle(f[0], d[1])
      <4>1. 1 \in 0 .. 1 /\ 1 # 0 /\ 1 - 1 = 0
        OBVIOUS
      <4> QED  BY <3>2, <4>1
    <3> QED  BY <3>1, <3>3, <3>4
  <2> HIDE DEF t
  <2>3. /\ Kept(t) /\ DOMAIN t.networks = DOMAIN s.networks \ {x[1]}
        /\ \A m \in DOMAIN t.networks : t.networks[m] = s.networks[m]
    BY <1>4, <2>2, RemoveFacts
  <2>4. \A m, a : d = <<RTM_DELADDR(<<m, a>>)>> => m = x[1]
    <3> SUFFICES ASSUME NEW m, NEW a, <<RTM_DELADDR(<<m, a>>)>> = <<RTM_DELADDR(x)>> PROVE m = x[1]
      BY <2>1
    <3>1. RTM_DELADDR(<<m, a>>).name = RTM_DELADDR(x).name
      OBVIOUS
    <3> QED  BY <3>1 DEF RTM_DELADDR
  <2>5. ASSUME NEW m \in DOMAIN networks'
        PROVE  <<m, networks'[m]>> \in kernel' \/ GoneAfter(sock', <<m, networks'[m]>>, 0)
    <3>1. m \in DOMAIN networks /\ networks'[m] = networks[m] /\ m # x[1]
      BY <1>4, <1>12, <2>3
    <3>2. <<m, networks[m]>> \in kernel \/ GoneAfter(sock, <<m, networks[m]>>, 0)
      BY <3>1 DEF NetworksInv, TakenBack
    <3> QED  BY <1>1, <1>7, <2>4, <3>1, <3>2
  <2>6. ~NoneGone(sock)
    <3>1. 1 \in DOMAIN sock /\ 1 > 0 /\ sock[1] = <<RTM_DELADDR(x)>>
      BY <1>5, <2>1
    <3> QED  BY <3>1 DEF NoneGone, GoneAfter
  <2>7. changes <= 1 => kernel = {}
    BY <2>6 DEF NetworksInv, Found
  <2> QED  BY <2>3, <2>5, <2>7
<1>14. CASE d \in Seq(News)
  <2>1. /\ Kept(t) /\ DOMAIN s.networks \subseteq DOMAIN t.networks
        /\ \A x \in Added(d) : x[1] \in Wifi => x[1] \in DOMAIN t.networks
        /\ \A m \in DOMAIN t.networks :
              \/ <<m, t.networks[m]>> \in Added(d)
              \/ m \in DOMAIN s.networks /\ t.networks[m] = s.networks[m]
    BY <1>3, <1>4, <1>14, NewsFacts
  <2> HIDE DEF t
  <2>2. ASSUME NEW m \in DOMAIN networks'
        PROVE  <<m, networks'[m]>> \in kernel' \/ GoneAfter(sock', <<m, networks'[m]>>, 0)
    <3>1. CASE <<m, networks'[m]>> \in Added(d)
      <4>1. 1 \in DOMAIN sock /\ <<m, networks'[m]>> \in Added(sock[1])
        BY <1>5, <3>1
      <4>2. <<m, networks'[m]>> \in kernel \/ GoneAfter(sock, <<m, networks'[m]>>, 1)
        BY <4>1 DEF NetworksInv, TakenBack
      <4> QED  BY <1>1, <1>6, <4>2
    <3>2. CASE m \in DOMAIN networks /\ networks'[m] = networks[m]
      <4>1. <<m, networks[m]>> \in kernel \/ GoneAfter(sock, <<m, networks[m]>>, 0)
        BY <3>2 DEF NetworksInv, TakenBack
      <4>2. d # <<RTM_DELADDR(<<m, networks[m]>>)>>
        BY <1>14, NewsOnly
      <4> QED  BY <1>1, <1>7, <3>2, <4>1, <4>2
    <3> QED  BY <1>4, <1>12, <2>1, <3>1, <3>2
  <2>3. ASSUME changes <= 1, NEW x \in kernel, x[1] \in Wifi
        PROVE  x[1] \in DOMAIN networks' \/ \E k \in DOMAIN sock' : x \in Added(sock'[k])
    <3>1. x[1] \in DOMAIN networks \/ \E k \in DOMAIN sock : x \in Added(sock[k])
      BY <1>1, <2>3 DEF NetworksInv, Found
    <3>2. ASSUME NEW k \in DOMAIN sock, x \in Added(sock[k])
          PROVE  x[1] \in DOMAIN networks' \/ \E j \in DOMAIN sock' : x \in Added(sock'[j])
      <4>1. CASE k = 1
        BY <1>5, <1>12, <2>1, <2>3, <3>2, <4>1
      <4>2. CASE k # 1
        <5>1. k - 1 \in 1 .. (n - 1) /\ (k - 1) + 1 = k
          BY <1>5, <4>2
        <5>2. sock'[k - 1] = sock[k] /\ k - 1 \in DOMAIN sock'
          BY <1>5, <5>1
        <5> QED  BY <3>2, <5>2
      <4> QED  BY <4>1, <4>2
    <3> QED  BY <1>4, <1>12, <2>1, <3>1, <3>2
  <2> QED  BY <2>1, <2>2, <2>3
<1> QED  BY <1>5, <1>13, <1>14 DEF Datagram

(* A heartbeat.                                                             *)
LEMMA HeartbeatStep ==
    ASSUME NetworksInv, onAlarm
    PROVE  NetworksInv'
<1>1. /\ kernel' = kernel /\ changes' = changes /\ networks' = networks
      /\ sock' = sock /\ pc' = pc
  BY DEF onAlarm
<1>2. alarm' \in BOOLEAN /\ reached' \subseteq Wifi /\ HeartbeatsGoOn'
  <2>1. DOMAIN networks \subseteq Wifi /\ reached \subseteq Wifi
    BY DEF NetworksInv, SocketTypes, NetworksTypeOK
  <2>2. CASE DOMAIN networks = {}
    BY <1>1, <2>1, <2>2 DEF onAlarm, HeartbeatsGoOn
  <2>3. CASE DOMAIN networks # {}
    <3>1. alarm' = TRUE
      BY <2>3 DEF onAlarm
    <3>2. PICK first \in DOMAIN networks : reached' = {first}
      BY <2>3 DEF onAlarm
    <3> QED  BY <2>1, <3>1, <3>2 DEF HeartbeatsGoOn
  <2> QED  BY <2>2, <2>3
<1>3. NetworksTypeOK'
  BY <1>1, <1>2 DEF NetworksInv, SocketTypes, NetworksTypeOK
<1>4. SocketTypes'
  BY <1>1, <1>3 DEF NetworksInv, SocketTypes
<1>5. TakenBack' /\ Found'
  BY <1>1 DEF NetworksInv, TakenBack, Found
<1> QED  BY <1>2, <1>4, <1>5 DEF NetworksInv

(* InterfacesRight is an invariant, for any labels and addresses and any    *)
(* number of changes: when jni_networks_poll has read everything, every     *)
(* address that Networks.java uses is one of the kernel, and heartbeats go  *)
(* on while there is one.                                                   *)
THEOREM InterfacesStayRight ==
    ASSUME NetworksAssumption
    PROVE  NetworksSpec => []InterfacesRight
<1>1. NetworksInit => NetworksInv
  BY InterfacesStart
<1>2. NetworksInv /\ [NetworksNext]_networkVars => NetworksInv'
  <2> SUFFICES ASSUME NetworksInv, [NetworksNext]_networkVars PROVE NetworksInv'
    OBVIOUS
  <2>1. CASE \E x \in Address : AddAddress(x) \/ DelAddress(x)
    BY <2>1, AddStep, DelStep
  <2>2. CASE netlink_socket
    BY <2>2, OpenStep
  <2>3. CASE request_addresses
    BY <2>3, RequestStep
  <2>4. CASE read_addresses
    BY <2>4, ReadStep
  <2>5. CASE onAlarm
    BY <2>5, HeartbeatStep
  <2>6. CASE UNCHANGED networkVars
    BY <2>6 DEF networkVars, NetworksInv, SocketTypes, NetworksTypeOK, TakenBack, Found, HeartbeatsGoOn
  <2> QED  BY <2>1, <2>2, <2>3, <2>4, <2>5, <2>6 DEF NetworksNext
<1>3. NetworksInv => InterfacesRight
  <2> SUFFICES ASSUME NetworksInv PROVE InterfacesRight
    OBVIOUS
  <2>1. sock = << >> => DOMAIN sock = {}
    OBVIOUS
  <2>2. NeverStale
    BY <2>1 DEF NetworksInv, TakenBack, GoneAfter, NeverStale, UpToDate
  <2>3. LoneFound
    <3> SUFFICES ASSUME UpToDate, changes <= 1, NEW n \in Wifi, NEW a \in Addrs, <<n, a>> \in kernel
                 PROVE  n \in DOMAIN networks
      BY DEF LoneFound
    <3>1. <<n, a>>[1] = n
      OBVIOUS
    <3> QED  BY <2>1, <3>1 DEF NetworksInv, Found, UpToDate
  <2> QED  BY <2>2, <2>3 DEF NetworksInv, SocketTypes, InterfacesRight
<1> QED  BY <1>1, <1>2, <1>3, PTL DEF NetworksSpec
=============================================================================
