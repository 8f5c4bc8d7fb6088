----------------------- MODULE TelemetryGateway_proofs -----------------------
(***************************************************************************)
(* Proofs about the two gateways of the telemetry service: FocusRelay, for *)
(* all sets of drones and of sockets, and OwnerCache, for all sets of      *)
(* users, of claims and of queries under way.                              *)
(*                                                                         *)
(* What FocusRelay promises is about quiet moments, and says nothing while *)
(* commands wait for Redis.  Its invariant is therefore about what the set *)
(* is going to be when they are answered: the last command that waits      *)
(* about a drone decides, and the set where there is none.  A command that *)
(* is sent decides for its drone, and one that is answered decides nothing *)
(* any more.                                                               *)
(*                                                                         *)
(* That only the owner is served says nothing of what is still on its way: *)
(* an old read that a claim or a query holds could name somebody else.     *)
(* What has to be kept is that everything ever read is nobody or the owner *)
(* of now.                                                                 *)
(***************************************************************************)
EXTENDS FocusRelay, OwnerCache, TLAPS, SequenceTheorems, FiniteSetTheorems

-----------------------------------------------------------------------------
(* Commands that wait for Redis *)

\* What a set of Redis will say of drone d when the commands cmds are executed:
\* the last one about d decides, op being the one that adds, and the set as it
\* is when there is none.
LastIs(cmds, d, op) ==
  \E i \in 1 .. Len(cmds) :
    /\ cmds[i].drone = d /\ cmds[i].op = op
    /\ \A j \in 1 .. Len(cmds) : j > i => cmds[j].drone # d
NoneFor(cmds, d) == \A i \in 1 .. Len(cmds) : cmds[i].drone # d
WillHave(cmds, d, op, set) == LastIs(cmds, d, op) \/ (NoneFor(cmds, d) /\ d \in set)

\* With no command under way the set is what it will be.
LEMMA NothingPending ==
  ASSUME NEW d, NEW op, NEW set
  PROVE  WillHave(<<>>, d, op, set) <=> d \in set
BY DEF WillHave, LastIs, NoneFor

\* A command about d decides, one about another drone leaves d alone.
LEMMA SendDecides ==
  ASSUME NEW C, NEW cmds \in Seq(C), NEW c \in C, NEW d, NEW op, NEW set
  PROVE  WillHave(Append(cmds, c), d, op, set)
           <=> IF c.drone = d THEN c.op = op ELSE WillHave(cmds, d, op, set)
<1> DEFINE more == Append(cmds, c)
           n == Len(cmds)
<1>1. /\ n \in Nat /\ Len(more) = n + 1
      /\ \A i \in 1 .. n : more[i] = cmds[i]
      /\ more[n + 1] = c
  BY AppendProperties, LenProperties
<1> HIDE DEF more, n
<1>2. CASE c.drone = d
  <2>1. ~NoneFor(more, d) BY <1>1, <1>2 DEF NoneFor
  <2>2. LastIs(more, d, op) <=> c.op = op
    <3>1. ASSUME NEW i \in 1 .. Len(more), more[i].drone = d,
                 \A j \in 1 .. Len(more) : j > i => more[j].drone # d
          PROVE  i = n + 1
      BY <1>1, <1>2, <3>1
    <3>2. QED BY <1>1, <1>2, <3>1 DEF LastIs
  <2>3. QED BY <1>2, <2>1, <2>2 DEF WillHave, more
<1>3. CASE c.drone # d
  <2>1. NoneFor(more, d) <=> NoneFor(cmds, d) BY <1>1, <1>3 DEF NoneFor, n
  <2>2. LastIs(more, d, op) <=> LastIs(cmds, d, op)
    <3>1. ASSUME LastIs(more, d, op) PROVE LastIs(cmds, d, op)
      <4>1. PICK i \in 1 .. n + 1 :
              /\ more[i].drone = d /\ more[i].op = op
              /\ \A j \in 1 .. n + 1 : j > i => more[j].drone # d
        BY <1>1, <3>1 DEF LastIs
      <4>2. i \in 1 .. n BY <1>1, <1>3, <4>1
      <4>3. cmds[i].drone = d /\ cmds[i].op = op BY <1>1, <4>1, <4>2
      <4>4. \A j \in 1 .. n : j > i => cmds[j].drone # d BY <1>1, <4>1
      <4>5. QED BY <4>2, <4>3, <4>4 DEF LastIs, n
    <3>2. ASSUME LastIs(cmds, d, op) PROVE LastIs(more, d, op)
      <4>1. PICK i \in 1 .. n :
              /\ cmds[i].drone = d /\ cmds[i].op = op
              /\ \A j \in 1 .. n : j > i => cmds[j].drone # d
        BY <3>2 DEF LastIs, n
      <4>2. \A j \in 1 .. n + 1 : j > i => more[j].drone # d
        <5>1. ASSUME NEW j \in 1 .. n + 1, j > i PROVE more[j].drone # d
          <6>1. j \in 1 .. n \/ j = n + 1 BY <1>1
          <6>2. QED BY <1>1, <1>3, <4>1, <5>1, <6>1
        <5>2. QED BY <5>1
      <4>3. i \in 1 .. n + 1 /\ more[i].drone = d /\ more[i].op = op
        BY <1>1, <4>1
      <4>4. QED BY <1>1, <4>2, <4>3 DEF LastIs
    <3>3. QED BY <3>1, <3>2
  <2>3. QED BY <1>3, <2>1, <2>2 DEF WillHave, more
<1>4. QED BY <1>2, <1>3

\* Executing the first command changes nothing of what the set will be.
LEMMA ReplyDecidesNothing ==
  ASSUME NEW C, NEW cmds \in Seq(C), cmds # <<>>, NEW d, NEW op, NEW set, NEW set2,
         set2 = IF Head(cmds).op = op THEN set \cup {Head(cmds).drone}
                                      ELSE set \ {Head(cmds).drone}
  PROVE  WillHave(Tail(cmds), d, op, set2) <=> WillHave(cmds, d, op, set)
<1> DEFINE rest == Tail(cmds)
           c == Head(cmds)
           n == Len(cmds)
<1>1. /\ n \in Nat \ {0} /\ Len(rest) = n - 1
      /\ \A i \in 1 .. n - 1 : rest[i] = cmds[i + 1]
      /\ cmds[1] = c
  <2>1. n \in Nat \ {0} BY EmptySeq
  <2>2. QED BY <2>1, HeadTailProperties
<1> HIDE DEF rest, c, n
<1>2. \A i \in 2 .. n : i - 1 \in 1 .. n - 1 /\ cmds[i] = rest[i - 1]
  <2>1. ASSUME NEW i \in 2 .. n PROVE i - 1 \in 1 .. n - 1 /\ cmds[i] = rest[i - 1]
    <3>1. i - 1 \in 1 .. n - 1 /\ (i - 1) + 1 = i BY <1>1
    <3>2. QED BY <1>1, <3>1
  <2>2. QED BY <2>1
<1>3. NoneFor(cmds, d) <=> c.drone # d /\ NoneFor(rest, d)
  <2>1. ASSUME NoneFor(cmds, d) PROVE c.drone # d /\ NoneFor(rest, d)
    <3>1. 1 \in 1 .. n BY <1>1
    <3>2. \A i \in 1 .. n - 1 : i + 1 \in 1 .. n BY <1>1
    <3>3. QED BY <1>1, <2>1, <3>1, <3>2 DEF NoneFor, n
  <2>2. ASSUME c.drone # d, NoneFor(rest, d) PROVE NoneFor(cmds, d)
    <3>1. \A i \in 1 .. n : i = 1 \/ i \in 2 .. n BY <1>1
    <3>2. QED BY <1>1, <1>2, <2>2, <3>1 DEF NoneFor, n
  <2>3. QED BY <2>1, <2>2
<1>4. LastIs(cmds, d, op)
        <=> LastIs(rest, d, op) \/ (NoneFor(rest, d) /\ c.drone = d /\ c.op = op)
  <2>1. ASSUME LastIs(cmds, d, op), ~LastIs(rest, d, op)
        PROVE  NoneFor(rest, d) /\ c.drone = d /\ c.op = op
    <3>1. PICK i \in 1 .. n :
            /\ cmds[i].drone = d /\ cmds[i].op = op
            /\ \A j \in 1 .. n : j > i => cmds[j].drone # d
      BY <2>1 DEF LastIs, n
    <3>2. i = 1
      <4>1. SUFFICES ASSUME i \in 2 .. n PROVE FALSE BY <1>1
      <4>2. \A j \in 1 .. n - 1 : j > i - 1 => rest[j].drone # d
        <5>1. ASSUME NEW j \in 1 .. n - 1, j > i - 1 PROVE rest[j].drone # d
          <6>1. j + 1 \in 1 .. n /\ j + 1 > i BY <1>1, <5>1
          <6>2. QED BY <1>1, <3>1, <6>1
        <5>2. QED BY <5>1
      <4>3. rest[i - 1].drone = d /\ rest[i - 1].op = op /\ i - 1 \in 1 .. n - 1
        BY <1>2, <3>1, <4>1
      <4>4. QED BY <1>1, <2>1, <4>2, <4>3 DEF LastIs
    <3>3. c.drone = d /\ c.op = op BY <1>1, <3>1, <3>2
    <3>4. ASSUME NEW j \in 1 .. n - 1 PROVE rest[j].drone # d
      <4>1. j + 1 \in 1 .. n /\ j + 1 > 1 BY <1>1
      <4>2. QED BY <1>1, <3>1, <3>2, <4>1
    <3>5. QED BY <1>1, <3>3, <3>4 DEF NoneFor
  <2>2. ASSUME LastIs(rest, d, op) PROVE LastIs(cmds, d, op)
    <3>1. PICK i \in 1 .. n - 1 :
            /\ rest[i].drone = d /\ rest[i].op = op
            /\ \A j \in 1 .. n - 1 : j > i => rest[j].drone # d
      BY <1>1, <2>2 DEF LastIs
    <3>2. ASSUME NEW j \in 1 .. n, j > i + 1 PROVE cmds[j].drone # d
      <4>1. j \in 2 .. n /\ j - 1 > i BY <1>1, <3>2
      <4>2. QED BY <1>2, <3>1, <4>1
    <3>3. i + 1 \in 1 .. n /\ cmds[i + 1] = rest[i] BY <1>1
    <3>4. QED BY <3>1, <3>2, <3>3 DEF LastIs, n
  <2>3. ASSUME NoneFor(rest, d), c.drone = d, c.op = op PROVE LastIs(cmds, d, op)
    <3>1. ASSUME NEW j \in 1 .. n, j > 1 PROVE cmds[j].drone # d
      <4>1. j \in 2 .. n BY <1>1, <3>1
      <4>2. QED BY <1>1, <1>2, <2>3, <4>1 DEF NoneFor
    <3>2. 1 \in 1 .. n BY <1>1
    <3>3. QED BY <1>1, <2>3, <3>1, <3>2 DEF LastIs, n
  <2>4. QED BY <2>1, <2>2, <2>3
<1>5. d \in set2 <=> IF c.drone = d THEN c.op = op ELSE d \in set
  BY DEF c
<1>6. QED BY <1>3, <1>4, <1>5 DEF WillHave, rest

-----------------------------------------------------------------------------
(* The invariants *)

\* A loop of handleDisconnect belongs to a closed socket, and a socket that has
\* not come yet has asked for nothing.
SocketInv ==
  /\ \A w \in Watchers : Looping(w) => sock[w] = "closed"
  /\ \A p \in Pilots : sock[p] = "new" => asked[p] = NoDrone /\ drone[p] = NoDrone

\* Dashboards are counted only on drones that they opened, and a room's
\* members have the drone among their focused ones, which the loop of
\* handleDisconnect goes through; so is a drone that a closed socket asked for.
RoomInv ==
  /\ checking \subseteq Opens
  /\ \A w \in Watchers, d \in Drones : d \in focused[w] \cup left[w] => <<w, d>> \in Opens
  /\ \A d \in Drones : \A w \in rooms[d] : d \in focused[w]
  /\ orphaned \subseteq Watchable

\* The focus that the commands under way lead to.
InFocus(d) == WillHave(focusCmds, d, "sadd", focusSet)

\* Who counts on drone d: a dashboard in its room, a pilot on the relay, a loop
\* of handleDisconnect that has not met it, or a closed socket that asked late.
Counted(d) ==
  \/ rooms[d] # {}
  \/ clients[d] # {}
  \/ \E w \in Watchers : d \in left[w]
  \/ d \in orphaned

FocusInv ==
  faults = 0 =>
    /\ \A d \in Drones : InFocus(d) => Counted(d)
    /\ \A d \in Drones \ Watchable : clients[d] # {} => InFocus(d)

\* The subscription that the commands under way lead to; the callbacks keep the
\* marks equal to what Redis sends.
IsSent(d) == WillHave(subCmds, d, "subscribe", redisSubs)

SubInv ==
  /\ rawSubs = redisSubs
  /\ faults = 0 => \A d \in Prompt : IsSent(d) <=> clients[d] # {}

RelayInv == TypeOK /\ SocketInv /\ RoomInv /\ FocusInv /\ SubInv

LEMMA InitRelay == Init => RelayInv
<1> SUFFICES ASSUME Init PROVE RelayInv OBVIOUS
<1>1. TypeOK
  <2>1. 0 \in 0 .. MaxFaults BY FocusRelayAssumption
  <2>2. <<>> \in Seq(FocusCommand) /\ <<>> \in Seq(SubCommand) BY EmptySeq
  <2>3. QED BY <2>1, <2>2 DEF Init, TypeOK
<1>2. SocketInv BY DEF Init, SocketInv, Looping
<1>3. RoomInv BY DEF Init, RoomInv
<1>4. \A d \in Drones : InFocus(d) <=> d \in focusSet
  BY NothingPending DEF Init, InFocus
<1>5. FocusInv BY <1>4 DEF Init, FocusInv, Counted
<1>6. SubInv
  <2>1. \A d \in Prompt : IsSent(d) <=> d \in redisSubs BY NothingPending DEF Init, IsSent
  <2>2. QED BY <2>1, FocusRelayAssumption DEF Init, SubInv
<1>7. QED BY <1>1, <1>2, <1>3, <1>5, <1>6 DEF RelayInv

\* Sending a command to the focus set: what it becomes, and whose loop waits.
LEMMA SendFocusDecides ==
  ASSUME TypeOK, NEW op \in {"sadd", "srem"}, NEW d \in Drones,
         NEW s \in Watchers \cup {NoSocket}, SendFocus(op, d, s)
  PROVE  /\ focusCmds' \in Seq(FocusCommand)
         /\ UNCHANGED focusSet =>
              \A e \in Drones : InFocus(e)' <=> IF e = d THEN op = "sadd" ELSE InFocus(e)
         /\ \A i \in 1 .. Len(focusCmds') :
              \/ focusCmds'[i].loop = s
              \/ i \in 1 .. Len(focusCmds) /\ focusCmds'[i] = focusCmds[i]
<1> DEFINE c == [op |-> op, drone |-> d, loop |-> s]
<1>1. c \in FocusCommand /\ focusCmds \in Seq(FocusCommand) BY DEF FocusCommand, TypeOK
<1>2. focusCmds' = Append(focusCmds, c) BY DEF SendFocus
<1>3. c.drone = d /\ c.op = op /\ c.loop = s OBVIOUS
<1> HIDE DEF c
<1>4. focusCmds' \in Seq(FocusCommand) BY <1>1, <1>2, AppendProperties
<1>5. ASSUME UNCHANGED focusSet, NEW e \in Drones
      PROVE  InFocus(e)' <=> IF e = d THEN op = "sadd" ELSE InFocus(e)
  <2>1. InFocus(e)' <=> WillHave(Append(focusCmds, c), e, "sadd", focusSet)
    BY <1>2, <1>5 DEF InFocus, WillHave, LastIs, NoneFor
  <2>2. WillHave(Append(focusCmds, c), e, "sadd", focusSet)
          <=> IF c.drone = e THEN c.op = "sadd" ELSE WillHave(focusCmds, e, "sadd", focusSet)
    BY <1>1, SendDecides
  <2>3. QED BY <1>3, <2>1, <2>2 DEF InFocus
<1>6. \A i \in 1 .. Len(focusCmds') :
        \/ focusCmds'[i].loop = s
        \/ i \in 1 .. Len(focusCmds) /\ focusCmds'[i] = focusCmds[i]
  <2>1. /\ Len(focusCmds') = Len(focusCmds) + 1 /\ Len(focusCmds) \in Nat
        /\ \A i \in 1 .. Len(focusCmds) : focusCmds'[i] = focusCmds[i]
        /\ focusCmds'[Len(focusCmds) + 1] = c
    BY <1>1, <1>2, AppendProperties, LenProperties
  <2>2. \A i \in 1 .. Len(focusCmds') : i \in 1 .. Len(focusCmds) \/ i = Len(focusCmds) + 1
    BY <2>1
  <2>3. QED BY <1>3, <2>1, <2>2
<1>7. QED BY <1>4, <1>5, <1>6

\* Sending a subscription or its end.
LEMMA SendSubDecides ==
  ASSUME TypeOK, NEW op \in {"subscribe", "unsubscribe"}, NEW d \in Drones, SendSub(op, d),
         UNCHANGED redisSubs
  PROVE  /\ subCmds' \in Seq(SubCommand)
         /\ \A e \in Drones : IsSent(e)' <=> IF e = d THEN op = "subscribe" ELSE IsSent(e)
<1> DEFINE c == [op |-> op, drone |-> d]
<1>1. c \in SubCommand /\ subCmds \in Seq(SubCommand) BY DEF SubCommand, TypeOK
<1>2. subCmds' = Append(subCmds, c) BY DEF SendSub
<1>3. c.drone = d /\ c.op = op OBVIOUS
<1> HIDE DEF c
<1>4. subCmds' \in Seq(SubCommand) BY <1>1, <1>2, AppendProperties
<1>5. ASSUME NEW e \in Drones
      PROVE  IsSent(e)' <=> IF e = d THEN op = "subscribe" ELSE IsSent(e)
  <2>1. IsSent(e)' <=> WillHave(Append(subCmds, c), e, "subscribe", redisSubs)
    BY <1>2 DEF IsSent, WillHave, LastIs, NoneFor
  <2>2. WillHave(Append(subCmds, c), e, "subscribe", redisSubs)
          <=> IF c.drone = e THEN c.op = "subscribe"
                             ELSE WillHave(subCmds, e, "subscribe", redisSubs)
    BY <1>1, SendDecides
  <2>3. QED BY <1>3, <2>1, <2>2 DEF IsSent
<1>6. QED BY <1>4, <1>5

\* Taking a drone out of the focus: nobody is left to answer for it.
LEMMA TakeOutDecides ==
  ASSUME TypeOK, NEW d \in Drones, NEW s \in Watchers \cup {NoSocket}, TakeOut(d, s)
  PROVE  /\ focusCmds' \in Seq(FocusCommand)
         /\ orphaned' = orphaned \ {d}
         /\ UNCHANGED focusSet =>
              \A e \in Drones : InFocus(e)' <=> IF e = d THEN FALSE ELSE InFocus(e)
         /\ \A i \in 1 .. Len(focusCmds') :
              \/ focusCmds'[i].loop = s
              \/ i \in 1 .. Len(focusCmds) /\ focusCmds'[i] = focusCmds[i]
<1>1. SendFocus("srem", d, s) /\ orphaned' = orphaned \ {d} BY DEF TakeOut
<1>2. QED BY <1>1, SendFocusDecides

\* Where nothing about drones, commands and Redis changes, neither does what
\* is going to be in the focus, nor what is going to be sent.
LEMMA FocusUntouched ==
  ASSUME UNCHANGED <<focusCmds, focusSet>>
  PROVE  \A d \in Drones : InFocus(d)' <=> InFocus(d)
BY DEF InFocus, WillHave, LastIs, NoneFor

LEMMA SentUntouched ==
  ASSUME UNCHANGED <<subCmds, redisSubs>>
  PROVE  \A d \in Drones : IsSent(d)' <=> IsSent(d)
BY DEF IsSent, WillHave, LastIs, NoneFor

LEMMA SubInvUntouched ==
  ASSUME SubInv, UNCHANGED <<subCmds, redisSubs, rawSubs, clients, faults>>
  PROVE  SubInv'
BY SentUntouched, FocusRelayAssumption DEF SubInv

\* Dashboards bring no drone that they did not open into the focus.
LEMMA UnwatchedHasNoRoom ==
  ASSUME TypeOK, RoomInv, NEW d \in Drones \ Watchable
  PROVE  rooms[d] = {} /\ d \notin orphaned /\ \A w \in Watchers : d \notin left[w] /\ d \notin focused[w]
BY DEF TypeOK, RoomInv, Watchable

-----------------------------------------------------------------------------
(* The steps of the dashboards *)

LEMMA WatcherConnectsKeeps ==
  ASSUME RelayInv, NEW w \in Watchers, WatcherConnects(w)
  PROVE  RelayInv'
<1> USE DEF RelayInv, watcherVars, pilotVars, redisVars
<1>1. TypeOK' BY DEF WatcherConnects, TypeOK, Sockets
<1>2. SocketInv'
  BY FocusRelayAssumption DEF WatcherConnects, SocketInv, Looping, TypeOK, Sockets
<1>3. RoomInv' BY DEF WatcherConnects, RoomInv
<1>4. FocusInv' BY FocusUntouched DEF WatcherConnects, FocusInv, Counted
<1>5. SubInv' BY SubInvUntouched DEF WatcherConnects
<1>6. QED BY <1>1, <1>2, <1>3, <1>4, <1>5

\* Joining a room: the drone goes into the focus and has somebody in its room.
LEMMA JoinRoomKeeps ==
  ASSUME RelayInv, NEW w \in Watchers, NEW d \in Drones, <<w, d>> \in Opens, JoinRoom(w, d),
         checking' \subseteq checking \cup {<<w, d>>},
         UNCHANGED <<sock, pilotVars, subCmds, redisVars>>
  PROVE  RelayInv'
<1> USE DEF RelayInv, pilotVars, redisVars
<1>0. /\ focusCmds' \in Seq(FocusCommand)
      /\ \A e \in Drones : InFocus(e)' <=> IF e = d THEN TRUE ELSE InFocus(e)
      /\ \A i \in 1 .. Len(focusCmds') :
           \/ focusCmds'[i].loop = NoSocket
           \/ i \in 1 .. Len(focusCmds) /\ focusCmds'[i] = focusCmds[i]
  BY SendFocusDecides DEF JoinRoom
<1> DEFINE met == IF Looping(w) THEN {d} \ focused[w] ELSE {}
<1>1. /\ rooms' = IF sock[w] = "open" THEN [rooms EXCEPT ![d] = @ \cup {w}] ELSE rooms
      /\ focused' = [focused EXCEPT ![w] = @ \cup {d}]
      /\ left' = [left EXCEPT ![w] = @ \cup met]
      /\ orphaned' = IF sock[w] = "open" \/ met # {} THEN orphaned ELSE orphaned \cup {d}
  BY DEF JoinRoom
<1>2. \A v \in Watchers : Looping(v)' => Looping(v)
  <2>1. NoSocket \notin Watchers BY FocusRelayAssumption DEF Sockets
  <2>2. QED BY <1>0, <1>1, <2>1 DEF Looping, TypeOK
<1>3. TypeOK'
  <2>1. checking' \subseteq Watchers \X Drones BY DEF TypeOK
  <2>2. left' \in [Watchers -> SUBSET Drones] BY <1>1 DEF TypeOK
  <2>3. \A v \in Watchers : left'[v] # {} => sock'[v] = "closed"
    BY <1>2 DEF Looping, SocketInv
  <2>4. QED BY <1>0, <1>1, <2>1, <2>2, <2>3 DEF TypeOK
<1>4. SocketInv' BY <1>2 DEF SocketInv
<1>5. RoomInv'
  <2>1. \A v \in Watchers, e \in Drones :
          e \in focused'[v] \cup left'[v] => e \in focused[v] \cup left[v] \/ (v = w /\ e = d)
    BY <1>1 DEF TypeOK
  <2>2. \A e \in Drones : \A v \in rooms'[e] : e \in focused'[v]
    BY <1>1 DEF TypeOK, RoomInv
  <2>3. orphaned' \subseteq Watchable
    <3>1. d \in Watchable BY DEF Watchable
    <3>2. orphaned \subseteq Watchable BY DEF RoomInv
    <3>3. QED BY <1>1, <3>1, <3>2
  <2>4. QED BY <2>1, <2>2, <2>3 DEF RoomInv
<1>6. FocusInv'
  <2>1. d \in Watchable BY DEF Watchable
  <2>2. \A e \in Drones : Counted(e) => Counted(e)'
    <3>1. \A e \in Drones : rooms[e] \subseteq rooms'[e] BY <1>1 DEF TypeOK
    <3>2. \A v \in Watchers : left[v] \subseteq left'[v] BY <1>1 DEF TypeOK
    <3>3. orphaned \subseteq orphaned' BY <1>1
    <3>4. QED BY <1>0, <3>1, <3>2, <3>3 DEF Counted
  <2>3. Counted(d)'
    <3>1. CASE sock[w] = "open" BY <1>1, <3>1 DEF Counted, TypeOK
    <3>2. CASE met # {}
      <4>1. d \in left'[w] BY <1>1, <3>2 DEF TypeOK
      <4>2. QED BY <4>1 DEF Counted
    <3>3. CASE ~(sock[w] = "open" \/ met # {}) BY <1>1, <3>3 DEF Counted
    <3>4. QED BY <3>1, <3>2, <3>3
  <2>4. QED BY <1>0, <2>1, <2>2, <2>3 DEF FocusInv
<1>7. SubInv' BY SubInvUntouched
<1>8. QED BY <1>3, <1>4, <1>5, <1>6, <1>7

LEMMA SubscribeKeeps ==
  ASSUME RelayInv, NEW w \in Watchers, NEW d \in Drones,
         \/ <<w, d>> \in Opens /\ Subscribe(w, d)
         \/ SubscribeChecked(w, d) \/ SubscribeRefused(w, d)
  PROVE  RelayInv'
<1> USE DEF pilotVars, redisVars
<1>1. CASE <<w, d>> \in Opens /\ Subscribe(w, d) /\ JoinRoom(w, d) /\ UNCHANGED checking
  BY <1>1, JoinRoomKeeps DEF Subscribe
<1>2. CASE SubscribeChecked(w, d)
  <2>1. <<w, d>> \in Opens BY <1>2 DEF SubscribeChecked, RelayInv, RoomInv
  <2>2. checking' \subseteq checking \cup {<<w, d>>} BY <1>2 DEF SubscribeChecked
  <2>3. QED BY <1>2, <2>1, <2>2, JoinRoomKeeps DEF SubscribeChecked
<1>3. CASE /\ checking' \subseteq checking \cup ({<<w, d>>} \cap Opens)
           /\ UNCHANGED <<sock, rooms, focused, left, pilotVars, focusCmds, subCmds, orphaned, redisVars>>
  <2>1. TypeOK' BY <1>3 DEF RelayInv, TypeOK
  <2>2. SocketInv' BY <1>3 DEF RelayInv, SocketInv, Looping
  <2>3. RoomInv' BY <1>3 DEF RelayInv, RoomInv
  <2>4. FocusInv' BY <1>3, FocusUntouched DEF RelayInv, FocusInv, Counted
  <2>5. SubInv' BY <1>3, SubInvUntouched DEF RelayInv
  <2>6. QED BY <2>1, <2>2, <2>3, <2>4, <2>5 DEF RelayInv
<1>4. QED BY <1>1, <1>2, <1>3 DEF Subscribe, SubscribeRefused

\* The last one to leave a room by hand takes the drone out of the focus.
LEMMA UnsubscribingKeeps ==
  ASSUME RelayInv, NEW w \in Watchers, NEW d \in Drones, Unsubscribe(w, d)
  PROVE  RelayInv'
<1> USE DEF RelayInv, pilotVars, redisVars
<1>1. /\ rooms' = [rooms EXCEPT ![d] = @ \ {w}]
      /\ focused' = [focused EXCEPT ![w] = @ \ {d}]
      /\ IF rooms'[d] = {} THEN TakeOut(d, NoSocket) ELSE UNCHANGED <<focusCmds, orphaned>>
      /\ UNCHANGED <<sock, checking, left, pilotVars, subCmds, redisVars>>
  BY DEF Unsubscribe
<1>2. /\ focusCmds' \in Seq(FocusCommand)
      /\ \A i \in 1 .. Len(focusCmds') :
           \/ focusCmds'[i].loop = NoSocket
           \/ i \in 1 .. Len(focusCmds) /\ focusCmds'[i] = focusCmds[i]
      /\ \A e \in Drones \ {d} : InFocus(e)' <=> InFocus(e)
      /\ InFocus(d)' => rooms'[d] # {}
      /\ orphaned' \subseteq orphaned /\ orphaned \subseteq orphaned' \cup {d}
  <2>1. CASE rooms'[d] = {} BY <1>1, <2>1, TakeOutDecides
  <2>2. CASE rooms'[d] # {} BY <1>1, <2>2, FocusUntouched DEF TypeOK
  <2>3. QED BY <2>1, <2>2
<1>3. \A v \in Watchers : Looping(v)' => Looping(v)
  <2>1. NoSocket \notin Watchers BY FocusRelayAssumption DEF Sockets
  <2>2. QED BY <1>1, <1>2, <2>1 DEF Looping
<1>4. TypeOK' BY <1>1, <1>2 DEF TypeOK
<1>5. SocketInv' BY <1>1, <1>3 DEF SocketInv
<1>6. RoomInv' BY <1>1, <1>2 DEF RoomInv, TypeOK
<1>7. FocusInv'
  <2>1. d \in Watchable
    <3>1. <<w, d>> \in Opens BY DEF Unsubscribe, RoomInv
    <3>2. QED BY <3>1 DEF Watchable
  <2>2. \A e \in Drones \ {d} : Counted(e)' <=> Counted(e)
    BY <1>1, <1>2 DEF Counted, TypeOK
  <2>3. QED BY <1>1, <1>2, <2>1, <2>2 DEF FocusInv, Counted
<1>8. SubInv' BY <1>1, SubInvUntouched
<1>9. QED BY <1>4, <1>5, <1>6, <1>7, <1>8

\* A stretch of the loop of handleDisconnect takes drones out of the focus, of
\* which nothing is forgotten that has nobody left in its room.
LEMMA SweepForgetsNothing ==
  ASSUME TypeOK, NEW w \in Watchers, NEW gone \in SUBSET Drones,
         rooms' \in [Drones -> SUBSET Watchers], Sweep(w, gone), UNCHANGED focusSet
  PROVE  /\ focusCmds' \in Seq(FocusCommand)
         /\ left' \in [Watchers -> SUBSET Drones]
         /\ left'[w] \subseteq gone
         /\ \A v \in Watchers \ {w} : left'[v] = left[v]
         /\ \A i \in 1 .. Len(focusCmds') :
              \/ focusCmds'[i].loop = w
              \/ i \in 1 .. Len(focusCmds) /\ focusCmds'[i] = focusCmds[i]
         /\ \A e \in Drones : InFocus(e)' => InFocus(e)
         /\ \A e \in Drones \ gone : InFocus(e)' <=> InFocus(e)
         /\ \A e \in gone : InFocus(e)' /\ rooms'[e] = {} => e \in left'[w]
         /\ orphaned' \subseteq orphaned
         /\ \A e \in Drones : InFocus(e)' /\ e \in orphaned => e \in orphaned'
<1> DEFINE Kept ==
            /\ focusCmds' \in Seq(FocusCommand)
            /\ left' \in [Watchers -> SUBSET Drones]
            /\ left'[w] \subseteq gone
            /\ \A v \in Watchers \ {w} : left'[v] = left[v]
            /\ \A i \in 1 .. Len(focusCmds') :
                 \/ focusCmds'[i].loop = w
                 \/ i \in 1 .. Len(focusCmds) /\ focusCmds'[i] = focusCmds[i]
            /\ \A e \in Drones : InFocus(e)' => InFocus(e)
            /\ \A e \in Drones \ gone : InFocus(e)' <=> InFocus(e)
            /\ \A e \in gone : InFocus(e)' /\ rooms'[e] = {} => e \in left'[w]
            /\ orphaned' \subseteq orphaned
            /\ \A e \in Drones : InFocus(e)' /\ e \in orphaned => e \in orphaned'
<1> SUFFICES Kept OBVIOUS
<1> DEFINE alone == {d \in gone : Cardinality(rooms'[d]) <= 1}
<1>1. \A e \in gone : rooms'[e] = {} => e \in alone
  <2>1. ASSUME NEW e \in gone, rooms'[e] = {} PROVE e \in alone
    <3>1. Cardinality(rooms'[e]) = 0 BY <2>1, FS_EmptySet, Zenon
    <3>2. Cardinality(rooms'[e]) <= 1 BY <3>1
    <3>3. QED BY <3>2
  <2>2. QED BY <2>1
<1>2. \/ /\ alone = {}
         /\ left' = [left EXCEPT ![w] = {}]
         /\ UNCHANGED <<focusCmds, orphaned>>
      \/ \E d \in alone, passed \in SUBSET (gone \ alone) :
           /\ left' = [left EXCEPT ![w] = gone \ (passed \cup {d})]
           /\ TakeOut(d, w)
  BY DEF Sweep
<1>3. alone \subseteq gone OBVIOUS
<1> HIDE DEF alone
<1>4. ASSUME alone = {}, left' = [left EXCEPT ![w] = {}], UNCHANGED <<focusCmds, orphaned>>
      PROVE  Kept
  <2>1. \A e \in Drones : InFocus(e)' <=> InFocus(e) BY <1>4, FocusUntouched
  <2>2. QED BY <1>1, <1>4, <2>1 DEF TypeOK
<1> HIDE DEF Kept
<1>5. ASSUME NEW d \in alone, NEW passed \in SUBSET (gone \ alone),
             left' = [left EXCEPT ![w] = gone \ (passed \cup {d})], TakeOut(d, w)
      PROVE  Kept
  <2>1. d \in gone /\ d \in Drones BY <1>3
  <2>2. /\ focusCmds' \in Seq(FocusCommand)
        /\ \A e \in Drones : InFocus(e)' <=> IF e = d THEN FALSE ELSE InFocus(e)
        /\ \A i \in 1 .. Len(focusCmds') :
             \/ focusCmds'[i].loop = w
             \/ i \in 1 .. Len(focusCmds) /\ focusCmds'[i] = focusCmds[i]
        /\ orphaned' = orphaned \ {d}
    BY <1>5, <2>1, TakeOutDecides
  <2>3. /\ left' \in [Watchers -> SUBSET Drones]
        /\ left'[w] = gone \ (passed \cup {d})
        /\ \A v \in Watchers \ {w} : left'[v] = left[v]
    BY <1>5 DEF TypeOK
  <2>4. \A e \in gone : InFocus(e)' /\ rooms'[e] = {} => e \in left'[w]
    BY <1>1, <2>2, <2>3
  <2>5. \A e \in Drones : InFocus(e)' => InFocus(e) BY <2>2
  <2>6. \A e \in Drones \ gone : InFocus(e)' <=> InFocus(e) BY <2>1, <2>2
  <2>7. left'[w] \subseteq gone BY <2>3
  <2>8. QED BY <2>2, <2>3, <2>4, <2>5, <2>6, <2>7 DEF Kept
<1>6. QED BY <1>2, <1>4, <1>5

\* A dashboard goes, or its loop goes on.
LEMMA SweepKeeps ==
  ASSUME RelayInv, NEW w \in Watchers, WatcherDisconnects(w) \/ SweepOn(w)
  PROVE  RelayInv'
<1> USE DEF RelayInv, pilotVars, redisVars
<1> DEFINE gone == IF WatcherDisconnects(w) THEN focused[w] ELSE left[w]
<1>1. /\ gone \in SUBSET Drones
      /\ left[w] \subseteq gone
      /\ \A e \in gone : <<w, e>> \in Opens
      /\ rooms' \in [Drones -> SUBSET Watchers]
      /\ \A e \in Drones : rooms'[e] \subseteq rooms[e]
      /\ \A e \in Drones \ gone : rooms'[e] = rooms[e]
      /\ Sweep(w, gone)
      /\ sock' \in [Sockets -> {"new", "open", "closed"}] /\ sock'[w] = "closed"
      /\ \A s \in Sockets \ {w} : sock'[s] = sock[s]
      /\ UNCHANGED <<focused, checking, pilotVars, subCmds, redisVars>>
  <2>1. CASE WatcherDisconnects(w)
    <3>1. /\ sock[w] = "open" /\ sock' = [sock EXCEPT ![w] = "closed"]
          /\ rooms' = [d \in Drones |-> rooms[d] \ {w}]
          /\ Sweep(w, focused[w])
          /\ UNCHANGED <<focused, checking, pilotVars, subCmds, redisVars>>
      BY <2>1 DEF WatcherDisconnects, Close
    <3>2. left[w] = {} BY <3>1 DEF TypeOK
    <3>3. gone = focused[w] /\ focused[w] \in SUBSET Drones BY <2>1 DEF TypeOK
    <3>4. \A e \in Drones \ focused[w] : w \notin rooms[e] BY DEF RoomInv
    <3>5. w \in Sockets BY DEF Sockets
    <3>6. \A e \in focused[w] : <<w, e>> \in Opens BY <3>3 DEF RoomInv
    <3> HIDE DEF gone
    <3>7. rooms' \in [Drones -> SUBSET Watchers] /\ \A e \in Drones : rooms'[e] \subseteq rooms[e]
      BY <3>1 DEF TypeOK
    <3>8. \A e \in Drones \ gone : rooms'[e] = rooms[e] BY <3>1, <3>3, <3>4 DEF TypeOK
    <3>9. sock' \in [Sockets -> {"new", "open", "closed"}] /\ sock'[w] = "closed"
          /\ \A s \in Sockets \ {w} : sock'[s] = sock[s]
      BY <3>1, <3>5 DEF TypeOK
    <3>10. QED BY <3>1, <3>2, <3>3, <3>6, <3>7, <3>8, <3>9
  <2>2. CASE SweepOn(w) /\ ~WatcherDisconnects(w)
    <3>1. left[w] # {} /\ UNCHANGED <<rooms, sock>> /\ Sweep(w, left[w])
          /\ UNCHANGED <<focused, checking, pilotVars, subCmds, redisVars>>
      BY <2>2 DEF SweepOn
    <3>2. gone = left[w] /\ left[w] \in SUBSET Drones BY <2>2 DEF TypeOK
    <3>3. sock[w] = "closed" BY <3>1 DEF TypeOK
    <3>4. \A e \in left[w] : <<w, e>> \in Opens BY <3>2 DEF RoomInv
    <3> HIDE DEF gone
    <3>5. QED BY <3>1, <3>2, <3>3, <3>4 DEF TypeOK
  <2>3. QED BY <2>1, <2>2
<1> HIDE DEF gone
<1>2. /\ focusCmds' \in Seq(FocusCommand)
      /\ left' \in [Watchers -> SUBSET Drones]
      /\ left'[w] \subseteq gone
      /\ \A v \in Watchers \ {w} : left'[v] = left[v]
      /\ \A i \in 1 .. Len(focusCmds') :
           \/ focusCmds'[i].loop = w
           \/ i \in 1 .. Len(focusCmds) /\ focusCmds'[i] = focusCmds[i]
      /\ \A e \in Drones : InFocus(e)' => InFocus(e)
      /\ \A e \in Drones \ gone : InFocus(e)' <=> InFocus(e)
      /\ \A e \in gone : InFocus(e)' /\ rooms'[e] = {} => e \in left'[w]
      /\ orphaned' \subseteq orphaned
      /\ \A e \in Drones : InFocus(e)' /\ e \in orphaned => e \in orphaned'
  BY <1>1, SweepForgetsNothing
<1>3. SocketInv'
  <2>1. \A v \in Watchers : Looping(v)' => v = w \/ Looping(v) BY <1>2 DEF Looping
  <2>2. w \notin Pilots /\ Watchers \subseteq Sockets /\ Pilots \subseteq Sockets
    BY FocusRelayAssumption DEF Sockets
  <2>3. \A p \in Pilots : sock'[p] = sock[p] BY <1>1, <2>2
  <2>4. \A v \in Watchers \ {w} : sock'[v] = sock[v] BY <1>1, <2>2
  <2>5. \A v \in Watchers : Looping(v)' => sock'[v] = "closed"
    BY <1>1, <2>1, <2>4 DEF SocketInv
  <2>6. \A p \in Pilots : sock'[p] = "new" => asked'[p] = NoDrone /\ drone'[p] = NoDrone
    BY <1>1, <2>3 DEF SocketInv
  <2>7. QED BY <2>5, <2>6 DEF SocketInv
<1>4. TypeOK'
  <2>1. \A v \in Watchers : left'[v] # {} => sock'[v] = "closed"
    BY <1>3 DEF SocketInv, Looping
  <2>2. QED BY <1>1, <1>2, <2>1 DEF TypeOK
<1>5. RoomInv'
  <2>1. \A v \in Watchers, e \in Drones : e \in left'[v] => <<v, e>> \in Opens
    BY <1>1, <1>2 DEF RoomInv
  <2>2. QED BY <1>1, <1>2, <2>1 DEF RoomInv
<1>6. FocusInv'
  <2>1. SUFFICES ASSUME faults = 0 PROVE FocusInv' BY <1>1 DEF FocusInv
  <2>2. ASSUME NEW e \in Drones, InFocus(e)' PROVE Counted(e)'
    <3>1. CASE e \in gone
      BY <1>2, <2>2, <3>1 DEF Counted
    <3>2. CASE e \notin gone
      <4>1. \/ rooms[e] # {} \/ clients[e] # {} \/ \E v \in Watchers : e \in left[v]
            \/ e \in orphaned'
        BY <1>2, <2>1, <2>2, <3>2 DEF FocusInv, Counted
      <4>2. rooms'[e] = rooms[e] /\ clients'[e] = clients[e] BY <1>1, <3>2
      <4>3. \A v \in Watchers : e \in left[v] => e \in left'[v] BY <1>1, <1>2, <3>2
      <4>4. QED BY <4>1, <4>2, <4>3 DEF Counted
    <3>3. QED BY <3>1, <3>2
  <2>3. ASSUME NEW e \in Drones \ Watchable, clients'[e] # {} PROVE InFocus(e)'
    <3>1. e \notin gone BY <1>1, <2>3 DEF Watchable
    <3>2. InFocus(e) BY <1>1, <2>1, <2>3 DEF FocusInv
    <3>3. QED BY <1>2, <3>1, <3>2
  <2>4. QED BY <2>2, <2>3 DEF FocusInv
<1>7. SubInv' BY <1>1, SubInvUntouched
<1>8. QED BY <1>3, <1>4, <1>5, <1>6, <1>7

-----------------------------------------------------------------------------
(* The steps of the pilots *)

\* What a pilot's step leaves alone keeps the dashboards' invariants.
LEMMA RoomsUntouched ==
  ASSUME RoomInv, UNCHANGED watcherVars, orphaned' \subseteq orphaned
  PROVE  RoomInv'
BY DEF RoomInv, watcherVars

\* A pilot who enters: the first one on a drone subscribes and asks for the
\* focus, a later one finds both done.
LEMMA EnterKeeps ==
  ASSUME RelayInv, NEW p \in Pilots, NEW d \in Drones, Enter(p, d),
         sock' \in [Sockets -> {"new", "open", "closed"}], sock'[p] # "new",
         \A s \in Sockets \ {p} : sock'[s] = sock[s],
         asked' \in [Pilots -> Drones \cup {NoDrone}], asked'[p] = NoDrone,
         \A q \in Pilots \ {p} : asked'[q] = asked[q],
         UNCHANGED <<watcherVars, redisVars>>
  PROVE  RelayInv'
<1> USE DEF RelayInv, watcherVars, redisVars
<1>1. /\ drone' = [drone EXCEPT ![p] = d]
      /\ clients' = [clients EXCEPT ![d] = @ \cup {p}]
      /\ UNCHANGED <<rawSubs, orphaned>>
      /\ d \in Prompt => NoneFor(subCmds, d)
  BY DEF Enter, InTime, NoneFor
<1>2. /\ \A e \in Drones : clients[e] \subseteq clients'[e]
      /\ \A e \in Drones \ {d} : clients'[e] = clients[e]
      /\ clients'[d] # {}
      /\ clients[d] = {} => clients'[d] = {p}
      /\ clients' \in [Drones -> SUBSET Pilots]
  BY <1>1 DEF TypeOK
<1>c. clients[d] = {} => Cardinality(clients'[d]) = 1
  BY <1>2, FS_Singleton, Zenon
<1>3. \/ /\ SendFocus("sadd", d, NoSocket)
         /\ IF d \in rawSubs THEN UNCHANGED subCmds ELSE SendSub("subscribe", d)
      \/ clients[d] # {} /\ UNCHANGED <<focusCmds, subCmds>>
  BY <1>c DEF Enter
<1>4. /\ focusCmds' \in Seq(FocusCommand)
      /\ \A e \in Drones \ {d} : InFocus(e)' <=> InFocus(e)
      /\ InFocus(d)' \/ ((InFocus(d)' <=> InFocus(d)) /\ clients[d] # {})
      /\ \A i \in 1 .. Len(focusCmds') :
           \/ focusCmds'[i].loop = NoSocket
           \/ i \in 1 .. Len(focusCmds) /\ focusCmds'[i] = focusCmds[i]
  <2>1. CASE SendFocus("sadd", d, NoSocket) BY <2>1, SendFocusDecides
  <2>2. CASE clients[d] # {} /\ UNCHANGED <<focusCmds, subCmds>>
    BY <2>2, FocusUntouched DEF TypeOK
  <2>3. QED BY <1>3, <2>1, <2>2
<1>5. SocketInv'
  <2>1. NoSocket \notin Watchers /\ p \notin Watchers
        /\ Watchers \subseteq Sockets /\ Pilots \subseteq Sockets
    BY FocusRelayAssumption DEF Sockets
  <2>2. \A v \in Watchers : Looping(v)' => Looping(v) BY <1>4, <2>1 DEF Looping
  <2>3. \A v \in Watchers : sock'[v] = sock[v] BY <2>1
  <2>4. \A q \in Pilots \ {p} : sock'[q] = sock[q] /\ drone'[q] = drone[q]
    BY <1>1, <2>1 DEF TypeOK
  <2>5. QED BY <2>2, <2>3, <2>4 DEF SocketInv
<1>6. SubInv' /\ subCmds' \in Seq(SubCommand)
  <2>1. CASE SendFocus("sadd", d, NoSocket) /\ d \notin rawSubs /\ SendSub("subscribe", d)
    <3>1. subCmds' \in Seq(SubCommand)
          /\ \A e \in Drones : IsSent(e)' <=> IF e = d THEN TRUE ELSE IsSent(e)
      BY <2>1, SendSubDecides
    <3>2. QED BY <1>1, <1>2, <3>1, FocusRelayAssumption DEF SubInv
  <2>2. CASE UNCHANGED subCmds /\ d \in rawSubs
    <3>1. \A e \in Drones : IsSent(e)' <=> IsSent(e) BY <2>2, SentUntouched
    <3>2. d \in Prompt => IsSent(d)
      BY <1>1, <2>2 DEF SubInv, IsSent, WillHave
    <3>3. QED BY <1>1, <1>2, <2>2, <3>1, <3>2, FocusRelayAssumption DEF SubInv, TypeOK
  <2>3. CASE clients[d] # {} /\ UNCHANGED <<focusCmds, subCmds>>
    <3>1. \A e \in Drones : IsSent(e)' <=> IsSent(e) BY <2>3, SentUntouched
    <3>2. QED BY <1>1, <1>2, <2>3, <3>1, FocusRelayAssumption DEF SubInv, TypeOK
  <2>4. QED BY <1>3, <2>1, <2>2, <2>3
<1>7. TypeOK'
  <2>1. drone' \in [Pilots -> Drones \cup {NoDrone}] BY <1>1 DEF TypeOK
  <2>2. \A q \in Pilots : asked'[q] # NoDrone => drone'[q] = NoDrone
    BY <1>1 DEF TypeOK
  <2>3. \A v \in Watchers : left'[v] # {} => sock'[v] = "closed"
    BY <1>5 DEF SocketInv, Looping
  <2>4. QED BY <1>1, <1>2, <1>4, <1>6, <2>1, <2>2, <2>3 DEF TypeOK
<1>8. RoomInv' BY <1>1, RoomsUntouched
<1>9. FocusInv'
  <2>1. \A e \in Drones : Counted(e) => Counted(e)' BY <1>1, <1>2 DEF Counted
  <2>2. Counted(d)' BY <1>2 DEF Counted
  <2>3. QED BY <1>2, <1>4, <2>1, <2>2 DEF FocusInv
<1>10. QED BY <1>5, <1>6, <1>7, <1>8, <1>9

\* The handshake of a pilot.
LEMMA PilotArrivesKeeps ==
  ASSUME RelayInv, NEW p \in Pilots,
         \/ PilotChecked(p) \/ PilotRefused(p)
         \/ \E d \in Drones : PilotConnects(p, d)
  PROVE  RelayInv'
<1>0. p \in Sockets /\ p \notin Watchers /\ NoDrone \notin Drones
  BY FocusRelayAssumption DEF Sockets
<1>1. ASSUME NEW d \in Drones, PilotConnects(p, d) PROVE RelayInv'
  <2>1. /\ sock[p] = "new" /\ sock' = [sock EXCEPT ![p] = "open"]
        /\ asked[p] = NoDrone /\ drone[p] = NoDrone
        /\ UNCHANGED <<watcherVars, redisVars>>
    BY <1>1 DEF PilotConnects, RelayInv, SocketInv
  <2>2. /\ sock' \in [Sockets -> {"new", "open", "closed"}] /\ sock'[p] # "new"
        /\ \A s \in Sockets \ {p} : sock'[s] = sock[s]
    BY <1>0, <2>1 DEF RelayInv, TypeOK
  <2>3. CASE Enter(p, d) /\ UNCHANGED asked
    <3>1. asked \in [Pilots -> Drones \cup {NoDrone}] BY DEF RelayInv, TypeOK
    <3>2. QED BY <2>1, <2>2, <2>3, <3>1, EnterKeeps
  <2>4. CASE /\ asked' = [asked EXCEPT ![p] = d]
             /\ UNCHANGED <<drone, clients, rawSubs, focusCmds, subCmds, orphaned>>
    <3>1. SocketInv'
      <4>1. Watchers \subseteq Sockets /\ Pilots \subseteq Sockets BY DEF Sockets
      <4>2. \A w \in Watchers : sock'[w] = sock[w] BY <1>0, <2>2, <4>1
      <4>3. \A q \in Pilots \ {p} : sock'[q] = sock[q] /\ asked'[q] = asked[q]
        BY <2>2, <2>4, <4>1 DEF RelayInv, TypeOK
      <4>4. QED
        BY <2>1, <2>2, <2>4, <4>2, <4>3 DEF RelayInv, SocketInv, Looping, watcherVars
    <3>2. TypeOK'
      <4>1. \A w \in Watchers : left'[w] # {} => sock'[w] = "closed"
        BY <3>1 DEF SocketInv, Looping
      <4>2. QED
        BY <2>1, <2>2, <2>4, <4>1 DEF RelayInv, TypeOK, watcherVars, redisVars
    <3>3. RoomInv' BY <2>1, <2>4, RoomsUntouched DEF RelayInv
    <3>4. FocusInv'
      BY <2>1, <2>4, FocusUntouched DEF RelayInv, FocusInv, Counted, watcherVars, redisVars
    <3>5. SubInv' BY <2>1, <2>4, SubInvUntouched DEF RelayInv, redisVars
    <3>6. QED BY <3>1, <3>2, <3>3, <3>4, <3>5 DEF RelayInv
  <2>5. QED BY <1>1, <2>3, <2>4 DEF PilotConnects
<1>2. CASE PilotChecked(p)
  <2>1. /\ asked[p] \in Drones
        /\ asked' = [asked EXCEPT ![p] = NoDrone]
        /\ Enter(p, asked[p])
        /\ UNCHANGED <<sock, watcherVars, redisVars>>
    BY <1>2 DEF PilotChecked, RelayInv, TypeOK
  <2>2. sock[p] # "new" BY <1>0, <2>1 DEF RelayInv, SocketInv
  <2>3. /\ asked' \in [Pilots -> Drones \cup {NoDrone}] /\ asked'[p] = NoDrone
        /\ \A q \in Pilots \ {p} : asked'[q] = asked[q]
    BY <2>1 DEF RelayInv, TypeOK
  <2>4. sock \in [Sockets -> {"new", "open", "closed"}] BY DEF RelayInv, TypeOK
  <2>5. QED BY <2>1, <2>2, <2>3, <2>4, EnterKeeps
<1>3. CASE PilotRefused(p)
  <2>1. /\ asked' = [asked EXCEPT ![p] = NoDrone]
        /\ sock' = [sock EXCEPT ![p] = "closed"]
        /\ UNCHANGED <<watcherVars, drone, clients, rawSubs, focusCmds, subCmds, orphaned, redisVars>>
    BY <1>3 DEF PilotRefused, Close
  <2>2. \A w \in Watchers : sock'[w] = sock[w] BY <1>0, <2>1 DEF RelayInv, TypeOK, Sockets
  <2>3. TypeOK'
    BY <1>0, <2>1, <2>2 DEF RelayInv, TypeOK, watcherVars, redisVars
  <2>4. SocketInv'
    BY <1>0, <2>1, <2>2 DEF RelayInv, TypeOK, SocketInv, Looping, watcherVars, Sockets
  <2>5. RoomInv' BY <2>1, RoomsUntouched DEF RelayInv
  <2>6. FocusInv'
    BY <2>1, FocusUntouched DEF RelayInv, FocusInv, Counted, watcherVars, redisVars
  <2>7. SubInv' BY <2>1, SubInvUntouched DEF RelayInv, redisVars
  <2>8. QED BY <2>3, <2>4, <2>5, <2>6, <2>7 DEF RelayInv
<1>4. QED BY <1>1, <1>2, <1>3

\* A pilot goes: the last one on a drone takes back what the first one asked for.
LEMMA PilotDisconnectsKeeps ==
  ASSUME RelayInv, NEW p \in Pilots, PilotDisconnects(p)
  PROVE  RelayInv'
<1> USE DEF RelayInv, watcherVars, redisVars
<1>1. /\ sock' = [sock EXCEPT ![p] = "closed"]
      /\ UNCHANGED <<watcherVars, asked, drone, rawSubs, redisVars>>
  BY DEF PilotDisconnects, Close
<1>2. \A w \in Watchers : sock'[w] = sock[w]
  BY <1>1, FocusRelayAssumption DEF TypeOK, Sockets
<1>3. sock' \in [Sockets -> {"new", "open", "closed"}] BY <1>1 DEF TypeOK
<1>4. \A q \in Pilots : sock'[q] = "new" => sock[q] = "new"
  BY <1>1 DEF TypeOK, Sockets
<1>5. orphaned' \subseteq orphaned => RoomInv' BY <1>1, RoomsUntouched
<1>6. CASE drone[p] # NoDrone /\ Leave(p)
  <2>1. PICK d \in Drones :
          /\ clients' = [clients EXCEPT ![d] = @ \ {p}]
          /\ d \in Prompt => NoneFor(subCmds, d)
          /\ IF clients'[d] = {}
               THEN /\ TakeOut(d, NoSocket)
                    /\ IF d \in rawSubs THEN SendSub("unsubscribe", d) ELSE UNCHANGED subCmds
               ELSE UNCHANGED <<focusCmds, subCmds, orphaned>>
    <3>1. drone[p] \in Drones BY <1>6 DEF TypeOK
    <3>2. QED BY <1>6, <3>1 DEF Leave, InTime, NoneFor
  <2>2. /\ clients' \in [Drones -> SUBSET Pilots]
        /\ \A e \in Drones \ {d} : clients'[e] = clients[e]
        /\ clients'[d] # {} => clients[d] # {}
    BY <2>1 DEF TypeOK
  <2>3. /\ focusCmds' \in Seq(FocusCommand)
        /\ \A e \in Drones \ {d} : InFocus(e)' <=> InFocus(e)
        /\ clients'[d] = {} => ~InFocus(d)'
        /\ clients'[d] # {} => (InFocus(d)' <=> InFocus(d))
        /\ orphaned' \subseteq orphaned /\ orphaned \subseteq orphaned' \cup {d}
        /\ \A i \in 1 .. Len(focusCmds') :
             \/ focusCmds'[i].loop = NoSocket
             \/ i \in 1 .. Len(focusCmds) /\ focusCmds'[i] = focusCmds[i]
    <3>1. CASE clients'[d] = {} BY <1>1, <2>1, <3>1, TakeOutDecides
    <3>2. CASE clients'[d] # {} BY <1>1, <2>1, <3>2, FocusUntouched DEF TypeOK
    <3>3. QED BY <3>1, <3>2
  <2>4. SocketInv'
    <3>1. NoSocket \notin Watchers BY FocusRelayAssumption DEF Sockets
    <3>2. \A w \in Watchers : Looping(w)' => Looping(w) BY <1>1, <2>3, <3>1 DEF Looping
    <3>3. QED BY <1>1, <1>2, <1>4, <3>2 DEF SocketInv
  <2>5. SubInv' /\ subCmds' \in Seq(SubCommand)
    <3>1. CASE clients'[d] = {} /\ d \in rawSubs /\ SendSub("unsubscribe", d)
      <4>1. subCmds' \in Seq(SubCommand)
            /\ \A e \in Drones : IsSent(e)' <=> IF e = d THEN FALSE ELSE IsSent(e)
        BY <1>1, <2>1, <3>1, SendSubDecides
      <4>2. QED BY <1>1, <2>2, <3>1, <4>1, FocusRelayAssumption DEF SubInv
    <3>2. CASE clients'[d] = {} /\ d \notin rawSubs /\ UNCHANGED subCmds
      <4>1. \A e \in Drones : IsSent(e)' <=> IsSent(e) BY <1>1, <3>2, SentUntouched
      <4>2. d \in Prompt => ~IsSent(d)
        BY <2>1, <3>2 DEF SubInv, IsSent, WillHave, LastIs, NoneFor
      <4>3. QED BY <1>1, <2>2, <3>2, <4>1, <4>2, FocusRelayAssumption DEF SubInv, TypeOK
    <3>3. CASE clients'[d] # {} /\ UNCHANGED subCmds
      <4>1. \A e \in Drones : IsSent(e)' <=> IsSent(e) BY <1>1, <3>3, SentUntouched
      <4>2. QED BY <1>1, <2>2, <3>3, <4>1, FocusRelayAssumption DEF SubInv, TypeOK
    <3>4. QED BY <2>1, <3>1, <3>2, <3>3
  <2>6. TypeOK' BY <1>1, <1>2, <1>3, <2>2, <2>3, <2>5 DEF TypeOK
  <2>7. FocusInv'
    <3>1. \A e \in Drones \ {d} : Counted(e)' <=> Counted(e) BY <1>1, <2>2, <2>3 DEF Counted
    <3>2. clients'[d] # {} => Counted(d)' BY DEF Counted
    <3>3. QED BY <1>1, <2>1, <2>2, <2>3, <3>1, <3>2 DEF FocusInv
  <2>8. QED BY <1>5, <2>3, <2>4, <2>5, <2>6, <2>7
<1>7. CASE UNCHANGED <<clients, focusCmds, subCmds, orphaned>>
  <2>1. TypeOK' BY <1>1, <1>2, <1>3, <1>7 DEF TypeOK
  <2>2. SocketInv' BY <1>1, <1>2, <1>4, <1>7 DEF SocketInv, Looping
  <2>3. FocusInv' BY <1>1, <1>7, FocusUntouched DEF FocusInv, Counted
  <2>4. SubInv' BY <1>1, <1>7, SubInvUntouched
  <2>5. QED BY <1>5, <1>7, <2>1, <2>2, <2>3, <2>4
<1>8. QED BY <1>6, <1>7 DEF PilotDisconnects

-----------------------------------------------------------------------------
(* The steps of Redis *)

\* The first command to the focus set is executed: nothing changes in what the
\* focus is going to be, unless it fails.
LEMMA FocusReplyKeeps ==
  ASSUME RelayInv, FocusReply
  PROVE  RelayInv'
<1> USE DEF RelayInv, watcherVars, pilotVars
<1>1. /\ focusCmds # <<>> /\ focusCmds' = Tail(focusCmds)
      /\ UNCHANGED <<sock, watcherVars, pilotVars, subCmds, orphaned, redisSubs>>
  BY DEF FocusReply
<1>2. /\ Head(focusCmds) \in FocusCommand /\ focusCmds' \in Seq(FocusCommand)
      /\ Len(focusCmds') = Len(focusCmds) - 1 /\ Len(focusCmds) \in Nat
      /\ \A i \in 1 .. Len(focusCmds') : focusCmds'[i] = focusCmds[i + 1]
  BY <1>1, HeadTailProperties, LenProperties DEF TypeOK
<1>3. Head(focusCmds).drone \in Drones BY <1>2 DEF FocusCommand
<1>4. /\ focusSet' \subseteq Drones /\ faults' \in 0 .. MaxFaults
      /\ faults' = 0 => /\ faults = 0
                        /\ focusSet' = IF Head(focusCmds).op = "sadd"
                                         THEN focusSet \cup {Head(focusCmds).drone}
                                         ELSE focusSet \ {Head(focusCmds).drone}
  <2>1. \/ /\ focusSet' = IF Head(focusCmds).op = "sadd"
                             THEN focusSet \cup {Head(focusCmds).drone}
                             ELSE focusSet \ {Head(focusCmds).drone}
           /\ UNCHANGED faults
        \/ faults < MaxFaults /\ faults' = faults + 1 /\ UNCHANGED focusSet
    BY DEF FocusReply
  <2>2. QED BY <1>3, <2>1, FocusRelayAssumption DEF TypeOK
<1>5. SocketInv'
  <2>1. \A w \in Watchers : Looping(w)' => Looping(w)
    <3>1. \A i \in 1 .. Len(focusCmds') : i + 1 \in 1 .. Len(focusCmds) BY <1>2
    <3>2. QED BY <1>1, <1>2, <3>1 DEF Looping
  <2>2. QED BY <1>1, <2>1 DEF SocketInv
<1>6. TypeOK' BY <1>1, <1>2, <1>4 DEF TypeOK
<1>7. RoomInv' BY <1>1 DEF RoomInv
<1>8. FocusInv'
  <2>1. SUFFICES ASSUME faults' = 0 PROVE FocusInv' BY DEF FocusInv
  <2>2. \A d \in Drones : InFocus(d)' <=> InFocus(d)
    <3>1. ASSUME NEW d \in Drones PROVE InFocus(d)' <=> InFocus(d)
      <4>1. focusCmds \in Seq(FocusCommand) BY DEF TypeOK
      <4>2. WillHave(Tail(focusCmds), d, "sadd", focusSet')
              <=> WillHave(focusCmds, d, "sadd", focusSet)
        BY <1>1, <1>4, <2>1, <4>1, ReplyDecidesNothing
      <4>3. QED BY <1>1, <4>2 DEF InFocus, WillHave, LastIs, NoneFor
    <3>2. QED BY <3>1
  <2>3. \A d \in Drones : Counted(d)' <=> Counted(d) BY <1>1 DEF Counted
  <2>4. QED BY <1>1, <1>4, <2>1, <2>2, <2>3 DEF FocusInv
<1>9. SubInv'
  <2>1. faults' = 0 => faults = 0 BY <1>4
  <2>2. QED BY <1>1, <2>1, SentUntouched, FocusRelayAssumption DEF SubInv
<1>10. QED BY <1>5, <1>6, <1>7, <1>8, <1>9

\* The first subscription or its end is executed, and the callback marks it.
LEMMA SubReplyKeeps ==
  ASSUME RelayInv, SubReply
  PROVE  RelayInv'
<1> USE DEF RelayInv, watcherVars, pilotVars, redisVars
<1> DEFINE Marked(S) == IF Head(subCmds).op = "subscribe" THEN S \cup {Head(subCmds).drone}
                                                         ELSE S \ {Head(subCmds).drone}
<1>1. /\ subCmds # <<>> /\ subCmds' = Tail(subCmds)
      /\ UNCHANGED <<sock, watcherVars, asked, drone, clients, focusCmds, orphaned, focusSet>>
  BY DEF SubReply
<1>2. Head(subCmds) \in SubCommand /\ subCmds' \in Seq(SubCommand)
  BY <1>1, HeadTailProperties DEF TypeOK
<1>3. Head(subCmds).drone \in Drones BY <1>2 DEF SubCommand
<1>4. /\ rawSubs' = redisSubs' /\ redisSubs' \subseteq Drones
      /\ faults' \in 0 .. MaxFaults
      /\ faults' = 0 => faults = 0 /\ redisSubs' = Marked(redisSubs)
  <2>1. \/ redisSubs' = Marked(redisSubs) /\ rawSubs' = Marked(rawSubs) /\ UNCHANGED faults
        \/ /\ faults < MaxFaults /\ faults' = faults + 1
           /\ UNCHANGED <<redisSubs, rawSubs>>
    BY DEF SubReply
  <2>2. Marked(redisSubs) \subseteq Drones BY <1>3 DEF TypeOK
  <2>3. /\ rawSubs = redisSubs /\ redisSubs \subseteq Drones
        /\ faults \in 0 .. MaxFaults /\ MaxFaults \in Nat
    BY FocusRelayAssumption DEF TypeOK, SubInv
  <2> HIDE DEF Marked, RelayInv
  <2>4. CASE redisSubs' = Marked(redisSubs) /\ rawSubs' = Marked(rawSubs) /\ UNCHANGED faults
    BY <2>2, <2>3, <2>4
  <2>5. QED BY <2>1, <2>3, <2>4
<1>5. TypeOK' BY <1>1, <1>2, <1>4 DEF TypeOK
<1>6. SocketInv' BY <1>1 DEF SocketInv, Looping
<1>7. RoomInv' BY <1>1 DEF RoomInv
<1>8. FocusInv'
  <2>1. faults' = 0 => faults = 0 BY <1>4
  <2>2. QED BY <1>1, <2>1, FocusUntouched DEF FocusInv, Counted
<1>9. SubInv'
  <2>1. ASSUME faults' = 0, NEW d \in Prompt PROVE IsSent(d)' <=> clients'[d] # {}
    <3>1. subCmds \in Seq(SubCommand) BY DEF TypeOK
    <3>2. WillHave(Tail(subCmds), d, "subscribe", redisSubs')
            <=> WillHave(subCmds, d, "subscribe", redisSubs)
      BY <1>1, <1>4, <2>1, <3>1, ReplyDecidesNothing
    <3>3. IsSent(d)' <=> IsSent(d)
      BY <1>1, <3>2 DEF IsSent, WillHave, LastIs, NoneFor
    <3>4. QED BY <1>1, <1>4, <2>1, <3>3 DEF SubInv
  <2>2. QED BY <1>4, <2>1 DEF SubInv
<1>10. QED BY <1>5, <1>6, <1>7, <1>8, <1>9

-----------------------------------------------------------------------------
(* The theorems *)

LEMMA RelayStep == RelayInv /\ [Next]_vars => RelayInv'
<1> SUFFICES ASSUME RelayInv, [Next]_vars PROVE RelayInv' OBVIOUS
<1>1. CASE Next
  BY <1>1, WatcherConnectsKeeps, SubscribeKeeps, UnsubscribingKeeps, SweepKeeps,
     PilotArrivesKeeps, PilotDisconnectsKeeps, FocusReplyKeeps, SubReplyKeeps DEF Next
<1>2. CASE UNCHANGED vars
  <2> USE <1>2 DEF vars, watcherVars, pilotVars, redisVars
  <2>1. TypeOK' BY DEF RelayInv, TypeOK
  <2>2. SocketInv' BY DEF RelayInv, SocketInv, Looping
  <2>3. RoomInv' BY DEF RelayInv, RoomInv
  <2>4. FocusInv' BY FocusUntouched DEF RelayInv, FocusInv, Counted
  <2>5. SubInv' BY SubInvUntouched DEF RelayInv
  <2>6. QED BY <2>1, <2>2, <2>3, <2>4, <2>5 DEF RelayInv
<1>3. QED BY <1>1, <1>2

LEMMA RelayInvariant == Spec => []RelayInv
BY InitRelay, RelayStep, PTL DEF Spec

\* Every variable of the two gateways keeps its type; a loop of
\* handleDisconnect belongs to a closed socket.
THEOREM RelayTypeCorrect == Spec => []TypeOK
<1>1. RelayInv => TypeOK BY DEF RelayInv
<1>2. QED BY <1>1, RelayInvariant, PTL

\* Once every command is answered, a drone is in the focus only while one of
\* the gateways counts somebody on it, however sockets come, go and are
\* interrupted - except for one that was asked for by a dashboard whose socket
\* closed during the lookup, until it is taken out for somebody else.
THEOREM FocusIsWatched == Spec => []FocusHasViewer
<1>1. RelayInv => FocusHasViewer
  <2> SUFFICES ASSUME RelayInv, Quiet, faults = 0, NEW d \in focusSet
               PROVE  rooms[d] # {} \/ clients[d] # {} \/ d \in orphaned
    BY DEF FocusHasViewer
  <2>1. d \in Drones BY DEF RelayInv, TypeOK
  <2>2. InFocus(d) BY NothingPending DEF Quiet, InFocus
  <2>3. QED BY <2>1, <2>2 DEF RelayInv, FocusInv, Counted, Quiet
<1>2. QED BY <1>1, RelayInvariant, PTL

\* Once every command is answered, a drone that no dashboard opens is in the
\* focus exactly while the relay counts a pilot on it.
THEOREM FocusIsOfPilots == Spec => []FocusFollowsPilots
<1>1. RelayInv => FocusFollowsPilots
  <2> SUFFICES ASSUME RelayInv, Quiet, faults = 0, NEW d \in Drones \ Watchable
               PROVE  d \in focusSet <=> clients[d] # {}
    BY DEF FocusFollowsPilots
  <2>1. InFocus(d) <=> d \in focusSet BY NothingPending DEF Quiet, InFocus
  <2>2. rooms[d] = {} /\ d \notin orphaned /\ \A w \in Watchers : d \notin left[w]
    BY UnwatchedHasNoRoom DEF RelayInv
  <2>3. QED BY <2>1, <2>2 DEF RelayInv, FocusInv, Counted
<1>2. QED BY <1>1, RelayInvariant, PTL

\* Whenever no subscription is under way, the raw channels that Redis sends
\* are those of the drones that the relay counts a pilot on, for the drones
\* about which Redis answers in time.
THEOREM SubscriptionIsOfPilots == Spec => []SubscriptionFollowsPilots
<1>1. RelayInv => SubscriptionFollowsPilots
  <2> SUFFICES ASSUME RelayInv, subCmds = <<>>, faults = 0, NEW d \in Prompt
               PROVE  d \in redisSubs <=> clients[d] # {}
    BY DEF SubscriptionFollowsPilots
  <2>1. IsSent(d) <=> d \in redisSubs BY NothingPending DEF IsSent
  <2>2. QED BY <2>1 DEF RelayInv, SubInv
<1>2. QED BY <1>1, RelayInvariant, PTL

-----------------------------------------------------------------------------
(* OwnerCache *)

\* As long as no owner lost the drone, every read names the owner or nobody.
ReadsAreCurrent ==
  ~lost =>
    /\ \A c \in Claims : claim[c].read \in {Nobody, owner}
    /\ cache \in {Unknown, Nobody, owner}
    /\ \A l \in Lookups : lookup[l] \in {"idle", "asked", Nobody, owner}

\* A claim that is under way is a user's.
ClaimsAreOfUsers == \A c \in Claims : claim[c] # Idle => claim[c].by \in Users

OwnerInv == OTypeOK /\ ClaimsAreOfUsers /\ ReadsAreCurrent /\ OwnerAlone

LEMMA InitOwner ==
  ASSUME OwnerInit PROVE OwnerInv
<1>1. 0 \in 0 .. MaxFailures BY OwnerAssumption
<1>2. OTypeOK BY <1>1 DEF OwnerInit, OTypeOK, Idle
<1>3. ClaimsAreOfUsers /\ ReadsAreCurrent /\ OwnerAlone
  BY DEF OwnerInit, ClaimsAreOfUsers, ReadsAreCurrent, OwnerAlone, Idle
<1>4. QED BY <1>2, <1>3 DEF OwnerInv

\* Reading the owner.
LEMMA ClaimReadsKeeps ==
  ASSUME OwnerInv, NEW c \in Claims, NEW p \in Users, ClaimReads(c, p)
  PROVE  OwnerInv'
<1>1. OTypeOK' BY DEF OwnerInv, OTypeOK, ClaimReads, table
<1>2. ClaimsAreOfUsers' BY DEF OwnerInv, OTypeOK, ClaimsAreOfUsers, ClaimReads
<1>3. ReadsAreCurrent' BY DEF OwnerInv, OTypeOK, ReadsAreCurrent, ClaimReads, table
<1>4. OwnerAlone' BY DEF OwnerInv, OwnerAlone, ClaimReads, table
<1>5. QED BY <1>1, <1>2, <1>3, <1>4 DEF OwnerInv

\* A claim that ends without a change.
LEMMA ClaimEndsKeeps ==
  ASSUME OwnerInv, NEW c \in Claims, claim' = [claim EXCEPT ![c] = Idle],
         failures' \in 0 .. MaxFailures,
         UNCHANGED <<table, told, cache, fresh, lookup, sent>>
  PROVE  OwnerInv'
<1>1. OTypeOK' BY DEF OwnerInv, OTypeOK, table, Idle
<1>2. ClaimsAreOfUsers' BY DEF OwnerInv, OTypeOK, ClaimsAreOfUsers
<1>3. ReadsAreCurrent' BY DEF OwnerInv, OTypeOK, ReadsAreCurrent, table, Idle
<1>4. OwnerAlone' BY DEF OwnerInv, OwnerAlone, table
<1>5. QED BY <1>1, <1>2, <1>3, <1>4 DEF OwnerInv

\* The write of a claim: unless an owner loses the drone, it has the same owner
\* as before or had none, and nobody was served.
LEMMA ClaimUpdatesKeeps ==
  ASSUME OwnerInv, NEW c \in Claims, ClaimUpdates(c)
  PROVE  OwnerInv'
<1>0. /\ claim[c].by \in Users /\ owner' = claim[c].by
      /\ claim[c].read \in {Nobody, claim[c].by}
      /\ lost' \in BOOLEAN
  BY DEF OwnerInv, ClaimsAreOfUsers, ClaimUpdates
<1>1. OTypeOK' BY <1>0 DEF OwnerInv, OTypeOK, ClaimUpdates, Idle
<1>2. ClaimsAreOfUsers' BY DEF OwnerInv, OTypeOK, ClaimsAreOfUsers, ClaimUpdates
<1>3. ~lost' => ~lost /\ owner \in {Nobody, owner'}
  BY <1>0 DEF ClaimUpdates
<1>4. ReadsAreCurrent'
  BY <1>3 DEF OwnerInv, OTypeOK, ReadsAreCurrent, ClaimUpdates, Idle
<1>5. OwnerAlone'
  <2>1. told \subseteq Users /\ sent \subseteq Users /\ Nobody \notin Users
    BY OwnerAssumption DEF OwnerInv, OTypeOK
  <2>2. QED BY <1>0, <1>3, <2>1 DEF OwnerInv, OwnerAlone, ClaimUpdates
<1>6. QED BY <1>1, <1>2, <1>4, <1>5 DEF OwnerInv

LEMMA RecordsKeep ==
  ASSUME OwnerInv, RecordDeleted \/ RecordCreated
  PROVE  OwnerInv'
<1>1. OTypeOK' BY DEF OwnerInv, OTypeOK, RecordDeleted, RecordCreated
<1>2. ClaimsAreOfUsers' BY DEF OwnerInv, ClaimsAreOfUsers, RecordDeleted, RecordCreated
<1>3. ~lost' => ~lost /\ owner' = owner
  BY DEF OwnerInv, OTypeOK, RecordDeleted, RecordCreated
<1>4. ReadsAreCurrent' /\ OwnerAlone'
  BY <1>3 DEF OwnerInv, ReadsAreCurrent, OwnerAlone, RecordDeleted, RecordCreated
<1>5. QED BY <1>1, <1>2, <1>4 DEF OwnerInv

LEMMA BroadcastKeeps ==
  ASSUME OwnerInv,
         \/ BroadcastSends \/ Elapse
         \/ \E l \in Lookups : BroadcastAsks(l) \/ LookupReads(l) \/ LookupFails(l)
  PROVE  OwnerInv'
<1>0. failures \in 0 .. MaxFailures /\ MaxFailures \in Nat BY OwnerAssumption DEF OwnerInv, OTypeOK
<1>1. OTypeOK'
  <2>1. CASE BroadcastSends \/ Elapse BY <2>1 DEF OwnerInv, OTypeOK, BroadcastSends, Elapse, table
  <2>2. ASSUME NEW l \in Lookups, BroadcastAsks(l) \/ LookupReads(l) PROVE OTypeOK'
    BY <2>2 DEF OwnerInv, OTypeOK, BroadcastAsks, LookupReads, table
  <2>3. ASSUME NEW l \in Lookups, LookupFails(l) PROVE OTypeOK'
    <3>1. failures' \in 0 .. MaxFailures BY <1>0, <2>3 DEF LookupFails
    <3>2. QED BY <2>3, <3>1 DEF OwnerInv, OTypeOK, LookupFails, table
  <2>4. QED BY <2>1, <2>2, <2>3
<1>2. ClaimsAreOfUsers'
  BY DEF OwnerInv, ClaimsAreOfUsers, BroadcastSends, Elapse, BroadcastAsks, LookupReads, LookupFails
<1>3. ReadsAreCurrent'
  BY DEF OwnerInv, OTypeOK, ReadsAreCurrent, BroadcastSends, Elapse, BroadcastAsks, LookupReads,
     LookupFails, table
<1>4. OwnerAlone'
  BY OwnerAssumption DEF OwnerInv, OwnerAlone, ReadsAreCurrent, BroadcastSends, Elapse,
     BroadcastAsks, LookupReads, LookupFails, table
<1>5. QED BY <1>1, <1>2, <1>3, <1>4 DEF OwnerInv

LEMMA LookupAnswersKeeps ==
  ASSUME OwnerInv, NEW l \in Lookups, LookupAnswers(l)
  PROVE  OwnerInv'
<1>0. /\ lookup[l] \in Users \cup {Nobody}
      /\ ~lost => lookup[l] \in {Nobody, owner}
  BY DEF OwnerInv, OTypeOK, ReadsAreCurrent, LookupAnswers
<1>1. OTypeOK' BY <1>0 DEF OwnerInv, OTypeOK, LookupAnswers, table
<1>2. ClaimsAreOfUsers' BY DEF OwnerInv, ClaimsAreOfUsers, LookupAnswers
<1>3. ReadsAreCurrent'
  BY <1>0 DEF OwnerInv, OTypeOK, ReadsAreCurrent, LookupAnswers, table
<1>4. OwnerAlone' BY <1>0 DEF OwnerInv, OwnerAlone, LookupAnswers, table
<1>5. QED BY <1>1, <1>2, <1>3, <1>4 DEF OwnerInv

LEMMA OwnerStep ==
  ASSUME OwnerInv, [OwnerNext]_ownerVars PROVE OwnerInv'
<1>0. failures \in 0 .. MaxFailures /\ MaxFailures \in Nat BY OwnerAssumption DEF OwnerInv, OTypeOK
<1>1. ASSUME NEW c \in Claims, ClaimRefused(c) PROVE OwnerInv'
  BY <1>0, <1>1, ClaimEndsKeeps DEF ClaimRefused
<1>2. ASSUME NEW c \in Claims, ClaimFails(c) PROVE OwnerInv'
  <2>1. failures' \in 0 .. MaxFailures BY <1>0, <1>2 DEF ClaimFails
  <2>2. QED BY <1>2, <2>1, ClaimEndsKeeps DEF ClaimFails
<1>3. CASE UNCHANGED ownerVars
  BY <1>3 DEF ownerVars, table, OwnerInv, OTypeOK, ClaimsAreOfUsers, ReadsAreCurrent, OwnerAlone
<1>4. QED
  BY <1>1, <1>2, <1>3, ClaimReadsKeeps, ClaimUpdatesKeeps, RecordsKeep, BroadcastKeeps,
     LookupAnswersKeeps DEF OwnerNext

\* Every reachable state satisfies the whole invariant.
THEOREM OwnerInvariant == OwnerSpec => []OwnerInv
<1>1. OwnerInit => OwnerInv BY InitOwner
<1>2. OwnerInv /\ [OwnerNext]_ownerVars => OwnerInv' BY OwnerStep
<1>3. QED BY <1>1, <1>2, PTL DEF OwnerSpec

\* The state keeps its shape, and a record that is not there has no owner.
THEOREM OwnerTypeCorrect == OwnerSpec => []OTypeOK
<1>1. OwnerInv => OTypeOK BY DEF OwnerInv
<1>2. QED BY <1>1, OwnerInvariant, PTL

\* As long as no owner loses the drone, nobody else is told that it is theirs and
\* nobody else gets its telemetry (claimDrone, broadcastTelemetry).
THEOREM OwnerStaysAlone == OwnerSpec => []OwnerAlone
<1>1. OwnerInv => OwnerAlone BY DEF OwnerInv
<1>2. QED BY <1>1, OwnerInvariant, PTL
=============================================================================
