----------------------------- MODULE FocusRelay -----------------------------
(***************************************************************************)
(* Who watches and who flies a drone: TelemetryGateway (the sockets of the *)
(* dashboard), MavlinkRelayGateway (the sockets of the Pilot Bridges), and *)
(* what both keep in Redis - the set drone:focus_set, which makes the Go   *)
(* service publish a drone at 10 Hz, and the subscription to the raw       *)
(* channel of a drone that somebody flies.                                 *)
(*                                                                         *)
(* A socket is one connection: a client that comes back is another one.    *)
(* Node runs a handler without interruption up to an await, so an action   *)
(* is what happens between two of them.  Commands to Redis are answered    *)
(* one by one, in the order in which their connection sent them.           *)
(***************************************************************************)
EXTENDS Integers, Sequences, FiniteSets

CONSTANTS
  Drones,
  NoDrone,
  NoSocket,
  Watchers,    \* sockets of the dashboard
  Pilots,      \* sockets of the Pilot Bridges
  Admins,      \* sockets whose user has the role ADMIN: no ownership check
  Opens,       \* <<s, d>>: the sockets and the drones that they ask for
  Prompt,      \* drones about which Redis answers before the next pilot comes
               \* or goes
  Refusable,   \* bound: drones about which Redis may refuse a command
  MaxCommands, \* bound: commands that wait for Redis on a connection
  MaxFaults    \* bound: commands that Redis refuses

Sockets == Watchers \cup Pilots
Watchable == {d \in Drones : \E w \in Watchers : <<w, d>> \in Opens}

ASSUME FocusRelayAssumption ==
  /\ NoDrone \notin Drones
  /\ NoSocket \notin Sockets
  /\ Watchers \cap Pilots = {}
  /\ Admins \subseteq Sockets
  /\ Opens \subseteq Sockets \X Drones
  /\ Prompt \subseteq Drones
  /\ Refusable \subseteq Drones
  /\ MaxCommands \in Nat
  /\ MaxFaults \in Nat

VARIABLES
  sock,      \* sock[s]: "new", "open" or "closed"
  rooms,     \* rooms[d]: the sockets in the Socket.IO room drone:<d>
  focused,   \* focused[w]: client.data.focusedDrones
  checking,  \* <<w, d>>: subscribe handlers that wait for findByDeviceId
  left,      \* left[w]: drones that the loop of handleDisconnect has not met
  asked,     \* asked[p]: the drone of a handshake that waits for findByDeviceId
  drone,     \* drone[p]: client.data.droneId
  clients,   \* clients[d]: droneClients
  rawSubs,   \* subscribedRawChannels
  focusCmds, \* commands in flight to drone:focus_set; `loop`: whose loop waits
  subCmds,   \* the commands in flight on the subscriber connection
  focusSet,  \* drone:focus_set in Redis
  redisSubs, \* the raw channels that Redis sends to the subscriber
  orphaned,  \* auxiliary: drones that a closed socket asked to focus, and that
             \* nobody took out of the focus since
  faults

watcherVars == <<rooms, focused, checking, left>>
pilotVars == <<asked, drone, clients, rawSubs>>
redisVars == <<focusSet, redisSubs, faults>>
vars == <<sock, watcherVars, pilotVars, focusCmds, subCmds, orphaned, redisVars>>

FocusCommand == [op : {"sadd", "srem"}, drone : Drones, loop : Watchers \cup {NoSocket}]
SubCommand == [op : {"subscribe", "unsubscribe"}, drone : Drones]

\* The shape of the state; a loop of handleDisconnect belongs to a closed
\* socket, and a handshake is either looked up or done.
TypeOK ==
  /\ sock \in [Sockets -> {"new", "open", "closed"}]
  /\ rooms \in [Drones -> SUBSET Watchers]
  /\ focused \in [Watchers -> SUBSET Drones]
  /\ checking \subseteq Watchers \X Drones
  /\ left \in [Watchers -> SUBSET Drones]
  /\ asked \in [Pilots -> Drones \cup {NoDrone}]
  /\ drone \in [Pilots -> Drones \cup {NoDrone}]
  /\ clients \in [Drones -> SUBSET Pilots]
  /\ rawSubs \subseteq Drones
  /\ focusCmds \in Seq(FocusCommand)
  /\ subCmds \in Seq(SubCommand)
  /\ focusSet \subseteq Drones
  /\ redisSubs \subseteq Drones
  /\ orphaned \subseteq Drones
  /\ faults \in 0 .. MaxFaults
  /\ \A w \in Watchers : left[w] # {} => sock[w] = "closed"
  /\ \A p \in Pilots : asked[p] # NoDrone => drone[p] = NoDrone

Init ==
  /\ sock = [s \in Sockets |-> "new"]
  /\ rooms = [d \in Drones |-> {}]
  /\ focused = [w \in Watchers |-> {}]
  /\ checking = {}
  /\ left = [w \in Watchers |-> {}]
  /\ asked = [p \in Pilots |-> NoDrone]
  /\ drone = [p \in Pilots |-> NoDrone]
  /\ clients = [d \in Drones |-> {}]
  /\ rawSubs = {}
  /\ focusCmds = <<>>
  /\ subCmds = <<>>
  /\ focusSet = {}
  /\ redisSubs = {}
  /\ orphaned = {}
  /\ faults = 0

Room == Len(focusCmds) < MaxCommands /\ Len(subCmds) < MaxCommands
SendFocus(op, d, s) ==
  focusCmds' = Append(focusCmds, [op |-> op, drone |-> d, loop |-> s])
\* removeFocusDrone.
TakeOut(d, s) == SendFocus("srem", d, s) /\ orphaned' = orphaned \ {d}

SendSub(op, d) == subCmds' = Append(subCmds, [op |-> op, drone |-> d])

\* Mutant: the socket of a client that comes back is the one it had.
CloseForReuse(s) == sock' = [sock EXCEPT ![s] = "new"]

Close(s) == sock' = [sock EXCEPT ![s] = "closed"]

\* The loop of handleDisconnect is in progress.
Looping(w) ==
  left[w] # {} \/ \E i \in 1 .. Len(focusCmds) : focusCmds[i].loop = w

-----------------------------------------------------------------------------
(* TelemetryGateway *)

\* handleConnection with a valid token.
WatcherConnects(w) ==
  /\ sock[w] = "new"
  /\ sock' = [sock EXCEPT ![w] = "open"]
  /\ UNCHANGED <<watcherVars, pilotVars, focusCmds, subCmds, orphaned, redisVars>>

\* Joining the room and asking for the focus, all before the next await.  The
\* join of a socket that is closed does nothing, what follows it does; a loop
\* over focusedDrones that is in progress meets what is added to it.
JoinRoom(w, d) ==
  LET met == IF Looping(w) THEN {d} \ focused[w] ELSE {}
  IN  /\ rooms' = IF sock[w] = "open" THEN [rooms EXCEPT ![d] = @ \cup {w}] ELSE rooms
      /\ focused' = [focused EXCEPT ![w] = @ \cup {d}]
      /\ left' = [left EXCEPT ![w] = @ \cup met]
      /\ orphaned' = IF sock[w] = "open" \/ met # {} THEN orphaned ELSE orphaned \cup {d}
      /\ SendFocus("sadd", d, NoSocket)

\* subscribe:drone.  An admin joins at once, a pilot's ownership is looked up.
Subscribe(w, d) ==
  /\ sock[w] = "open" /\ d \notin focused[w] /\ <<w, d>> \notin checking
  /\ Room
  /\ \/ w \in Admins /\ JoinRoom(w, d) /\ UNCHANGED checking
     \/ w \notin Admins /\ checking' = checking \cup {<<w, d>>}
        /\ UNCHANGED <<rooms, focused, left, focusCmds, orphaned>>
  /\ UNCHANGED <<sock, pilotVars, subCmds, redisVars>>

\* The owner goes on, even when the socket was closed meanwhile.
SubscribeChecked(w, d) ==
  /\ <<w, d>> \in checking
  /\ checking' = checking \ {<<w, d>>}
  /\ Room
  /\ JoinRoom(w, d)
  /\ UNCHANGED <<sock, pilotVars, subCmds, redisVars>>

\* Not the owner: nothing happens.
SubscribeRefused(w, d) ==
  /\ <<w, d>> \in checking
  /\ checking' = checking \ {<<w, d>>}
  /\ UNCHANGED <<sock, rooms, focused, left, pilotVars, focusCmds, subCmds, orphaned, redisVars>>

\* Mutant: the last one to leave a room by hand does not give up the focus.
UnsubscribeKeeps(w, d) ==
  /\ sock[w] = "open" /\ (d \in focused[w] \/ <<w, d>> \in checking) /\ Room
  /\ rooms' = [rooms EXCEPT ![d] = @ \ {w}]
  /\ focused' = [focused EXCEPT ![w] = @ \ {d}]
  /\ UNCHANGED <<sock, checking, left, pilotVars, focusCmds, subCmds, orphaned, redisVars>>

\* unsubscribe:drone, of a drone that the dashboard watches or asked to watch.
Unsubscribe(w, d) ==
  /\ sock[w] = "open" /\ (d \in focused[w] \/ <<w, d>> \in checking)
  /\ Room
  /\ rooms' = [rooms EXCEPT ![d] = @ \ {w}]
  /\ focused' = [focused EXCEPT ![w] = @ \ {d}]
  /\ IF rooms'[d] = {} THEN TakeOut(d, NoSocket) ELSE UNCHANGED <<focusCmds, orphaned>>
  /\ UNCHANGED <<sock, checking, left, pilotVars, subCmds, redisVars>>

\* The loop of handleDisconnect over `todo`, up to the next await: drones with
\* several sockets left in the room are passed over, the first one with at
\* most one socket left is taken out of the focus.
Sweep(w, todo) ==
  LET alone == {d \in todo : Cardinality(rooms'[d]) <= 1}
  IN  \/ /\ alone = {}
         /\ left' = [left EXCEPT ![w] = {}]
         /\ UNCHANGED <<focusCmds, orphaned>>
      \/ \E d \in alone, passed \in SUBSET (todo \ alone) :
           /\ left' = [left EXCEPT ![w] = todo \ (passed \cup {d})]
           /\ TakeOut(d, w)

\* handleDisconnect.  Socket.IO has taken the socket out of its rooms by then.
WatcherDisconnects(w) ==
  /\ sock[w] = "open"
  /\ Room
  /\ Close(w)
  /\ rooms' = [d \in Drones |-> rooms[d] \ {w}]
  /\ Sweep(w, focused[w])
  /\ UNCHANGED <<focused, checking, pilotVars, subCmds, redisVars>>

\* The loop goes on when the command it waited for is answered.
SweepOn(w) ==
  /\ left[w] # {}
  /\ \A i \in 1 .. Len(focusCmds) : focusCmds[i].loop # w
  /\ Room
  /\ UNCHANGED rooms
  /\ Sweep(w, left[w])
  /\ UNCHANGED <<sock, focused, checking, pilotVars, subCmds, redisVars>>

-----------------------------------------------------------------------------
(* MavlinkRelayGateway *)

InTime(d) == d \in Prompt => \A i \in 1 .. Len(subCmds) : subCmds[i].drone # d

\* handleConnection from its step 3 on: the first socket of a drone
\* subscribes its raw channel, unless it is subscribed, and asks for the focus.
Enter(p, d) ==
  /\ InTime(d)
  /\ drone' = [drone EXCEPT ![p] = d]
  /\ clients' = [clients EXCEPT ![d] = @ \cup {p}]
  /\ IF Cardinality(clients'[d]) = 1
       THEN /\ SendFocus("sadd", d, NoSocket)
            /\ IF d \in rawSubs THEN UNCHANGED subCmds ELSE SendSub("subscribe", d)
       ELSE UNCHANGED <<focusCmds, subCmds>>
  /\ UNCHANGED <<rawSubs, orphaned>>

\* handleConnection with a valid token and a drone.
PilotConnects(p, d) ==
  /\ sock[p] = "new"
  /\ Room
  /\ sock' = [sock EXCEPT ![p] = "open"]
  /\ \/ p \in Admins /\ Enter(p, d) /\ UNCHANGED asked
     \/ p \notin Admins /\ asked' = [asked EXCEPT ![p] = d]
        /\ UNCHANGED <<drone, clients, rawSubs, focusCmds, subCmds, orphaned>>
  /\ UNCHANGED <<watcherVars, redisVars>>

\* The owner goes on, even when the socket was closed meanwhile.
PilotChecked(p) ==
  /\ asked[p] # NoDrone
  /\ Room
  /\ asked' = [asked EXCEPT ![p] = NoDrone]
  /\ Enter(p, asked[p])
  /\ UNCHANGED <<sock, watcherVars, redisVars>>

\* Not the owner, or the query fails: the socket is closed.
PilotRefused(p) ==
  /\ asked[p] # NoDrone
  /\ asked' = [asked EXCEPT ![p] = NoDrone]
  /\ Close(p)
  /\ UNCHANGED <<watcherVars, drone, clients, rawSubs, focusCmds, subCmds, orphaned, redisVars>>

\* Mutant: the last pilot's leaving keeps the focus.
LeaveKeepsFocus(p) ==
  LET d == drone[p]
  IN  /\ clients' = [clients EXCEPT ![d] = @ \ {p}]
      /\ IF clients'[d] = {} /\ d \in rawSubs
           THEN SendSub("unsubscribe", d) ELSE UNCHANGED subCmds
      /\ UNCHANGED <<focusCmds, orphaned>>

\* The last socket of a drone unsubscribes its channel, if that is known to
\* be subscribed, and takes the drone out of the focus.
Leave(p) ==
  LET d == drone[p]
  IN  /\ clients' = [clients EXCEPT ![d] = @ \ {p}]
      /\ InTime(d)
      /\ IF clients'[d] = {}
           THEN /\ TakeOut(d, NoSocket)
                /\ IF d \in rawSubs THEN SendSub("unsubscribe", d) ELSE UNCHANGED subCmds
           ELSE UNCHANGED <<focusCmds, subCmds, orphaned>>

\* handleDisconnect; a socket whose handshake is not done has no droneId yet.
PilotDisconnects(p) ==
  /\ sock[p] = "open"
  /\ Room
  /\ Close(p)
  /\ \/ drone[p] # NoDrone /\ Leave(p)
     \/ drone[p] = NoDrone /\ UNCHANGED <<clients, focusCmds, subCmds, orphaned>>
  /\ UNCHANGED <<watcherVars, asked, drone, rawSubs, redisVars>>

-----------------------------------------------------------------------------
(* Redis *)

\* The next command to drone:focus_set is executed, or fails and is logged.
FocusReply ==
  /\ focusCmds # <<>>
  /\ focusCmds' = Tail(focusCmds)
  /\ LET c == Head(focusCmds)
     IN  \/ /\ focusSet' = IF c.op = "sadd" THEN focusSet \cup {c.drone}
                                            ELSE focusSet \ {c.drone}
            /\ UNCHANGED faults
         \/ /\ c.drone \in Refusable /\ faults < MaxFaults /\ faults' = faults + 1
            /\ UNCHANGED focusSet
  /\ UNCHANGED <<sock, watcherVars, pilotVars, subCmds, orphaned, redisSubs>>

\* Mutant: the callback of unsubscribe forgets the channel's mark.
SubReplyForgetful ==
  /\ subCmds # <<>>
  /\ subCmds' = Tail(subCmds)
  /\ LET c == Head(subCmds)
     IN  /\ redisSubs' = IF c.op = "subscribe" THEN redisSubs \cup {c.drone}
                                               ELSE redisSubs \ {c.drone}
         /\ rawSubs' = IF c.op = "subscribe" THEN rawSubs \cup {c.drone} ELSE rawSubs
  /\ UNCHANGED <<sock, watcherVars, asked, drone, clients, focusCmds, orphaned, focusSet, faults>>

\* The next subscription or unsubscription is executed, and its callback
\* marks the channel; on an error it marks nothing.
SubReply ==
  /\ subCmds # <<>>
  /\ subCmds' = Tail(subCmds)
  /\ LET c == Head(subCmds)
         Marked(S) == IF c.op = "subscribe" THEN S \cup {c.drone} ELSE S \ {c.drone}
     IN  \/ /\ redisSubs' = Marked(redisSubs)
            /\ rawSubs' = Marked(rawSubs)
            /\ UNCHANGED faults
         \/ /\ c.drone \in Refusable /\ faults < MaxFaults /\ faults' = faults + 1
            /\ UNCHANGED <<redisSubs, rawSubs>>
  /\ UNCHANGED <<sock, watcherVars, asked, drone, clients, focusCmds, orphaned, focusSet>>

-----------------------------------------------------------------------------

Next ==
  \/ \E w \in Watchers :
       \/ WatcherConnects(w) \/ WatcherDisconnects(w) \/ SweepOn(w)
       \/ \E d \in Drones : \/ <<w, d>> \in Opens /\ Subscribe(w, d)
                            \/ SubscribeChecked(w, d) \/ SubscribeRefused(w, d)
                            \/ Unsubscribe(w, d)
  \/ \E p \in Pilots :
       \/ PilotChecked(p) \/ PilotRefused(p) \/ PilotDisconnects(p)
       \/ \E d \in Drones : <<p, d>> \in Opens /\ PilotConnects(p, d)
  \/ FocusReply \/ SubReply

Spec == Init /\ [][Next]_vars

-----------------------------------------------------------------------------
(* Properties *)

\* No handler waits for anything and Redis has answered every command.
Quiet ==
  /\ focusCmds = <<>> /\ subCmds = <<>> /\ checking = {}
  /\ \A w \in Watchers : left[w] = {}
  /\ \A p \in Pilots : asked[p] = NoDrone

\* Whatever the two gateways' handlers interleave, a drone stays in the focus
\* only while one of the gateways still counts somebody on it, or because a
\* dashboard closed during the lookup of its subscription: its handler asks for
\* the focus with the room empty and handleDisconnect over, and the drone stays
\* until somebody else comes and goes.
FocusHasViewer ==
  Quiet /\ faults = 0 =>
    \A d \in focusSet : rooms[d] # {} \/ clients[d] # {} \/ d \in orphaned

\* A drone that no dashboard opens is in the focus exactly while the relay
\* counts a pilot on it: the commands of pilots that come and go keep their
\* order, whatever is in flight for other drones.
FocusFollowsPilots ==
  Quiet /\ faults = 0 =>
    \A d \in Drones \ Watchable : d \in focusSet <=> clients[d] # {}

\* While Redis answers in time, the raw channels that it sends are those of
\* the drones on which the relay counts a pilot.
SubscriptionFollowsPilots ==
  subCmds = <<>> /\ faults = 0 =>
    \A d \in Prompt : d \in redisSubs <=> clients[d] # {}
=============================================================================
