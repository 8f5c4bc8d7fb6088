----------------------------- MODULE FleetCache -----------------------------
(***************************************************************************)
(* What the dashboard says of a drone: TelemetryService (the cache in      *)
(* memory, the heartbeat sweeper, the readers of the REST API), the rooms  *)
(* of TelemetryGateway and the fleet list of one administrator's browser.  *)
(*                                                                         *)
(* The ingestion service is seen from its outputs: the hash drone:states   *)
(* and messages, which reach a subscriber at most once.  A snapshot is its *)
(* connection flag and the age of its timestamp, which counts up to one    *)
(* more than Retention.  An object of the cache is shared: a reader that   *)
(* finds it stale marks it in place.  The automatic discovery of the same  *)
(* handler is in IdentityBinding.                                          *)
(***************************************************************************)
EXTENDS Naturals, FiniteSets

CONSTANTS
  Drones,
  Nothing,
  Timeout,     \* HEARTBEAT_TIMEOUT_MS (10 s)
  Retention,   \* MAX_CACHE_RETENTION_MS (5 min)
  MaxFaults    \* bound: messages lost, reads that fail, restarts, socket drops

ASSUME FleetAssumption ==
  /\ Timeout \in Nat \ {0}
  /\ Retention \in Nat
  /\ Timeout < Retention
  /\ MaxFaults \in Nat
  /\ Nothing \notin BOOLEAN

Age == 0 .. Retention + 1
Snapshot == [connected : BOOLEAN, age : Age]

ASSUME FleetNothing == Nothing \notin Snapshot

None == [d \in Drones |-> Nothing]

VARIABLES
  flying,     \* the drones whose frames reach the ingestion service
  states,     \* Redis: drone:states
  cache,      \* inMemoryCache
  flight,     \* fleetSingleFlightPromise: what it waits for
  got,        \* the states it has read
  known,      \* the drones that it lists telemetry of
  list,       \* cachedAllFleetDevices: the flag of each drone, or empty
  fresh,      \* the list is younger than 500 ms
  waiting,    \* the browser waits for the list
  up,         \* the browser's socket
  screen,     \* fleetDevices of the browser: the flag it shows
  withheld,   \* drones of which a message was lost, an outage announced to a
              \* closed socket, an outage marked by a reader, or the snapshot
              \* forgotten in a restart, since the browser last heard of them
              \* as online
  faults

server == <<cache, flight, got, known, list, fresh>>
browser == <<waiting, up, screen>>
vars == <<flying, states, server, browser, withheld, faults>>

\* The shape of the state; who waits for the list waits for a promise that runs.
FTypeOK ==
  /\ flying \subseteq Drones
  /\ states \in [Drones -> Snapshot \cup {Nothing}]
  /\ cache \in [Drones -> Snapshot \cup {Nothing}]
  /\ flight \in {"none", "read", "merge"}
  /\ got \in [Drones -> Snapshot \cup {Nothing}]
  /\ known \subseteq Drones
  /\ list \in [Drones -> BOOLEAN] \cup {None}
  /\ fresh \in BOOLEAN
  /\ waiting \in BOOLEAN
  /\ waiting => flight # "none"
  /\ up \in BOOLEAN
  /\ screen \in [Drones -> BOOLEAN \cup {Nothing}]
  /\ withheld \subseteq Drones
  /\ faults \in 0 .. MaxFaults

Init ==
  /\ flying = {}
  /\ states = None
  /\ cache = None
  /\ flight = "none"
  /\ got = None
  /\ known = {}
  /\ list = None
  /\ fresh = FALSE
  /\ waiting = FALSE
  /\ up = TRUE
  /\ screen = None
  /\ withheld = {}
  /\ faults = 0

Fault == faults < MaxFaults /\ faults' = faults + 1

\* RedisService: a read that fails counts as an empty hash.
GetAllTelemetryStates(ok) == IF ok THEN states ELSE None

Stale(s) == s # Nothing /\ s.age > Timeout
Online(s) == s # Nothing /\ s.connected

-----------------------------------------------------------------------------
(* The gateway and the browser's queue for rendering *)

\* broadcastTelemetry of one snapshot per drone of D, to the room of the
\* administrators; the browser's processTelemetryUpdate overwrites what it has.
Broadcast(D, flag) ==
  /\ screen' = IF up THEN [d \in Drones |-> IF d \in D THEN flag ELSE screen[d]] ELSE screen
  /\ withheld' = IF up /\ flag THEN withheld \ D
                 ELSE IF up \/ flag THEN withheld ELSE withheld \cup D

-----------------------------------------------------------------------------
(* Messages of the ingestion service *)

\* Mutant: the message is shown and not kept.
DeliverUncached(d, snap) ==
  /\ Broadcast({d}, snap.connected)
  /\ UNCHANGED <<cache, flight, got, known, list, fresh, waiting, up, faults>>

Deliver(d, snap) ==
  /\ cache' = [cache EXCEPT ![d] = snap]
  /\ Broadcast({d}, snap.connected)
  /\ UNCHANGED <<flight, got, known, list, fresh, waiting, up, faults>>

\* A message that no subscriber gets: what it says is only in drone:states.
Lose(d, snap) ==
  /\ Fault
  /\ withheld' = withheld \cup {d}
  /\ UNCHANGED <<server, browser>>

Publish(d, snap) ==
  /\ states' = [states EXCEPT ![d] = snap]
  /\ Deliver(d, snap) \/ Lose(d, snap)
  /\ UNCHANGED flying

Telemetry(d) == d \in flying /\ Publish(d, [connected |-> TRUE, age |-> 0])

\* The offline notice: the drone's last snapshot, with its old timestamp.
OfflineNotice(d) ==
  /\ d \notin flying
  /\ Stale(states[d]) /\ states[d].connected
  /\ Publish(d, [states[d] EXCEPT !.connected = FALSE])

-----------------------------------------------------------------------------
(* The heartbeat sweeper *)

Evicted == {d \in Drones : cache[d] # Nothing /\ cache[d].age > Retention}

\* Mutant: an entry is evicted before it is announced.
ExpiredLate == {d \in Drones : Stale(cache[d]) /\ cache[d].connected} \ Evicted

Expired == {d \in Drones : Stale(cache[d]) /\ cache[d].connected}

Sweep ==
  /\ Expired \cup Evicted # {}
  /\ cache' = [d \in Drones |-> IF d \in Evicted THEN Nothing
                                ELSE IF d \in Expired THEN [cache[d] EXCEPT !.connected = FALSE]
                                ELSE cache[d]]
  /\ Broadcast(Expired, FALSE)
  /\ UNCHANGED <<flying, states, flight, got, known, list, fresh, waiting, up, faults>>

-----------------------------------------------------------------------------
(* Readers *)

\* A reader marks the stale objects it meets; nobody is told.
MarkStale(D) ==
  LET marked == {d \in D : Stale(cache[d]) /\ cache[d].connected}
  IN /\ cache' = [d \in Drones |-> IF d \in marked
                                   THEN [cache[d] EXCEPT !.connected = FALSE] ELSE cache[d]]
     /\ withheld' = withheld \cup marked

\* getDeviceState; without an entry it reads drone:states and changes nothing.
ReadDevice(d) ==
  /\ Stale(cache[d]) /\ cache[d].connected
  /\ MarkStale({d})
  /\ UNCHANGED <<flying, states, flight, got, known, list, fresh, browser, faults>>

\* A list reaches the browser: it replaces what the browser has, except that
\* what fetchFleetData already knows of a drone wins.  An empty list empties it.
Answer(l) ==
  /\ waiting' = FALSE
  /\ screen' = [d \in Drones |-> IF l[d] = Nothing \/ screen[d] = Nothing THEN l[d] ELSE screen[d]]

\* Mutant: the promise ends and nobody is answered.
SettleNobody(l) == UNCHANGED <<waiting, screen>>

Settle(l) == IF waiting THEN Answer(l) ELSE UNCHANGED <<waiting, screen>>

\* getAllFleetStates, for the browser's refresh (every 30 s) or for someone else.
FleetRequest(own) ==
  /\ own => ~waiting
  /\ IF fresh /\ list # None
     THEN own /\ Answer(list) /\ UNCHANGED flight
     ELSE /\ waiting' = (waiting \/ own)
          /\ flight' = IF flight = "none" THEN "read" ELSE flight
          /\ UNCHANGED screen
  /\ UNCHANGED <<flying, states, cache, got, known, list, fresh, up, withheld, faults>>

\* fetchRawFleetFromStorage has the devices and reads drone:states.  The names it
\* goes on with are those of now.
FleetRead ==
  /\ flight = "read"
  /\ flight' = "merge"
  /\ \E ok \in BOOLEAN :
       /\ got' = GetAllTelemetryStates(ok)
       /\ IF ok THEN UNCHANGED faults ELSE Fault
  /\ known' = {d \in Drones : cache[d] # Nothing \/ got'[d] # Nothing}
  /\ UNCHANGED <<flying, states, cache, list, fresh, browser, withheld>>

Merged(d) == IF cache[d] # Nothing THEN cache[d] ELSE got[d]

FleetEnds ==
  /\ flight' = "none"
  /\ got' = None
  /\ known' = {}

\* After the maps of names it merges, the cache first.  The objects it lists are
\* the cache's own; a device of the table without any counts as offline.
FleetMerge ==
  /\ flight = "merge"
  /\ \A d \in known : Merged(d) # Nothing
  /\ list' = [d \in Drones |-> d \in known /\ Online(Merged(d)) /\ ~Stale(Merged(d))]
  /\ Settle(list')
  /\ MarkStale(known)
  /\ FleetEnds
  /\ fresh' = TRUE
  /\ UNCHANGED <<flying, states, up, faults>>

\* Mutant: the promise that failed stays.
FleetFailStuck ==
  /\ flight = "read" /\ Fault
  /\ UNCHANGED <<flying, states, server, browser, withheld>>

\* The database fails, or a name has lost its snapshot since (normalizing
\* nothing throws): the list as it was is the answer.
FleetFail ==
  /\ \/ flight = "read" /\ Fault
     \/ flight = "merge" /\ (\E d \in known : Merged(d) = Nothing) /\ UNCHANGED faults
  /\ Settle(list)
  /\ FleetEnds
  /\ UNCHANGED <<flying, states, cache, list, fresh, up, withheld>>

-----------------------------------------------------------------------------
(* Restart of the server, the browser's socket, the drones, time *)

\* onModuleInit: a new process warms its cache up from drone:states before it
\* serves.  A warm-up that reads nothing is not tried again, and forgets everyone.
Restart ==
  \E ok \in BOOLEAN :
    /\ IF ok THEN Fault ELSE faults + 1 < MaxFaults /\ faults' = faults + 2
    /\ cache' = GetAllTelemetryStates(ok)
    /\ withheld' = IF ok THEN withheld ELSE Drones
    /\ FleetEnds
    /\ list' = None
    /\ fresh' = FALSE
    /\ waiting' = FALSE
    /\ up' = FALSE
    /\ UNCHANGED <<flying, states, screen>>

SocketDrop ==
  /\ up /\ Fault
  /\ up' = FALSE
  /\ UNCHANGED <<flying, states, server, waiting, screen, withheld>>

\* The socket comes back: it asks for the rooms and not for what it missed.
SocketUp ==
  /\ ~up
  /\ up' = TRUE
  /\ UNCHANGED <<flying, states, server, waiting, screen, withheld, faults>>

Fly(d) ==
  /\ flying' = IF d \in flying THEN flying \ {d} ELSE flying \cup {d}
  /\ UNCHANGED <<states, server, browser, withheld, faults>>

Older(s) == IF s = Nothing \/ s.age > Retention THEN s ELSE [s EXCEPT !.age = @ + 1]

\* A drone that flies is never silent for longer than Timeout.
Tick ==
  /\ \A d \in flying : states[d] # Nothing => states[d].age < Timeout
  /\ states' = [d \in Drones |-> Older(states[d])]
  /\ cache' = [d \in Drones |-> Older(cache[d])]
  /\ got' = [d \in Drones |-> Older(got[d])]
  /\ fresh' = FALSE
  /\ UNCHANGED <<flying, flight, known, list, browser, withheld, faults>>

Next ==
  \/ \E d \in Drones : Telemetry(d) \/ OfflineNotice(d) \/ ReadDevice(d) \/ Fly(d)
  \/ Sweep
  \/ (\E own \in BOOLEAN : FleetRequest(own)) \/ FleetRead \/ FleetMerge \/ FleetFail
  \/ Restart \/ SocketDrop \/ SocketUp
  \/ Tick

Spec == Init /\ [][Next]_vars

\* Timers and promises run, the socket reconnects, time passes, and a drone that
\* flies is heard, or missed.  No reader has to come, and no offline notice: the
\* ingestion service may have restarted.
Fairness ==
  /\ WF_vars(Sweep)
  /\ WF_vars(FleetRead \/ FleetMerge \/ FleetFail)
  /\ WF_vars(SocketUp)
  /\ SF_vars(Tick)
  /\ \A d \in Drones : SF_vars(Telemetry(d))

FairSpec == Spec /\ Fairness

-----------------------------------------------------------------------------
(* Properties *)

\* What the browser shows as online is online in the cache too, so that the
\* sweeper has it still to announce, unless its going offline was withheld.
OnlineIsBacked ==
  \A d \in Drones : screen[d] = TRUE => Online(cache[d]) \/ d \in withheld

\* A drone that falls silent for good stops being shown online, whatever is
\* lost, restarted or evicted, unless its going offline was withheld.
OutageIsShown ==
  \A d \in Drones :
    <>[](d \notin flying) => <>[](screen[d] # TRUE \/ d \in withheld)

\* A browser that asks for the fleet is answered or its request dies with the
\* server: the shared promise is never left behind.
ReadersAreAnswered == waiting ~> ~waiting
=============================================================================
