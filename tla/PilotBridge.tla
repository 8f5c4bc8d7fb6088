---------------------------- MODULE PilotBridge ----------------------------
(***************************************************************************)
(* The pilot's ground station: WebSocketClient, LocalGcsServer,            *)
(* DroneBridgeCore, the login and the buttons of ControlWidget, with       *)
(* VideoRelay.  Qt runs all of it in one thread, one handler after the     *)
(* other; the socket, the gateway and QGroundControl act in between.       *)
(*                                                                         *)
(* QWebSocket is modelled as Qt documents it: open() drops the connection  *)
(* that is there without an event, close() ends in the event disconnected, *)
(* and so does a connection that cannot be made.                           *)
(***************************************************************************)
EXTENDS VideoRelay, Sequences

CONSTANTS
  Stations,    \* instances of QGroundControl
  MaxAttempts, \* attempts after which 1000 * (1 << attempts) fits no int
  MaxFaults    \* bound: connections that fail or drop

ASSUME BridgeAssumption ==
  /\ IsFiniteSet(Drones)
  /\ MaxAttempts \in Nat
  /\ MaxFaults \in Nat

VARIABLES
  token,     \* m_accessToken is there
  fetching,  \* a reply of fetchDevices is under way
  late,      \* ... and came after the logout
  selected,  \* the drone that the list shows as chosen
  active,    \* m_isActive of the core; the GCS server listens
  clients,   \* m_clients of the GCS server
  wanted,    \* m_shouldReconnect
  attempts,  \* m_reconnectAttempts
  timer,     \* m_reconnectTimer runs
  sock,      \* the QWebSocket
  pass,      \* the token of its URL is not empty
  lingers,   \* auxiliary: it was being connected when the bridge was stopped
  faults

ui == <<token, fetching, late, selected>>
link == <<wanted, attempts, timer, sock, pass, lingers>>
vars == <<video, ui, active, clients, link, faults>>

\* The shape of the state; nobody is connected to a bridge that is off.
PTypeOK ==
  /\ VideoTypeOK
  /\ token \in BOOLEAN
  /\ fetching \in BOOLEAN
  /\ late \in BOOLEAN
  /\ selected \in Drones \cup {Nothing}
  /\ active \in BOOLEAN
  /\ clients \subseteq Stations
  /\ wanted \in BOOLEAN
  /\ attempts \in 0 .. MaxFaults + 1
  /\ timer \in BOOLEAN
  /\ sock \in {"closed", "connecting", "open", "joined", "closing"}
  /\ pass \in BOOLEAN
  /\ lingers \in BOOLEAN
  /\ faults \in 0 .. MaxFaults
  /\ clients # {} => active

Init ==
  /\ VideoInit
  /\ token = FALSE
  /\ fetching = FALSE
  /\ late = FALSE
  /\ selected = Nothing
  /\ active = FALSE
  /\ clients = {}
  /\ wanted = FALSE
  /\ attempts = 0
  /\ timer = FALSE
  /\ sock = "closed"
  /\ pass = FALSE
  /\ lingers = FALSE
  /\ faults = 0

-----------------------------------------------------------------------------
(* WebSocketClient *)

ConnectToServer ==
  /\ wanted' = TRUE
  /\ attempts' = 0
  /\ sock' = "connecting"
  /\ pass' = token'
  /\ lingers' = FALSE
  /\ UNCHANGED timer

\* Mutant: the retry timer goes on.
DisconnectKeepingTimer ==
  /\ wanted' = FALSE
  /\ sock' = IF sock \in {"open", "joined"} THEN "closing" ELSE sock
  /\ lingers' = (sock = "connecting")
  /\ UNCHANGED <<attempts, timer, pass>>

\* isValid is true of a connection only: one that is being made goes on.
DisconnectFromServer ==
  /\ wanted' = FALSE
  /\ timer' = FALSE
  /\ sock' = IF sock \in {"open", "joined"} THEN "closing" ELSE sock
  /\ lingers' = (sock = "connecting")
  /\ UNCHANGED <<attempts, pass>>

OnConnected ==
  /\ sock = "connecting"
  /\ sock' = "open"
  /\ attempts' = 0
  /\ UNCHANGED <<video, ui, active, clients, wanted, timer, pass, lingers, faults>>

\* The handshake of Socket.IO: the namespace answers before it looks at the token.
OnJoined ==
  /\ sock = "open"
  /\ sock' = "joined"
  /\ UNCHANGED <<video, ui, active, clients, wanted, attempts, timer, pass, lingers, faults>>

\* The delay doubles up to 15 s, in an int: past MaxAttempts it is negative or
\* zero, and a timer with a negative delay may start or not.
OnDisconnected ==
  /\ sock' = "closed"
  /\ lingers' = FALSE
  /\ attempts' = IF wanted THEN attempts + 1 ELSE attempts
  /\ timer' \in IF ~wanted THEN {timer} ELSE IF attempts > MaxAttempts THEN BOOLEAN ELSE {TRUE}
  /\ UNCHANGED <<video, ui, active, clients, wanted, pass>>

Closed == sock = "closing" /\ OnDisconnected /\ UNCHANGED faults

\* A connection fails or drops.
Drop ==
  /\ sock \in {"connecting", "open", "joined"}
  /\ faults < MaxFaults /\ faults' = faults + 1
  /\ OnDisconnected

\* The gateway ends a connection without a token.
Reject == sock = "joined" /\ ~pass /\ OnDisconnected /\ UNCHANGED faults

OnReconnectTimeout ==
  /\ timer
  /\ timer' = FALSE
  /\ sock' = IF wanted THEN "connecting" ELSE sock
  /\ UNCHANGED <<video, ui, active, clients, wanted, attempts, pass, lingers, faults>>

-----------------------------------------------------------------------------
(* LocalGcsServer *)

StationConnects(c) ==
  /\ active /\ c \notin clients
  /\ clients' = clients \cup {c}
  /\ UNCHANGED <<video, ui, active, link, faults>>

StationLeaves(c) ==
  /\ c \in clients
  /\ clients' = clients \ {c}
  /\ UNCHANGED <<video, ui, active, link, faults>>

-----------------------------------------------------------------------------
(* DroneBridgeCore *)

\* startBridge of a bridge that is off; the TCP port may be taken.
StartBridge ==
  \/ /\ ConnectToServer
     /\ active' = TRUE
     /\ UNCHANGED <<video, clients>>
  \/ UNCHANGED <<video, active, clients, link>>

\* Mutant: the list of clients is left to the events of their sockets.
StopBridgeKeepingClients ==
  /\ active' = FALSE
  /\ DisconnectFromServer
  /\ StopIfRunning
  /\ UNCHANGED clients

StopBridge ==
  /\ active' = FALSE
  /\ clients' = {}
  /\ DisconnectFromServer
  /\ StopIfRunning

-----------------------------------------------------------------------------
(* ControlWidget and AuthService *)

\* updateUserData: the list is filled anew, its first drone is chosen, and a
\* bridge that is off is started for it.
UpdateUserData(devices) ==
  /\ selected' = IF devices = <<>> THEN Nothing ELSE Head(devices)
  /\ IF ~active /\ devices # <<>>
     THEN StartBridge
     ELSE UNCHANGED <<video, active, clients, link>>

\* The login brings the devices and asks for them again.
Login(devices) ==
  /\ ~token
  /\ token' = TRUE
  /\ fetching' = TRUE
  /\ UpdateUserData(devices)
  /\ UNCHANGED <<late, faults>>

RefreshDevices ==
  /\ token /\ ~fetching
  /\ fetching' = TRUE
  /\ UNCHANGED <<video, token, late, selected, active, clients, link, faults>>

\* The reply is used whether the pilot is still there or not.
DevicesFetched(devices) ==
  /\ fetching
  /\ fetching' = FALSE
  /\ late' = (late \/ ~token)
  /\ UNCHANGED <<token, faults>>
  /\ UpdateUserData(devices)

FetchFails ==
  /\ fetching
  /\ fetching' = FALSE
  /\ UNCHANGED <<video, token, late, selected, active, clients, link, faults>>

\* Mutant: only what the bridge brought up is taken down.
LogoutBridge ==
  /\ token
  /\ token' = FALSE
  /\ IF active THEN StopBridge ELSE UNCHANGED <<video, active, clients, link>>
  /\ UNCHANGED <<fetching, late, selected, faults>>

Logout ==
  /\ token
  /\ token' = FALSE
  /\ IF active THEN StopBridge ELSE StopIfRunning /\ UNCHANGED <<active, clients, link>>
  /\ UNCHANGED <<fetching, late, selected, faults>>

ToggleMavlink ==
  /\ token
  /\ UNCHANGED <<ui, faults>>
  /\ IF active THEN StopBridge ELSE selected # Nothing /\ StartBridge

ToggleVideo ==
  /\ token
  /\ IF running THEN StopRelay ELSE selected # Nothing /\ StartRelay(selected)
  /\ UNCHANGED <<ui, active, clients, link, faults>>

SelectDrone(d) ==
  /\ token /\ ~active /\ selected # Nothing
  /\ selected' = d
  /\ UNCHANGED <<video, token, fetching, late, active, clients, link, faults>>

-----------------------------------------------------------------------------

VideoActs == VideoStep /\ UNCHANGED <<ui, active, clients, link, faults>>

\* The lists of devices that the server may give.
Lists == {<<>>} \cup {<<d>> : d \in Drones}

Pilot ==
  \/ \E l \in Lists : Login(l) \/ DevicesFetched(l)
  \/ RefreshDevices \/ FetchFails \/ Logout
  \/ ToggleMavlink \/ ToggleVideo
  \/ \E d \in Drones : SelectDrone(d)

Network ==
  \/ OnConnected \/ OnJoined \/ Closed \/ Drop \/ Reject \/ OnReconnectTimeout
  \/ \E c \in Stations : StationConnects(c) \/ StationLeaves(c)

Next == Pilot \/ Network \/ VideoActs

Spec == Init /\ [][Next]_vars

-----------------------------------------------------------------------------
(* Properties *)

\* A bridge that is on has a connection, or the making of one, or a timer that
\* will try again, and never two of them, as long as the delay fits an int; a
\* bridge that is off has no timer.
BridgeIsAlive ==
  /\ active /\ attempts <= MaxAttempts + 1 => (sock \in {"connecting", "open", "joined"}) # timer
  /\ timer => active

\* After a logout nothing is on and nothing comes back by itself, and no socket
\* is or becomes connected with the former user's token - unless a list of
\* devices came in after the logout, and except for a socket that was being
\* connected when the bridge was stopped: isValid is not yet true of it, so it
\* goes on, joins and stays until it drops.
LoggedOutIsQuiet ==
  ~token /\ ~late =>
    /\ ~active /\ ~running /\ ~timer
    /\ sock \in {"closed", "closing"} \/ lingers
=============================================================================
