------------------------------- MODULE WebSsh -------------------------------
(***************************************************************************)
(* The terminal of the dashboard: WebSshGateway and WebSshService.  A      *)
(* browser's socket has one entry in the map of sessions, and the events   *)
(* of an SSH connection act on the entry of its socket, whatever session   *)
(* that entry names by then.  The ssh2 library and the drone are external: *)
(* an event of theirs comes at any time after what causes it.              *)
(*                                                                         *)
(* The lookups of createSshSession (database, then drone:ip_map) are one   *)
(* wait.  Keys typed and resizes go to the stream of the mapped session    *)
(* and change nothing here.                                                *)
(***************************************************************************)
EXTENDS Naturals, FiniteSets

CONSTANTS
  Browsers,   \* sockets of the namespace /ssh
  Sessions,   \* bound: the SSH connections that are ever made
  NoSession,
  NoBrowser,
  Patient,    \* browsers whose user waits for one terminal to end
  MaxWaiting  \* bound: requests of a browser in one and the same wait

ASSUME WebSshAssumption ==
  /\ NoSession \notin Sessions
  /\ NoBrowser \notin Browsers
  /\ Patient \subseteq Browsers
  /\ MaxWaiting \in Nat

VARIABLES
  sock,      \* sock[b]: "open" or "closed"
  authing,   \* authing[b]: ssh:connect requests that wait for the owner
  looking,   \* looking[b]: calls of createSshSession that wait for the address
  sessions,  \* sessions[b]: the map from socket to session
  phase,     \* phase[k]: what ssh2 does with the connection
  shell,     \* shell[k]: the channel of the terminal
  owner      \* owner[k]: the socket that the handlers of k have captured

vars == <<sock, authing, looking, sessions, phase, shell, owner>>

Live == {"connecting", "ready"}

\* The shape of the state; the terminal belongs to a connection that got ready.
TypeOK ==
  /\ sock \in [Browsers -> {"open", "closed"}]
  /\ authing \in [Browsers -> 0 .. MaxWaiting]
  /\ looking \in [Browsers -> 0 .. MaxWaiting]
  /\ sessions \in [Browsers -> Sessions \cup {NoSession}]
  /\ phase \in [Sessions -> {"unused", "ending", "closed"} \cup Live]
  /\ shell \in [Sessions -> {"none", "asked", "open", "closed"}]
  /\ owner \in [Sessions -> Browsers \cup {NoBrowser}]
  /\ \A k \in Sessions : phase[k] \in {"unused", "connecting"} => shell[k] = "none"

Init ==
  /\ sock = [b \in Browsers |-> "open"]
  /\ authing = [b \in Browsers |-> 0]
  /\ looking = [b \in Browsers |-> 0]
  /\ sessions = [b \in Browsers |-> NoSession]
  /\ phase = [k \in Sessions |-> "unused"]
  /\ shell = [k \in Sessions |-> "none"]
  /\ owner = [k \in Sessions |-> NoBrowser]

-----------------------------------------------------------------------------
(* WebSshService *)

\* phase after closeSshSession(b) and, before it, the change that made it.
Ended(ph, b) ==
  IF sessions[b] = NoSession THEN ph ELSE [ph EXCEPT ![sessions[b]] = "ending"]

Unmap(b) == sessions' = [sessions EXCEPT ![b] = NoSession]

\* Mutant: the entry is cleared, the connection is not ended.
CloseUnended(b) == Unmap(b) /\ UNCHANGED phase

\* closeSshSession: stream and client of the mapped session are ended.
CloseSshSession(b) == Unmap(b) /\ phase' = Ended(phase, b)

\* createSshSession once the address is known: the entry is overwritten.
\* When connect throws, the entry is cleared at once and no event follows.
StartSession(b, ph) ==
  \E k \in Sessions :
    /\ ph[k] = "unused"
    /\ owner' = [owner EXCEPT ![k] = b]
    /\ \/ /\ phase' = [ph EXCEPT ![k] = "connecting"]
          /\ sessions' = [sessions EXCEPT ![b] = k]
       \/ /\ phase' = [ph EXCEPT ![k] = "closed"]
          /\ Unmap(b)

\* createSshSession up to its first wait: the old session is closed, and a
\* target that is an address, or a temporary name made from one, needs no lookup.
CreateSshSession(b) ==
  \/ /\ StartSession(b, Ended(phase, b))
     /\ UNCHANGED looking
  \/ /\ looking[b] < MaxWaiting
     /\ looking' = [looking EXCEPT ![b] = @ + 1]
     /\ CloseSshSession(b)
     /\ UNCHANGED owner

\* The lookup is answered: an address, or an error to the browser.
Located(b) ==
  /\ looking[b] > 0
  /\ looking' = [looking EXCEPT ![b] = @ - 1]
  /\ \/ StartSession(b, phase)
     \/ UNCHANGED <<sessions, phase, owner>>
  /\ UNCHANGED <<sock, authing, shell>>

\* 'ready': the shell is asked for.
Ready(k) ==
  /\ phase[k] = "connecting"
  /\ phase' = [phase EXCEPT ![k] = "ready"]
  /\ shell' = [shell EXCEPT ![k] = "asked"]
  /\ UNCHANGED <<sock, authing, looking, sessions, owner>>

\* The callback of shell with a stream.
ShellOpens(k) ==
  /\ phase[k] = "ready" /\ shell[k] = "asked"
  /\ shell' = [shell EXCEPT ![k] = "open"]
  /\ UNCHANGED <<sock, authing, looking, sessions, phase, owner>>

\* The callback of shell with an error, or 'close' of the stream: whatever is
\* mapped for the socket is closed.  Both also happen after the client ended.
ShellEnds(k) ==
  /\ phase[k] \in {"ready", "ending"} /\ shell[k] \in {"asked", "open"}
  /\ shell' = [shell EXCEPT ![k] = "closed"]
  /\ CloseSshSession(owner[k])
  /\ UNCHANGED <<sock, authing, looking, owner>>

\* Mutant: a client that fails connects again and keeps its stream.
ClientRetries(k) ==
  /\ phase[k] \in Live
  /\ phase' = [phase EXCEPT ![k] = "connecting"]
  /\ UNCHANGED <<sock, authing, looking, sessions, shell, owner>>

\* 'error' of a client that is in use: unreachable, refused, timed out, cut off.
ClientFails(k) ==
  /\ phase[k] \in Live
  /\ phase' = [Ended(phase, owner[k]) EXCEPT ![k] = "ending"]
  /\ Unmap(owner[k])
  /\ UNCHANGED <<sock, authing, looking, shell, owner>>

\* Mutant: 'close' of the client leaves the map alone.
ClientClosesKept(k) ==
  /\ phase[k] \in {"ready", "ending"}
  /\ phase' = [phase EXCEPT ![k] = "closed"]
  /\ UNCHANGED <<sock, authing, looking, sessions, shell, owner>>

\* 'close' of the client, ended here or by the drone: the entry of its socket
\* is deleted.  No event of the connection follows.
ClientCloses(k) ==
  /\ phase[k] \in {"ready", "ending"}
  /\ phase' = [phase EXCEPT ![k] = "closed"]
  /\ Unmap(owner[k])
  /\ UNCHANGED <<sock, authing, looking, shell, owner>>

-----------------------------------------------------------------------------
(* WebSshGateway *)

\* A patient user asks for a terminal when the last one is gone and no request
\* waits, but leaves at any time.
Unhurried(b) ==
  b \in Patient =>
    /\ authing[b] = 0 /\ looking[b] = 0
    /\ \A k \in Sessions : owner[k] = b => phase[k] = "closed"

\* ssh:connect with a valid token: an admin goes on at once, for a pilot the
\* device is looked up.
Connect(b) ==
  /\ sock[b] = "open" /\ Unhurried(b)
  /\ \/ CreateSshSession(b) /\ UNCHANGED authing
     \/ /\ authing[b] < MaxWaiting
        /\ authing' = [authing EXCEPT ![b] = @ + 1]
        /\ UNCHANGED <<looking, sessions, phase, owner>>
  /\ UNCHANGED <<sock, shell>>

\* The device is found to be the pilot's, or the request is refused.
Authorised(b) ==
  /\ authing[b] > 0
  /\ authing' = [authing EXCEPT ![b] = @ - 1]
  /\ \/ CreateSshSession(b)
     \/ UNCHANGED <<looking, sessions, phase, owner>>
  /\ UNCHANGED <<sock, shell>>

\* ssh:disconnect
Disconnect(b) ==
  /\ sock[b] = "open"
  /\ CloseSshSession(b)
  /\ UNCHANGED <<sock, authing, looking, shell, owner>>

\* Mutant: the session outlives the socket.
LeaveOpen(b) ==
  /\ sock[b] = "open"
  /\ sock' = [sock EXCEPT ![b] = "closed"]
  /\ UNCHANGED <<authing, looking, sessions, phase, shell, owner>>

\* handleDisconnect
Leave(b) ==
  /\ sock[b] = "open"
  /\ sock' = [sock EXCEPT ![b] = "closed"]
  /\ CloseSshSession(b)
  /\ UNCHANGED <<authing, looking, shell, owner>>

Next ==
  \/ \E b \in Browsers :
       Connect(b) \/ Authorised(b) \/ Located(b) \/ Disconnect(b) \/ Leave(b)
  \/ \E k \in Sessions :
       Ready(k) \/ ShellOpens(k) \/ ShellEnds(k) \/ ClientFails(k) \/ ClientCloses(k)

\* Lookups are answered, and the socket of an ended connection closes.
Fairness ==
  /\ \A b \in Browsers : WF_vars(Authorised(b)) /\ WF_vars(Located(b))
  /\ \A k \in Sessions : WF_vars(phase[k] = "ending" /\ ClientCloses(k))

Spec == Init /\ [][Next]_vars
FairSpec == Spec /\ Fairness

-----------------------------------------------------------------------------
(* Properties *)

LiveSessions(b) == {k \in Sessions : owner[k] = b /\ phase[k] \in Live}

\* Whatever events of old and new connections of a socket interleave, the
\* keys that a user types never go to a connection that has ended.
MappedIsLive ==
  \A b \in Browsers :
    sessions[b] # NoSession => sessions[b] \in LiveSessions(b)

\* While a user waits for one terminal to end before the next is asked for,
\* no connection to a drone is lost from the map.
PatientIsMapped ==
  \A b \in Patient : LiveSessions(b) \subseteq {sessions[b]}

\* What a patient user connected is released after the socket closes, whatever
\* requests wait and whatever events are under way at that moment.  It speaks of
\* the connections made while the socket was open: a request that still waits
\* then goes on to make one that nobody closes but the drone.
LeavingReleases ==
  \A b \in Patient, k \in Sessions :
    [](owner[k] = b /\ sock[b] = "open" => (sock[b] = "closed" ~> phase[k] = "closed"))
=============================================================================
