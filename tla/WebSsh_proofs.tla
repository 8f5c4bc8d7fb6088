--------------------------- MODULE WebSsh_proofs ---------------------------
(***************************************************************************)
(* Proofs about WebSsh, for every set of sockets and of SSH connections.   *)
(*                                                                         *)
(* That the map names live connections is inductive once each connection   *)
(* that was ever made is known to have an owner.  That a patient user      *)
(* loses none is not: a late 'close' or the end of an old terminal clears  *)
(* the entry, so it takes that a patient user has at most one connection   *)
(* that is not closed, and none while a request waits.                     *)
(***************************************************************************)
EXTENDS WebSsh, TLAPS

\* Every connection that was made belongs to a socket.
Owned == \A k \in Sessions : phase[k] # "unused" => owner[k] \in Browsers

MapInv == TypeOK /\ Owned /\ MappedIsLive

\* What a patient user has: one connection that is not closed at most, no two
\* requests, and not both a request and a connection.
OnlyOne(b) ==
  \A k, j \in Sessions :
    owner[k] = b /\ owner[j] = b /\ phase[k] # "closed" /\ phase[j] # "closed" => k = j
NoneWaits(b) == authing[b] = 0 /\ looking[b] = 0
AllClosed(b) == \A k \in Sessions : owner[k] = b => phase[k] = "closed"
OneAtATime(b) ==
  /\ OnlyOne(b)
  /\ authing[b] = 0 \/ (authing[b] = 1 /\ looking[b] = 0)
  /\ looking[b] = 0 \/ (looking[b] = 1 /\ authing[b] = 0)
  /\ NoneWaits(b) \/ AllClosed(b)
  /\ LiveSessions(b) \subseteq {sessions[b]}

PatientInv == \A b \in Patient : OneAtATime(b)


Phase == {"unused", "ending", "closed"} \cup Live

\* What a step may do to the connections before it makes one: end the one that
\* is mapped for its socket, or nothing.
EndsAtMost(ph, b) ==
  /\ ph \in [Sessions -> Phase]
  /\ \A k \in Sessions :
       ph[k] # phase[k] => k = sessions[b] /\ ph[k] = "ending" /\ owner[k] = b

\* The session that is mapped for a socket is one of its own.
LEMMA MappedIsOwn ==
  ASSUME MapInv, NEW b \in Browsers, sessions[b] # NoSession
  PROVE  sessions[b] \in Sessions /\ owner[sessions[b]] = b /\ phase[sessions[b]] \in Live
BY DEF MapInv, MappedIsLive, LiveSessions

\* Closing the session of a socket ends one connection of its own at most, and
\* leaves the mapped one no longer live.
LEMMA EndedEnds ==
  ASSUME MapInv, NEW b \in Browsers
  PROVE  /\ EndsAtMost(Ended(phase, b), b)
         /\ \A k \in Sessions : k = sessions[b] => Ended(phase, b)[k] = "ending"
<1>1. phase \in [Sessions -> Phase] BY DEF MapInv, TypeOK, Phase
<1>2. CASE sessions[b] = NoSession
  BY <1>1, <1>2, WebSshAssumption DEF Ended, EndsAtMost
<1>3. CASE sessions[b] # NoSession
  <2>1. /\ sessions[b] \in Sessions
        /\ owner[sessions[b]] = b
    BY <1>3, MappedIsOwn
  <2>2. Ended(phase, b) = [phase EXCEPT ![sessions[b]] = "ending"] BY <1>3 DEF Ended
  <2>3. QED BY <1>1, <2>1, <2>2 DEF EndsAtMost, Phase
<1>4. QED BY <1>2, <1>3

\* Clearing the entry of a socket while its connections end, if they do,
\* keeps the map on live connections.
LEMMA UnmapKeeps ==
  ASSUME MapInv, NEW b \in Browsers, Unmap(b), EndsAtMost(phase', b), UNCHANGED owner
  PROVE  /\ sessions' \in [Browsers -> Sessions \cup {NoSession}]
         /\ phase' \in [Sessions -> Phase]
         /\ Owned' /\ MappedIsLive'
<1>1. /\ sessions' \in [Browsers -> Sessions \cup {NoSession}]
      /\ phase' \in [Sessions -> Phase]
  BY DEF MapInv, TypeOK, Unmap, EndsAtMost
<1>2. Owned'
  BY DEF MapInv, TypeOK, Owned, EndsAtMost, Live
<1>3. MappedIsLive'
  <2>1. SUFFICES ASSUME NEW c \in Browsers, sessions'[c] # NoSession
                 PROVE  /\ sessions'[c] \in Sessions
                        /\ owner[sessions'[c]] = c
                        /\ phase'[sessions'[c]] \in Live
    BY DEF MappedIsLive, LiveSessions
  <2>2. c # b /\ sessions'[c] = sessions[c] BY <2>1 DEF MapInv, TypeOK, Unmap
  <2>3. /\ sessions[c] \in Sessions
        /\ owner[sessions[c]] = c
        /\ phase[sessions[c]] \in Live
    BY <2>1, <2>2, MappedIsOwn
  <2>4. phase'[sessions[c]] = phase[sessions[c]] BY <2>2, <2>3 DEF EndsAtMost
  <2>5. QED BY <2>2, <2>3, <2>4
<1>4. QED BY <1>1, <1>2, <1>3

\* Making a connection, after the old one of the socket was ended or not,
\* keeps the map on live connections.
LEMMA StartKeeps ==
  ASSUME MapInv, NEW b \in Browsers, NEW ph, EndsAtMost(ph, b), StartSession(b, ph)
  PROVE  /\ sessions' \in [Browsers -> Sessions \cup {NoSession}]
         /\ phase' \in [Sessions -> Phase]
         /\ owner' \in [Sessions -> Browsers \cup {NoBrowser}]
         /\ \A j \in Sessions : phase'[j] \in {"unused", "connecting"} => shell[j] = "none"
         /\ Owned' /\ MappedIsLive'
<1>1. PICK k \in Sessions :
        /\ ph[k] = "unused"
        /\ owner' = [owner EXCEPT ![k] = b]
        /\ \/ /\ phase' = [ph EXCEPT ![k] = "connecting"]
              /\ sessions' = [sessions EXCEPT ![b] = k]
           \/ /\ phase' = [ph EXCEPT ![k] = "closed"]
              /\ Unmap(b)
  BY DEF StartSession
<1>2. phase[k] = "unused" BY <1>1 DEF EndsAtMost
<1>3. /\ sessions' \in [Browsers -> Sessions \cup {NoSession}]
      /\ phase' \in [Sessions -> Phase]
      /\ owner' \in [Sessions -> Browsers \cup {NoBrowser}]
  BY <1>1 DEF MapInv, TypeOK, EndsAtMost, Phase, Live, Unmap
<1>4. \A j \in Sessions : j # k => phase'[j] = ph[j] /\ owner'[j] = owner[j]
  BY <1>1 DEF MapInv, TypeOK, EndsAtMost
<1>5. \A j \in Sessions : phase'[j] \in {"unused", "connecting"} => shell[j] = "none"
  BY <1>2, <1>4 DEF MapInv, TypeOK, EndsAtMost
<1>6. Owned'
  BY <1>1, <1>4 DEF MapInv, TypeOK, Owned, EndsAtMost, Live
<1>7. MappedIsLive'
  <2>1. SUFFICES ASSUME NEW c \in Browsers, sessions'[c] # NoSession
                 PROVE  /\ sessions'[c] \in Sessions
                        /\ owner'[sessions'[c]] = c
                        /\ phase'[sessions'[c]] \in Live
    BY DEF MappedIsLive, LiveSessions
  <2>2. CASE c = b
    BY <1>1, <2>1, <2>2 DEF MapInv, TypeOK, EndsAtMost, Unmap, Live
  <2>3. CASE c # b
    <3>1. sessions'[c] = sessions[c] BY <1>1, <2>3 DEF MapInv, TypeOK, Unmap
    <3>2. /\ sessions[c] \in Sessions
          /\ owner[sessions[c]] = c
          /\ phase[sessions[c]] \in Live
      BY <2>1, <3>1, MappedIsOwn
    <3>3. sessions[c] # k BY <1>2, <3>2 DEF Live
    <3>4. ph[sessions[c]] = phase[sessions[c]] BY <2>3, <3>2 DEF EndsAtMost
    <3>5. QED BY <1>4, <3>1, <3>2, <3>3, <3>4
  <2>4. QED BY <2>2, <2>3
<1>8. QED BY <1>3, <1>5, <1>6, <1>7

-----------------------------------------------------------------------------
(* The map names live connections *)

\* At the start no connection was made.
LEMMA InitMap == Init => MapInv
BY WebSshAssumption DEF Init, MapInv, TypeOK, Owned, MappedIsLive, Live

\* The calls of createSshSession.
LEMMA CreateKeeps ==
  ASSUME MapInv, NEW b \in Browsers, CreateSshSession(b)
  PROVE  /\ sessions' \in [Browsers -> Sessions \cup {NoSession}]
         /\ phase' \in [Sessions -> Phase]
         /\ owner' \in [Sessions -> Browsers \cup {NoBrowser}]
         /\ looking' \in [Browsers -> 0 .. MaxWaiting]
         /\ \A j \in Sessions : phase'[j] \in {"unused", "connecting"} => shell[j] = "none"
         /\ Owned' /\ MappedIsLive'
<1>1. EndsAtMost(Ended(phase, b), b) BY EndedEnds
<1>2. CASE StartSession(b, Ended(phase, b)) /\ UNCHANGED looking
  BY <1>1, <1>2, StartKeeps DEF MapInv, TypeOK
<1>3. CASE /\ looking[b] < MaxWaiting
           /\ looking' = [looking EXCEPT ![b] = @ + 1]
           /\ CloseSshSession(b)
           /\ UNCHANGED owner
  <2>1. Unmap(b) /\ phase' = Ended(phase, b) BY <1>3 DEF CloseSshSession
  <2>2. /\ sessions' \in [Browsers -> Sessions \cup {NoSession}]
        /\ phase' \in [Sessions -> Phase]
        /\ Owned' /\ MappedIsLive'
    BY <1>1, <1>3, <2>1, UnmapKeeps
  <2>3. looking' \in [Browsers -> 0 .. MaxWaiting]
    BY <1>3, WebSshAssumption DEF MapInv, TypeOK
  <2>4. \A j \in Sessions : phase'[j] \in {"unused", "connecting"} => shell[j] = "none"
    BY <1>1, <2>1 DEF MapInv, TypeOK, EndsAtMost
  <2>5. QED BY <1>3, <2>2, <2>3, <2>4 DEF MapInv, TypeOK
<1>4. QED BY <1>2, <1>3 DEF CreateSshSession

\* Every step keeps the map on live connections.
LEMMA NextMap == MapInv /\ [Next]_vars => MapInv'
<1> SUFFICES ASSUME MapInv, [Next]_vars PROVE MapInv' OBVIOUS
<1>1. ASSUME NEW b \in Browsers, Connect(b) PROVE MapInv'
  <2>1. CASE CreateSshSession(b) /\ UNCHANGED authing
    BY <1>1, <2>1, CreateKeeps DEF Connect, MapInv, TypeOK, Phase
  <2>2. CASE /\ authing[b] < MaxWaiting
             /\ authing' = [authing EXCEPT ![b] = @ + 1]
             /\ UNCHANGED <<looking, sessions, phase, owner>>
    BY <1>1, <2>2, WebSshAssumption
    DEF Connect, MapInv, TypeOK, Owned, MappedIsLive, LiveSessions
  <2>3. QED BY <1>1, <2>1, <2>2 DEF Connect
<1>2. ASSUME NEW b \in Browsers, Authorised(b) PROVE MapInv'
  <2>1. authing' \in [Browsers -> 0 .. MaxWaiting]
    BY <1>2, WebSshAssumption DEF Authorised, MapInv, TypeOK
  <2>2. CASE CreateSshSession(b)
    BY <1>2, <2>1, <2>2, CreateKeeps DEF Authorised, MapInv, TypeOK, Phase
  <2>3. CASE UNCHANGED <<looking, sessions, phase, owner>>
    BY <1>2, <2>1, <2>3 DEF Authorised, MapInv, TypeOK, Owned, MappedIsLive, LiveSessions
  <2>4. QED BY <1>2, <2>2, <2>3 DEF Authorised
<1>3. ASSUME NEW b \in Browsers, Located(b) PROVE MapInv'
  <2>1. looking' \in [Browsers -> 0 .. MaxWaiting]
    BY <1>3, WebSshAssumption DEF Located, MapInv, TypeOK
  <2>2. EndsAtMost(phase, b) BY DEF MapInv, TypeOK, EndsAtMost, Phase
  <2>3. CASE StartSession(b, phase)
    BY <1>3, <2>1, <2>2, <2>3, StartKeeps DEF Located, MapInv, TypeOK, Phase
  <2>4. CASE UNCHANGED <<sessions, phase, owner>>
    BY <1>3, <2>1, <2>4 DEF Located, MapInv, TypeOK, Owned, MappedIsLive, LiveSessions
  <2>5. QED BY <1>3, <2>3, <2>4 DEF Located
<1>4. ASSUME NEW b \in Browsers, Disconnect(b) \/ Leave(b) PROVE MapInv'
  <2>1. Unmap(b) /\ phase' = Ended(phase, b) /\ UNCHANGED <<owner, shell, authing, looking>>
    BY <1>4 DEF Disconnect, Leave, CloseSshSession
  <2>2. EndsAtMost(phase', b) BY <2>1, EndedEnds
  <2>3. sock' \in [Browsers -> {"open", "closed"}]
    BY <1>4 DEF Disconnect, Leave, MapInv, TypeOK
  <2>4. \A k \in Sessions : phase'[k] \in {"unused", "connecting"} => shell'[k] = "none"
    BY <2>1, <2>2 DEF EndsAtMost, MapInv, TypeOK
  <2>5. QED BY <2>1, <2>2, <2>3, <2>4, UnmapKeeps DEF MapInv, TypeOK, Phase
<1>5. ASSUME NEW k \in Sessions, Ready(k) PROVE MapInv'
  BY <1>5 DEF Ready, MapInv, TypeOK, Owned, MappedIsLive, LiveSessions, Live
<1>6. ASSUME NEW k \in Sessions, ShellOpens(k) PROVE MapInv'
  BY <1>6 DEF ShellOpens, MapInv, TypeOK, Owned, MappedIsLive, LiveSessions, Live
<1>7. ASSUME NEW k \in Sessions, ShellEnds(k) PROVE MapInv'
  <2>1. /\ Unmap(owner[k]) /\ phase' = Ended(phase, owner[k])
        /\ shell' = [shell EXCEPT ![k] = "closed"]
        /\ UNCHANGED <<sock, authing, looking, owner>>
    BY <1>7 DEF ShellEnds, CloseSshSession
  <2>2. owner[k] \in Browsers BY <1>7 DEF ShellEnds, MapInv, Owned
  <2>3. EndsAtMost(phase', owner[k]) BY <2>1, <2>2, EndedEnds
  <2>4. \A j \in Sessions : phase'[j] \in {"unused", "connecting"} => shell'[j] = "none"
    BY <1>7, <2>1, <2>3 DEF ShellEnds, EndsAtMost, MapInv, TypeOK
  <2>5. shell' \in [Sessions -> {"none", "asked", "open", "closed"}]
    BY <2>1 DEF MapInv, TypeOK
  <2>6. QED BY <2>1, <2>2, <2>3, <2>4, <2>5, UnmapKeeps DEF MapInv, TypeOK, Phase
<1>8. ASSUME NEW k \in Sessions, ClientFails(k) \/ ClientCloses(k) PROVE MapInv'
  <2>1. PICK b \in Browsers : b = owner[k]
    BY <1>8 DEF ClientFails, ClientCloses, MapInv, Owned, Live
  <2>2. /\ Unmap(b)
        /\ UNCHANGED <<sock, authing, looking, shell, owner>>
    BY <1>8, <2>1 DEF ClientFails, ClientCloses
  <2>3. /\ phase' \in [Sessions -> Phase]
        /\ phase'[k] \in {"ending", "closed"}
        /\ \A j \in Sessions : phase'[j] # phase[j] =>
             (j = k \/ j = sessions[b]) /\ phase'[j] \in {"ending", "closed"}
    <3>1. EndsAtMost(Ended(phase, b), b) BY EndedEnds
    <3>2. phase \in [Sessions -> Phase] BY DEF MapInv, TypeOK, Phase
    <3>3. CASE ClientFails(k)
      <4>1. phase' = [Ended(phase, b) EXCEPT ![k] = "ending"]
        BY <2>1, <3>3 DEF ClientFails
      <4>2. QED BY <3>1, <4>1 DEF EndsAtMost, Phase
    <3>4. CASE ClientCloses(k)
      <4>1. phase' = [phase EXCEPT ![k] = "closed"] BY <3>4 DEF ClientCloses
      <4>2. QED BY <3>2, <4>1 DEF Phase
    <3>5. QED BY <1>8, <3>3, <3>4
  <2>4. TypeOK' BY <2>2, <2>3 DEF MapInv, TypeOK, Unmap, Phase
  <2>5. Owned' BY <1>8, <2>2, <2>3, EndedEnds
    DEF ClientFails, ClientCloses, MapInv, TypeOK, Owned, Live, EndsAtMost
  <2>6. MappedIsLive'
    <3>1. SUFFICES ASSUME NEW c \in Browsers, sessions'[c] # NoSession
                   PROVE  /\ sessions'[c] \in Sessions
                          /\ owner'[sessions'[c]] = c
                          /\ phase'[sessions'[c]] \in Live
      BY DEF MappedIsLive, LiveSessions
    <3>2. c # b /\ sessions'[c] = sessions[c] BY <2>2, <3>1 DEF MapInv, TypeOK, Unmap
    <3>3. /\ sessions[c] \in Sessions
          /\ owner[sessions[c]] = c
          /\ phase[sessions[c]] \in Live
      BY <3>1, <3>2, MappedIsOwn
    <3>4. sessions[c] # k BY <2>1, <3>2, <3>3
    <3>5. sessions[c] # sessions[b]
      BY <3>2, <3>3, MappedIsOwn, WebSshAssumption
    <3>6. phase'[sessions[c]] = phase[sessions[c]] BY <2>3, <3>3, <3>4, <3>5
    <3>7. QED BY <2>2, <3>2, <3>3, <3>6
  <2>7. QED BY <2>4, <2>5, <2>6 DEF MapInv
<1>9. CASE UNCHANGED vars
  BY <1>9 DEF vars, MapInv, TypeOK, Owned, MappedIsLive, LiveSessions
<1>10. QED
  BY <1>1, <1>2, <1>3, <1>4, <1>5, <1>6, <1>7, <1>8, <1>9 DEF Next

\* Whatever requests, failures and late events interleave, the state keeps
\* its types: a terminal belongs to a connection that got ready.
THEOREM TypeCorrect == Spec => []TypeOK
<1>1. MapInv => TypeOK BY DEF MapInv
<1>2. QED BY InitMap, NextMap, <1>1, PTL DEF Spec

\* The map of WebSshService never names a connection that has ended: the
\* handlers that clear an entry do so before its connection is gone.
THEOREM MappedStaysLive == Spec => []MappedIsLive
<1>1. MapInv => MappedIsLive BY DEF MapInv
<1>2. QED BY InitMap, NextMap, <1>1, PTL DEF Spec

-----------------------------------------------------------------------------
(* A patient user loses no connection *)

LEMMA InitPatient == Init => PatientInv
BY WebSshAssumption DEF Init, PatientInv, OneAtATime, OnlyOne, NoneWaits, AllClosed,
  LiveSessions, Live

\* A step that makes no connection for a socket, revives none of its own and
\* unmaps it only when none is live leaves it with one at a time.
LEMMA Quieter ==
  ASSUME NEW b \in Browsers, OneAtATime(b),
         authing'[b] = authing[b], looking'[b] = looking[b],
         \A k \in Sessions : owner'[k] = b =>
           /\ owner[k] = b
           /\ phase[k] = "closed" => phase'[k] = "closed"
           /\ phase'[k] \in Live => phase[k] \in Live,
         sessions'[b] = sessions[b]
           \/ \A k \in Sessions : owner'[k] = b => phase'[k] \notin Live
  PROVE  OneAtATime(b)'
BY DEF OneAtATime, OnlyOne, NoneWaits, AllClosed, LiveSessions

\* Making a connection for a socket all of whose connections are closed.
LEMMA StartAlone ==
  ASSUME MapInv, NEW b \in Browsers, AllClosed(b), NEW ph, EndsAtMost(ph, b),
         StartSession(b, ph), authing'[b] = 0, looking'[b] = 0
  PROVE  OneAtATime(b)'
<1>1. PICK k \in Sessions :
        /\ ph[k] = "unused"
        /\ owner' = [owner EXCEPT ![k] = b]
        /\ \/ /\ phase' = [ph EXCEPT ![k] = "connecting"]
              /\ sessions' = [sessions EXCEPT ![b] = k]
           \/ /\ phase' = [ph EXCEPT ![k] = "closed"]
              /\ Unmap(b)
  BY DEF StartSession
<1>2. \A j \in Sessions : ph[j] = phase[j]
  BY WebSshAssumption, MappedIsOwn DEF EndsAtMost, AllClosed, Live
<1>3. \A j \in Sessions : j # k /\ owner'[j] = b => phase'[j] = "closed"
  BY <1>1, <1>2 DEF AllClosed, EndsAtMost, MapInv, TypeOK
<1>4. phase'[k] \in Live => sessions'[b] = k
  BY <1>1 DEF EndsAtMost, MapInv, TypeOK, Live
<1>5. QED
  BY <1>3, <1>4 DEF OneAtATime, OnlyOne, NoneWaits, AllClosed, LiveSessions, Live

\* A call of createSshSession when all connections of the socket are closed.
LEMMA CreateAlone ==
  ASSUME MapInv, NEW b \in Browsers, AllClosed(b), looking[b] = 0, authing'[b] = 0,
         CreateSshSession(b)
  PROVE  OneAtATime(b)'
<1>1. EndsAtMost(Ended(phase, b), b) BY EndedEnds
<1>2. CASE StartSession(b, Ended(phase, b)) /\ UNCHANGED looking
  BY <1>1, <1>2, StartAlone
<1>3. CASE /\ looking' = [looking EXCEPT ![b] = @ + 1]
           /\ CloseSshSession(b)
           /\ UNCHANGED owner
  <2>1. looking'[b] = 1 BY <1>3 DEF MapInv, TypeOK
  <2>2. phase' = Ended(phase, b) BY <1>3 DEF CloseSshSession
  <2>3. \A j \in Sessions : phase'[j] = phase[j]
    BY <1>1, <2>2, WebSshAssumption, MappedIsOwn DEF EndsAtMost, AllClosed, Live
  <2>4. AllClosed(b)' BY <1>3, <2>3 DEF AllClosed
  <2>5. QED BY <2>1, <2>4 DEF OneAtATime, OnlyOne, AllClosed, LiveSessions, Live
<1>4. QED BY <1>2, <1>3 DEF CreateSshSession

\* What createSshSession of another socket changes is not this socket's.
LEMMA StartElsewhere ==
  ASSUME MapInv, NEW b \in Browsers, NEW c \in Browsers, b # c, NEW ph,
         EndsAtMost(ph, c), StartSession(c, ph)
  PROVE  /\ sessions'[b] = sessions[b]
         /\ \A k \in Sessions : owner'[k] = b => owner[k] = b /\ phase'[k] = phase[k]
<1>1. PICK k \in Sessions :
        /\ owner' = [owner EXCEPT ![k] = c]
        /\ \/ /\ phase' = [ph EXCEPT ![k] = "connecting"]
              /\ sessions' = [sessions EXCEPT ![c] = k]
           \/ /\ phase' = [ph EXCEPT ![k] = "closed"]
              /\ Unmap(c)
  BY DEF StartSession
<1>2. QED BY <1>1 DEF MapInv, TypeOK, EndsAtMost, Unmap

\* So is what ends when the entry of another socket is cleared.
LEMMA CloseElsewhere ==
  ASSUME MapInv, NEW b \in Browsers, NEW c \in Browsers, b # c,
         CloseSshSession(c), UNCHANGED owner
  PROVE  /\ sessions'[b] = sessions[b]
         /\ \A k \in Sessions : owner'[k] = b => owner[k] = b /\ phase'[k] = phase[k]
BY EndedEnds DEF CloseSshSession, Unmap, EndsAtMost, MapInv, TypeOK

LEMMA CreateElsewhere ==
  ASSUME MapInv, NEW b \in Browsers, NEW c \in Browsers, b # c, CreateSshSession(c)
  PROVE  /\ sessions'[b] = sessions[b] /\ looking'[b] = looking[b]
         /\ \A k \in Sessions : owner'[k] = b => owner[k] = b /\ phase'[k] = phase[k]
BY EndedEnds, StartElsewhere, CloseElsewhere DEF CreateSshSession, MapInv, TypeOK

\* Closing the session of a socket that has one at a time leaves none live.
LEMMA CloseOwn ==
  ASSUME MapInv, NEW b \in Browsers, OneAtATime(b), CloseSshSession(b),
         UNCHANGED <<owner, authing, looking>>
  PROVE  OneAtATime(b)'
<1>1. phase' = Ended(phase, b) BY DEF CloseSshSession
<1>2. /\ \A k \in Sessions : phase'[k] # phase[k] => k = sessions[b] /\ phase'[k] = "ending"
      /\ \A k \in Sessions : k = sessions[b] => phase'[k] = "ending"
  BY <1>1, EndedEnds DEF EndsAtMost
<1>3. \A k \in Sessions : owner[k] = b => phase'[k] \notin Live
  BY <1>2 DEF OneAtATime, LiveSessions, Live
<1>4. \A k \in Sessions : phase[k] = "closed" => phase'[k] = "closed"
  BY <1>2, MappedIsOwn, WebSshAssumption DEF Live
<1>5. QED BY <1>3, <1>4, Quieter

\* Every step keeps every patient user at one connection at a time.
LEMMA NextPatient == MapInv /\ PatientInv /\ [Next]_vars => PatientInv'
<1> SUFFICES ASSUME MapInv, PatientInv, [Next]_vars, NEW b \in Patient
             PROVE  OneAtATime(b)'
  BY DEF PatientInv
<1>a. b \in Browsers BY WebSshAssumption
<1>b. OneAtATime(b) BY DEF PatientInv
<1>c. EndsAtMost(phase, b) BY DEF MapInv, TypeOK, EndsAtMost, Phase
<1>1. ASSUME NEW c \in Browsers, Connect(c), c # b PROVE OneAtATime(b)'
  <2>1. authing'[b] = authing[b] /\ looking'[b] = looking[b] /\ sessions'[b] = sessions[b]
    BY <1>1, <1>a, CreateElsewhere DEF Connect, MapInv, TypeOK
  <2>2. \A k \in Sessions : owner'[k] = b => owner[k] = b /\ phase'[k] = phase[k]
    BY <1>1, <1>a, CreateElsewhere DEF Connect
  <2>3. QED BY <1>a, <1>b, <2>1, <2>2, Quieter
<1>2. ASSUME Connect(b) PROVE OneAtATime(b)'
  <2>1. authing[b] = 0 /\ looking[b] = 0 /\ AllClosed(b)
    BY <1>2 DEF Connect, Unhurried, AllClosed
  <2>2. CASE CreateSshSession(b) /\ UNCHANGED authing
    BY <1>a, <2>1, <2>2, CreateAlone
  <2>3. CASE /\ authing' = [authing EXCEPT ![b] = @ + 1]
             /\ UNCHANGED <<looking, sessions, phase, owner>>
    <3>1. authing'[b] = 1 /\ looking'[b] = 0 BY <1>a, <2>1, <2>3 DEF MapInv, TypeOK
    <3>2. AllClosed(b)' BY <2>1, <2>3 DEF AllClosed
    <3>3. QED BY <3>1, <3>2 DEF OneAtATime, OnlyOne, AllClosed, LiveSessions, Live
  <2>4. QED BY <1>2, <2>2, <2>3 DEF Connect
<1>3. ASSUME NEW c \in Browsers, Authorised(c), c # b PROVE OneAtATime(b)'
  <2>1. authing'[b] = authing[b] /\ looking'[b] = looking[b] /\ sessions'[b] = sessions[b]
    BY <1>3, <1>a, CreateElsewhere DEF Authorised, MapInv, TypeOK
  <2>2. \A k \in Sessions : owner'[k] = b => owner[k] = b /\ phase'[k] = phase[k]
    BY <1>3, <1>a, CreateElsewhere DEF Authorised
  <2>3. QED BY <1>a, <1>b, <2>1, <2>2, Quieter
<1>4. ASSUME Authorised(b) PROVE OneAtATime(b)'
  <2>1. authing[b] = 1 /\ looking[b] = 0 /\ AllClosed(b)
    BY <1>4, <1>b DEF Authorised, OneAtATime, NoneWaits
  <2>2. authing'[b] = 0 BY <1>4, <1>a, <2>1 DEF Authorised, MapInv, TypeOK
  <2>3. CASE CreateSshSession(b)
    BY <1>a, <2>1, <2>2, <2>3, CreateAlone
  <2>4. CASE UNCHANGED <<looking, sessions, phase, owner>>
    BY <2>1, <2>2, <2>4 DEF OneAtATime, OnlyOne, NoneWaits, AllClosed, LiveSessions, Live
  <2>5. QED BY <1>4, <2>3, <2>4 DEF Authorised
<1>5. ASSUME NEW c \in Browsers, Located(c), c # b PROVE OneAtATime(b)'
  <2>1. EndsAtMost(phase, c) BY DEF MapInv, TypeOK, EndsAtMost, Phase
  <2>2. authing'[b] = authing[b] /\ looking'[b] = looking[b] /\ sessions'[b] = sessions[b]
    BY <1>5, <1>a, <2>1, StartElsewhere DEF Located, MapInv, TypeOK
  <2>3. \A k \in Sessions : owner'[k] = b => owner[k] = b /\ phase'[k] = phase[k]
    BY <1>5, <1>a, <2>1, StartElsewhere DEF Located
  <2>4. QED BY <1>a, <1>b, <2>2, <2>3, Quieter
<1>6. ASSUME Located(b) PROVE OneAtATime(b)'
  <2>1. looking[b] = 1 /\ authing[b] = 0 /\ AllClosed(b)
    BY <1>6, <1>b DEF Located, OneAtATime, NoneWaits
  <2>2. looking'[b] = 0 /\ authing'[b] = 0
    BY <1>6, <1>a, <2>1 DEF Located, MapInv, TypeOK
  <2>3. CASE StartSession(b, phase)
    BY <1>a, <1>c, <2>1, <2>2, <2>3, StartAlone
  <2>4. CASE UNCHANGED <<sessions, phase, owner>>
    BY <2>1, <2>2, <2>4 DEF OneAtATime, OnlyOne, NoneWaits, AllClosed, LiveSessions, Live
  <2>5. QED BY <1>6, <2>3, <2>4 DEF Located
<1>7. ASSUME NEW c \in Browsers, Disconnect(c) \/ Leave(c) PROVE OneAtATime(b)'
  <2>1. CloseSshSession(c) /\ UNCHANGED <<owner, authing, looking>>
    BY <1>7 DEF Disconnect, Leave
  <2>2. CASE c = b BY <1>a, <1>b, <2>1, <2>2, CloseOwn
  <2>3. CASE c # b BY <1>a, <1>b, <2>1, <2>3, CloseElsewhere, Quieter
  <2>4. QED BY <2>2, <2>3
<1>8. ASSUME NEW k \in Sessions, Ready(k) \/ ShellOpens(k) PROVE OneAtATime(b)'
  <2>1. UNCHANGED <<authing, looking, sessions, owner>>
    BY <1>8 DEF Ready, ShellOpens
  <2>2. \A j \in Sessions : /\ phase[j] = "closed" => phase'[j] = "closed"
                            /\ phase'[j] \in Live => phase[j] \in Live
    BY <1>8 DEF Ready, ShellOpens, Live, MapInv, TypeOK
  <2>3. QED BY <1>a, <1>b, <2>1, <2>2, Quieter
<1>9. ASSUME NEW k \in Sessions, ShellEnds(k) PROVE OneAtATime(b)'
  <2>1. CloseSshSession(owner[k]) /\ UNCHANGED <<owner, authing, looking>>
    BY <1>9 DEF ShellEnds
  <2>2. owner[k] \in Browsers BY <1>9 DEF ShellEnds, MapInv, Owned
  <2>3. CASE owner[k] = b BY <1>a, <1>b, <2>1, <2>3, CloseOwn
  <2>4. CASE owner[k] # b BY <1>a, <1>b, <2>1, <2>2, <2>4, CloseElsewhere, Quieter
  <2>5. QED BY <2>3, <2>4
<1>10. ASSUME NEW k \in Sessions, ClientFails(k) PROVE OneAtATime(b)'
  <2>1. /\ phase[k] \in Live
        /\ phase' = [Ended(phase, owner[k]) EXCEPT ![k] = "ending"]
        /\ Unmap(owner[k])
        /\ UNCHANGED <<authing, looking, owner>>
    BY <1>10 DEF ClientFails
  <2>2. owner[k] \in Browsers BY <2>1 DEF MapInv, Owned, Live
  <2>3. EndsAtMost(Ended(phase, owner[k]), owner[k]) BY <2>2, EndedEnds
  <2>4. phase'[k] = "ending" BY <2>1, <2>3 DEF EndsAtMost
  <2>5. \A j \in Sessions : j # k /\ phase'[j] # phase[j] =>
          j = sessions[owner[k]] /\ phase'[j] = "ending"
    BY <2>1, <2>3 DEF EndsAtMost
  <2>6. \A j \in Sessions : /\ phase[j] = "closed" => phase'[j] = "closed"
                            /\ phase'[j] \in Live => phase[j] \in Live
    BY <2>1, <2>2, <2>4, <2>5, MappedIsOwn, WebSshAssumption DEF Live
  <2>7. CASE owner[k] = b
    <3>1. \A j \in Sessions : owner[j] = b => phase'[j] \notin Live
      BY <1>b, <2>1, <2>4, <2>6, <2>7 DEF OneAtATime, OnlyOne, Live
    <3>2. QED BY <1>a, <1>b, <2>1, <2>6, <3>1, Quieter
  <2>8. CASE owner[k] # b
    <3>1. sessions'[b] = sessions[b] BY <1>a, <2>1, <2>8 DEF Unmap, MapInv, TypeOK
    <3>2. QED BY <1>a, <1>b, <2>1, <2>6, <3>1, Quieter
  <2>9. QED BY <2>7, <2>8
<1>11. ASSUME NEW k \in Sessions, ClientCloses(k) PROVE OneAtATime(b)'
  <2>1. /\ phase[k] # "closed"
        /\ phase' = [phase EXCEPT ![k] = "closed"]
        /\ Unmap(owner[k])
        /\ UNCHANGED <<authing, looking, owner>>
    BY <1>11 DEF ClientCloses
  <2>2. \A j \in Sessions : /\ phase[j] = "closed" => phase'[j] = "closed"
                            /\ phase'[j] \in Live => phase[j] \in Live
    BY <2>1 DEF Live, MapInv, TypeOK
  <2>3. phase'[k] = "closed" BY <2>1 DEF MapInv, TypeOK
  <2>4. CASE owner[k] = b
    <3>1. \A j \in Sessions : owner[j] = b => phase'[j] \notin Live
      BY <1>b, <2>1, <2>2, <2>3, <2>4 DEF OneAtATime, OnlyOne, Live
    <3>2. QED BY <1>a, <1>b, <2>1, <2>2, <3>1, Quieter
  <2>5. CASE owner[k] # b
    <3>1. sessions'[b] = sessions[b] BY <1>a, <2>1, <2>5 DEF Unmap, MapInv, TypeOK
    <3>2. QED BY <1>a, <1>b, <2>1, <2>2, <3>1, Quieter
  <2>6. QED BY <2>4, <2>5
<1>12. CASE UNCHANGED vars
  BY <1>a, <1>b, <1>12, Quieter DEF vars
<1>13. QED
  BY <1>1, <1>2, <1>3, <1>4, <1>5, <1>6, <1>7, <1>8, <1>9, <1>10, <1>11, <1>12 DEF Next

\* A user who waits for one terminal to end before asking for the next never
\* has a connection to a drone that the map has lost, however late the events
\* of the old connection come.
THEOREM PatientStaysMapped == Spec => []PatientIsMapped
<1>1. PatientInv => PatientIsMapped BY DEF PatientInv, OneAtATime, PatientIsMapped
<1>2. QED BY InitMap, InitPatient, NextMap, NextPatient, <1>1, PTL DEF Spec

=============================================================================
