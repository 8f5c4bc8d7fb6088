------------------------- MODULE PilotBridge_proofs -------------------------
(***************************************************************************)
(* Proofs about PilotBridge and VideoRelay, for every set of drones and of *)
(* stations and for every bound.                                           *)
(*                                                                         *)
(* Two arguments side by side.  A session that was not started over an     *)
(* offer under way is the only one in the worker's hands, the queue and    *)
(* the gateway's, so that a late callback or timer works for it.  And the  *)
(* socket is wanted exactly while the bridge is on, so that each of its    *)
(* ends leaves a timer or nobody who waits for one.                        *)
(***************************************************************************)
EXTENDS PilotBridge, TLAPS

\* What is under way is of the session that is the current one.
OwnOffers ==
  ~hurried =>
    /\ passed \cup queued \subseteq {session}
    /\ \A r \in replies : r = [pc |-> session, drone |-> camera]

VideoInv == VideoTypeOK /\ OwnOffers /\ AnswerIsOwn /\ NoSilentStall

\* All that the rest of the bridge does to the relay.
VideoEffect ==
  \/ VideoStep
  \/ \E d \in Drones : ~running /\ StartRelay(d)
  \/ running /\ StopRelay
  \/ UNCHANGED video

LEMMA VideoInvHoldsFirst ==
  ASSUME VideoInit PROVE VideoInv
<1>0. 0 \in 0 .. MaxSessions BY VideoAssumption
<1>1. VideoTypeOK BY <1>0 DEF VideoInit, VideoTypeOK
<1>2. OwnOffers /\ AnswerIsOwn /\ NoSilentStall
  BY DEF VideoInit, OwnOffers, AnswerIsOwn, NoSilentStall
<1>3. QED BY <1>1, <1>2 DEF VideoInv

LEMMA StartKeeps ==
  ASSUME VideoInv, ~running, NEW d \in Drones, StartRelay(d)
  PROVE  VideoInv'
<1>1. /\ session \in Nat /\ session' = session + 1 /\ session' \in Sessions
      /\ d # Nothing /\ remote = Nothing
  BY VideoAssumption DEF VideoInv, VideoTypeOK, StartRelay, Sessions
<1>2. VideoTypeOK'
  <2>1. session' \in 0 .. MaxSessions /\ session' > 0
    BY <1>1, VideoAssumption DEF StartRelay, Sessions
  <2>2. QED BY <1>1, <2>1 DEF VideoInv, VideoTypeOK, StartRelay
<1>3. OwnOffers'
  BY DEF VideoInv, OwnOffers, StartRelay
<1>4. AnswerIsOwn' /\ NoSilentStall'
  BY <1>1 DEF StartRelay, AnswerIsOwn, NoSilentStall
<1>5. QED BY <1>2, <1>3, <1>4 DEF VideoInv

LEMMA StopKeeps ==
  ASSUME VideoInv, StopRelay
  PROVE  VideoInv'
BY DEF VideoInv, VideoTypeOK, OwnOffers, AnswerIsOwn, NoSilentStall, StopRelay

\* An offer of the session that runs, to the drone that is chosen.
LEMMA OfferIsOne ==
  ASSUME VideoTypeOK, running
  PROVE  /\ session \in Sessions
         /\ [pc |-> session, drone |-> camera] \in Offer
BY DEF VideoTypeOK, Sessions, Offer

LEMMA GatheredKeeps ==
  ASSUME VideoInv, NEW s \in Sessions, Gathered(s)
  PROVE  VideoInv'
<1>1. VideoTypeOK' BY DEF VideoInv, VideoTypeOK, Gathered
<1>2. OwnOffers' BY DEF VideoInv, OwnOffers, Gathered
<1>3. AnswerIsOwn' BY DEF VideoInv, AnswerIsOwn, Gathered
<1>4. NoSilentStall' BY DEF VideoInv, NoSilentStall, Gathered
<1>5. QED BY <1>1, <1>2, <1>3, <1>4 DEF VideoInv

LEMMA QueueOfferKeeps ==
  ASSUME VideoInv, NEW s \in Sessions, QueueOffer(s)
  PROVE  VideoInv'
<1>1. VideoTypeOK' BY DEF VideoInv, VideoTypeOK, QueueOffer
<1>2. OwnOffers' BY DEF VideoInv, OwnOffers, QueueOffer
<1>3. AnswerIsOwn' BY DEF VideoInv, AnswerIsOwn, QueueOffer
<1>4. NoSilentStall' BY DEF VideoInv, OwnOffers, NoSilentStall, QueueOffer
<1>5. QED BY <1>1, <1>2, <1>3, <1>4 DEF VideoInv

LEMMA SendQueuedKeeps ==
  ASSUME VideoInv, NEW s \in Sessions, SendQueued(s)
  PROVE  VideoInv'
<1>1. VideoTypeOK'
  <2>1. running => [pc |-> s, drone |-> camera] \in Offer BY DEF VideoInv, VideoTypeOK, Offer
  <2>2. replies' \subseteq Offer BY <2>1 DEF VideoInv, VideoTypeOK, SendQueued, SendWhepOffer
  <2>3. QED BY <2>2 DEF VideoInv, VideoTypeOK, SendQueued
<1>2. OwnOffers'
  <2>1. SUFFICES ASSUME ~hurried PROVE OwnOffers' BY DEF OwnOffers, SendQueued
  <2>2. s = session BY <2>1 DEF VideoInv, OwnOffers, SendQueued
  <2>3. QED BY <2>1, <2>2 DEF VideoInv, OwnOffers, SendQueued, SendWhepOffer
<1>3. AnswerIsOwn' BY DEF VideoInv, AnswerIsOwn, SendQueued
<1>4. NoSilentStall'
  <2>1. SUFFICES ASSUME running, ~hurried PROVE NoSilentStall' BY DEF NoSilentStall, SendQueued
  <2>2. s = session BY <2>1 DEF VideoInv, OwnOffers, SendQueued
  <2>3. [pc |-> session, drone |-> camera] \in replies'
    BY <2>1, <2>2 DEF SendQueued, SendWhepOffer
  <2>4. \E r \in replies' : r.pc = session
    BY <2>3
  <2>5. QED BY <2>4 DEF NoSilentStall, SendQueued
<1>5. QED BY <1>1, <1>2, <1>3, <1>4 DEF VideoInv

LEMMA FallbackKeeps ==
  ASSUME VideoInv, NEW s \in Sessions, Fallback(s)
  PROVE  VideoInv'
<1>1. CASE running /\ ~offerSent
  <2>0. /\ replies' = replies \cup {[pc |-> session, drone |-> camera]}
        /\ offerSent' = TRUE
        /\ fallback' = fallback \ {s}
        /\ UNCHANGED <<running, session, camera, gathering, passed, queued, remote, failed, hurried>>
    BY <1>1 DEF Fallback, SendWhepOffer
  <2>1. VideoTypeOK'
    BY <1>1, <2>0, OfferIsOne DEF VideoInv, VideoTypeOK
  <2>2. OwnOffers' BY <2>0 DEF VideoInv, OwnOffers
  <2>3. AnswerIsOwn' BY <2>0 DEF VideoInv, AnswerIsOwn
  <2>4. \E r \in replies' : r.pc = session
    <3>1. [pc |-> session, drone |-> camera].pc = session OBVIOUS
    <3>2. QED BY <2>0, <3>1
  <2>5. NoSilentStall' BY <2>0, <2>4 DEF NoSilentStall
  <2>6. QED BY <2>1, <2>2, <2>3, <2>5 DEF VideoInv
<1>2. CASE ~(running /\ ~offerSent)
  <2>0. /\ fallback' = fallback \ {s}
        /\ UNCHANGED <<running, session, camera, offerSent, gathering, passed, queued, replies,
                       remote, failed, hurried>>
    BY <1>2 DEF Fallback
  <2>1. VideoTypeOK' BY <2>0 DEF VideoInv, VideoTypeOK
  <2>2. OwnOffers' /\ AnswerIsOwn' BY <2>0 DEF VideoInv, OwnOffers, AnswerIsOwn
  <2>3. NoSilentStall' BY <1>2, <2>0 DEF VideoInv, NoSilentStall
  <2>4. QED BY <2>1, <2>2, <2>3 DEF VideoInv
<1>3. QED BY <1>1, <1>2

LEMMA ReplyKeeps ==
  ASSUME VideoInv, NEW r \in replies, Reply(r)
  PROVE  VideoInv'
<1>0. /\ r \in Offer /\ r.pc \in Sessions
      /\ r # Nothing
  BY VideoAssumption DEF VideoInv, VideoTypeOK, Offer, Sessions
<1>1. CASE running /\ remote = Nothing /\ remote' = r /\ failed' = failed
  <2>1. VideoTypeOK' BY <1>0, <1>1 DEF VideoInv, VideoTypeOK, Reply
  <2>2. OwnOffers' BY DEF VideoInv, OwnOffers, Reply
  <2>3. AnswerIsOwn' BY <1>1 DEF VideoInv, OwnOffers, AnswerIsOwn, Reply
  <2>4. NoSilentStall' BY <1>0, <1>1 DEF NoSilentStall, Reply
  <2>5. QED BY <2>1, <2>2, <2>3, <2>4 DEF VideoInv
<1>2. CASE ~(running /\ remote = Nothing) /\ remote' = remote /\ failed' = failed
  <2>1. VideoTypeOK' BY <1>2 DEF VideoInv, VideoTypeOK, Reply
  <2>2. OwnOffers' BY DEF VideoInv, OwnOffers, Reply
  <2>3. AnswerIsOwn' BY <1>2 DEF VideoInv, AnswerIsOwn, Reply
  <2>4. NoSilentStall' BY <1>2 DEF NoSilentStall, Reply
  <2>5. QED BY <2>1, <2>2, <2>3, <2>4 DEF VideoInv
<1>3. CASE running /\ failed' = failed \cup {r.pc} /\ remote' = remote
  <2>1. VideoTypeOK' BY <1>0, <1>3 DEF VideoInv, VideoTypeOK, Reply
  <2>2. OwnOffers' BY DEF VideoInv, OwnOffers, Reply
  <2>3. AnswerIsOwn' BY <1>3 DEF VideoInv, AnswerIsOwn, Reply
  <2>4. ~hurried => r.pc = session BY DEF VideoInv, OwnOffers
  <2>5. NoSilentStall' BY <1>3, <2>4 DEF NoSilentStall, Reply
  <2>6. QED BY <2>1, <2>2, <2>3, <2>5 DEF VideoInv
<1>4. QED BY <1>1, <1>2, <1>3 DEF Reply

LEMMA VideoEffectKeeps ==
  ASSUME VideoInv, VideoEffect PROVE VideoInv'
<1>1. CASE VideoStep
  BY <1>1, GatheredKeeps, QueueOfferKeeps, SendQueuedKeeps, FallbackKeeps, ReplyKeeps
  DEF VideoStep
<1>2. CASE \E d \in Drones : ~running /\ StartRelay(d) BY <1>2, StartKeeps
<1>3. CASE running /\ StopRelay BY <1>3, StopKeeps
<1>4. CASE UNCHANGED video
  BY <1>4 DEF video, VideoInv, VideoTypeOK, OwnOffers, AnswerIsOwn, NoSilentStall
<1>5. QED BY <1>1, <1>2, <1>3, <1>4 DEF VideoEffect

-----------------------------------------------------------------------------

\* The core, the socket and its timer.
LinkInv ==
  /\ wanted \in BOOLEAN /\ timer \in BOOLEAN /\ pass \in BOOLEAN /\ lingers \in BOOLEAN
  /\ sock \in {"closed", "connecting", "open", "joined", "closing"}
  /\ faults \in 0 .. MaxFaults
  /\ attempts \in Nat /\ attempts <= faults + 1
  /\ active \in BOOLEAN
  /\ wanted = active
  /\ sock = "closing" => ~wanted
  /\ sock \in {"open", "joined"} => attempts = 0
  /\ timer => active /\ sock \notin {"connecting", "open", "joined"}
  /\ ~active => sock \in {"closed", "closing"} \/ lingers
  /\ BridgeIsAlive

\* All that a step may do to them.
LinkEffect ==
  \/ UNCHANGED <<active, link, faults>>
  \/ OnConnected \/ OnJoined \/ Closed \/ Drop \/ Reject \/ OnReconnectTimeout
  \/ ~active /\ active' = TRUE /\ ConnectToServer /\ pass' \in BOOLEAN /\ UNCHANGED faults
  \/ active' = FALSE /\ DisconnectFromServer /\ UNCHANGED faults

\* The end of a connection is one attempt more, with a timer unless the delay
\* no longer fits.
LEMMA EndKeeps ==
  ASSUME LinkInv, OnDisconnected, faults' \in 0 .. MaxFaults,
         attempts' <= faults' + 1,
         sock \in {"connecting", "open", "joined", "closing"}
  PROVE  LinkInv'
<1>1. /\ sock' = "closed" /\ lingers' = FALSE /\ UNCHANGED <<active, wanted, pass>>
      /\ ~timer \/ ~wanted
  BY DEF OnDisconnected, LinkInv
<1>2. CASE wanted
  <2>1. /\ attempts' = attempts + 1 /\ timer' \in BOOLEAN
        /\ attempts > MaxAttempts \/ timer' = TRUE
    BY <1>2 DEF OnDisconnected
  <2>2. attempts \in Nat /\ faults' \in Nat /\ MaxAttempts \in Nat /\ active = TRUE
    BY <1>2, BridgeAssumption DEF LinkInv
  <2>3. BridgeIsAlive' BY <1>1, <2>1, <2>2 DEF BridgeIsAlive
  <2>4. attempts' \in Nat /\ sock' \notin {"connecting", "open", "joined", "closing"}
    BY <1>1, <2>1, <2>2
  <2>5. wanted' \in BOOLEAN /\ active' \in BOOLEAN /\ pass' \in BOOLEAN /\ wanted' = active'
    BY <1>1 DEF LinkInv
  <2>6. timer' => active' BY <1>1, <2>2
  <2>7. QED BY <1>1, <2>1, <2>3, <2>4, <2>5, <2>6 DEF LinkInv
<1>3. CASE ~wanted
  <2>1. attempts' = attempts /\ timer' = timer BY <1>3 DEF OnDisconnected
  <2>2. QED BY <1>1, <1>3, <2>1 DEF LinkInv, BridgeIsAlive
<1>4. QED BY <1>2, <1>3

LEMMA LinkEffectKeeps ==
  ASSUME LinkInv, LinkEffect PROVE LinkInv'
<1>0. attempts \in Nat /\ faults \in Nat /\ MaxFaults \in Nat /\ MaxAttempts \in Nat
  BY BridgeAssumption DEF LinkInv
<1>1. CASE UNCHANGED <<active, link, faults>>
  BY <1>1 DEF link, LinkInv, BridgeIsAlive
<1>2. CASE OnConnected
  BY <1>0, <1>2 DEF OnConnected, LinkInv, BridgeIsAlive
<1>3. CASE OnJoined
  BY <1>3 DEF OnJoined, LinkInv, BridgeIsAlive
<1>4. CASE Closed
  <2>1. faults' = faults /\ attempts' = attempts
    BY <1>4 DEF Closed, OnDisconnected, LinkInv
  <2>2. QED BY <1>4, <2>1, EndKeeps DEF Closed, LinkInv
<1>5. CASE Drop
  <2>1. faults' \in 0 .. MaxFaults /\ attempts' <= faults' + 1
    BY <1>0, <1>5 DEF Drop, OnDisconnected, LinkInv
  <2>2. QED BY <1>5, <2>1, EndKeeps DEF Drop
<1>6. CASE Reject
  <2>1. faults' = faults /\ attempts' <= faults + 1
    BY <1>0, <1>6 DEF Reject, OnDisconnected, LinkInv
  <2>2. QED BY <1>6, <2>1, EndKeeps DEF Reject, LinkInv
<1>7. CASE OnReconnectTimeout
  <2>1. wanted BY <1>7 DEF OnReconnectTimeout, LinkInv
  <2>2. QED BY <1>7, <2>1 DEF OnReconnectTimeout, LinkInv, BridgeIsAlive
<1>8. CASE ~active /\ active' = TRUE /\ ConnectToServer /\ pass' \in BOOLEAN /\ UNCHANGED faults
  <2>1. ~timer BY <1>8 DEF LinkInv
  <2>2. /\ wanted' = TRUE /\ active' = TRUE /\ timer' = FALSE /\ attempts' = 0
        /\ sock' = "connecting" /\ faults' = faults /\ pass' \in BOOLEAN
        /\ lingers' = FALSE
    BY <1>8, <2>1 DEF ConnectToServer, LinkInv
  <2>3. BridgeIsAlive' BY <2>2 DEF BridgeIsAlive
  <2>4. attempts' \in Nat /\ faults' \in 0 .. MaxFaults /\ attempts' <= faults' + 1
    BY <1>0, <2>2 DEF LinkInv
  <2>5. QED BY <2>2, <2>3, <2>4 DEF LinkInv
<1>9. CASE active' = FALSE /\ DisconnectFromServer /\ UNCHANGED faults
  BY <1>0, <1>9 DEF DisconnectFromServer, LinkInv, BridgeIsAlive
<1>10. QED BY <1>1, <1>2, <1>3, <1>4, <1>5, <1>6, <1>7, <1>8, <1>9 DEF LinkEffect

-----------------------------------------------------------------------------

\* What the pilot sees, and who is connected.
UiInv ==
  /\ token \in BOOLEAN /\ fetching \in BOOLEAN /\ late \in BOOLEAN
  /\ selected \in Drones \cup {Nothing}
  /\ clients \subseteq Stations
  /\ clients # {} => active

\* The part of LoggedOutIsQuiet that the link does not decide alone.
NothingIsOn == ~token /\ ~late => ~active /\ ~running /\ ~timer

PilotInv == VideoInv /\ LinkInv /\ UiInv /\ NothingIsOn

LEMMA InvHoldsFirst ==
  ASSUME Init PROVE PilotInv
<1>1. VideoInv BY VideoInvHoldsFirst DEF Init
<1>2. LinkInv
  <2>1. 0 \in 0 .. MaxFaults /\ 0 \in Nat /\ 0 <= 0 + 1 BY BridgeAssumption
  <2>2. QED BY <2>1 DEF Init, LinkInv, BridgeIsAlive
<1>3. UiInv BY DEF Init, UiInv
<1>4. NothingIsOn BY DEF Init, VideoInit, NothingIsOn
<1>5. QED BY <1>1, <1>2, <1>3, <1>4 DEF PilotInv

\* Starting the bridge leaves the relay alone, and happens to a bridge that is off.
LEMMA StartBridgeEffect ==
  ASSUME PilotInv, ~active, StartBridge, token' \in BOOLEAN, UNCHANGED faults
  PROVE  /\ UNCHANGED <<video, clients>>
         /\ active' \in BOOLEAN
         /\ LinkEffect
BY DEF StartBridge, ConnectToServer, LinkEffect, link, PilotInv, LinkInv

LEMMA StopBridgeEffect ==
  ASSUME PilotInv, StopBridge, UNCHANGED faults
  PROVE  /\ VideoEffect /\ LinkEffect
         /\ clients' = {} /\ active' = FALSE
         /\ running' = FALSE /\ timer' = FALSE
<1>1. VideoEffect BY DEF StopBridge, StopIfRunning, VideoEffect
<1>2. LinkEffect BY DEF StopBridge, LinkEffect
<1>3. running' = FALSE
  BY DEF StopBridge, StopIfRunning, StopRelay, video, PilotInv, VideoInv, VideoTypeOK
<1>4. QED BY <1>1, <1>2, <1>3 DEF StopBridge, DisconnectFromServer

\* A list of devices.
LEMMA DevicesEffect ==
  ASSUME PilotInv, NEW l \in Lists, UpdateUserData(l), token' \in BOOLEAN, UNCHANGED faults
  PROVE  /\ UNCHANGED <<video, clients>>
         /\ LinkEffect
         /\ selected' \in Drones \cup {Nothing}
         /\ active' \in BOOLEAN /\ (active => active' = active)
<1>1. selected' \in Drones \cup {Nothing} BY DEF Lists, UpdateUserData
<1>2. CASE ~active /\ l # <<>>
  BY <1>1, <1>2, StartBridgeEffect DEF UpdateUserData
<1>3. CASE ~(~active /\ l # <<>>)
  BY <1>1, <1>3 DEF UpdateUserData, LinkEffect, PilotInv, LinkInv
<1>4. QED BY <1>2, <1>3

\* An action that leaves the relay, what the pilot sees and the core alone.
LEMMA LinkOnlyKeeps ==
  ASSUME PilotInv, LinkEffect, UNCHANGED <<video, ui, active, clients>>
  PROVE  PilotInv'
<1>1. VideoInv' BY VideoEffectKeeps DEF VideoEffect, PilotInv
<1>2. LinkInv' BY LinkEffectKeeps DEF PilotInv
<1>3. UiInv' BY DEF PilotInv, UiInv, ui
<1>4. NothingIsOn'
  BY <1>2 DEF PilotInv, NothingIsOn, ui, video, LinkInv
<1>5. QED BY <1>1, <1>2, <1>3, <1>4 DEF PilotInv

\* Three facts of the next state that make it a good one.
LEMMA Assembled ==
  ASSUME PilotInv, VideoEffect, LinkEffect, UiInv', NothingIsOn'
  PROVE  PilotInv'
BY VideoEffectKeeps, LinkEffectKeeps DEF PilotInv

LEMMA DeviceStepsKeep ==
  ASSUME PilotInv, NEW l \in Lists, Login(l) \/ DevicesFetched(l)
  PROVE  PilotInv'
<1>1. CASE Login(l)
  <2>1. /\ UNCHANGED <<video, clients>> /\ LinkEffect
        /\ selected' \in Drones \cup {Nothing}
        /\ active => active' = active
    BY <1>1, DevicesEffect DEF Login
  <2>2. UiInv' BY <1>1, <2>1 DEF Login, PilotInv, UiInv
  <2>3. NothingIsOn' BY <1>1 DEF Login, NothingIsOn
  <2>4. QED BY <2>1, <2>2, <2>3, Assembled DEF VideoEffect
<1>2. CASE DevicesFetched(l)
  <2>1. /\ UNCHANGED <<video, clients>> /\ LinkEffect
        /\ selected' \in Drones \cup {Nothing}
        /\ active => active' = active
    BY <1>2, DevicesEffect DEF DevicesFetched, PilotInv, UiInv
  <2>2. late' \in BOOLEAN /\ fetching' = FALSE /\ token' = token BY <1>2 DEF DevicesFetched
  <2>3. clients' = clients /\ (active => active') BY <2>1
  <2>4. UiInv' BY <2>1, <2>2, <2>3 DEF PilotInv, UiInv
  <2>5. NothingIsOn' BY <1>2 DEF DevicesFetched, NothingIsOn
  <2>6. QED BY <2>1, <2>4, <2>5, Assembled DEF VideoEffect
<1>3. QED BY <1>1, <1>2

LEMMA LogoutKeeps ==
  ASSUME PilotInv, Logout PROVE PilotInv'
<1>1. CASE active
  <2>1. StopBridge /\ UNCHANGED faults BY <1>1 DEF Logout
  <2>2. /\ VideoEffect /\ LinkEffect /\ clients' = {} /\ active' = FALSE
        /\ running' = FALSE /\ timer' = FALSE
    BY <2>1, StopBridgeEffect
  <2>3. UiInv' BY <2>2 DEF Logout, PilotInv, UiInv
  <2>4. NothingIsOn' BY <2>2 DEF NothingIsOn
  <2>5. QED BY <2>2, <2>3, <2>4, Assembled
<1>2. CASE ~active
  <2>1. StopIfRunning /\ UNCHANGED <<active, clients, link, faults>> BY <1>2 DEF Logout
  <2>2. VideoEffect /\ LinkEffect BY <2>1 DEF StopIfRunning, VideoEffect, LinkEffect
  <2>3. running' = FALSE
    BY <2>1 DEF StopIfRunning, StopRelay, video, PilotInv, VideoInv, VideoTypeOK
  <2>4. UiInv' BY <2>1 DEF Logout, PilotInv, UiInv
  <2>5. NothingIsOn'
    BY <1>2, <2>1, <2>3 DEF NothingIsOn, PilotInv, LinkInv, link
  <2>6. QED BY <2>2, <2>4, <2>5, Assembled
<1>3. QED BY <1>1, <1>2

LEMMA TogglesKeep ==
  ASSUME PilotInv, ToggleMavlink \/ ToggleVideo PROVE PilotInv'
<1>0. NothingIsOn' BY DEF ToggleMavlink, ToggleVideo, ui, NothingIsOn
<1>1. CASE ToggleMavlink /\ active
  <2>1. StopBridge /\ UNCHANGED <<ui, faults>> BY <1>1 DEF ToggleMavlink
  <2>2. VideoEffect /\ LinkEffect /\ clients' = {} BY <2>1, StopBridgeEffect
  <2>3. UiInv' BY <2>1, <2>2 DEF ui, PilotInv, UiInv
  <2>4. QED BY <1>0, <2>2, <2>3, Assembled
<1>2. CASE ToggleMavlink /\ ~active
  <2>1. StartBridge /\ UNCHANGED <<ui, faults>> BY <1>2 DEF ToggleMavlink
  <2>2. token' \in BOOLEAN BY <2>1 DEF ui, PilotInv, UiInv
  <2>3. UNCHANGED <<video, clients>> /\ LinkEffect BY <1>2, <2>1, <2>2, StartBridgeEffect
  <2>4. UiInv' BY <1>2, <2>1, <2>3 DEF ui, PilotInv, UiInv
  <2>5. QED BY <1>0, <2>3, <2>4, Assembled DEF VideoEffect
<1>3. CASE ToggleVideo
  <2>1. UNCHANGED <<ui, active, clients, link, faults>> BY <1>3 DEF ToggleVideo
  <2>2. VideoEffect
    <3>1. CASE running BY <1>3, <3>1 DEF ToggleVideo, VideoEffect
    <3>2. CASE ~running
      <4>1. selected \in Drones /\ StartRelay(selected)
        BY <1>3, <3>2 DEF ToggleVideo, PilotInv, UiInv
      <4>2. QED BY <3>2, <4>1 DEF VideoEffect
    <3>3. QED BY <3>1, <3>2
  <2>3. LinkEffect BY <2>1 DEF LinkEffect
  <2>4. UiInv' BY <2>1 DEF ui, PilotInv, UiInv
  <2>5. QED BY <1>0, <2>2, <2>3, <2>4, Assembled
<1>4. QED BY <1>1, <1>2, <1>3

\* The rest of what the pilot does, the stations and the relay.
LEMMA OtherStepsKeep ==
  ASSUME PilotInv,
         \/ RefreshDevices \/ FetchFails \/ \E d \in Drones : SelectDrone(d)
         \/ \E c \in Stations : StationConnects(c) \/ StationLeaves(c)
         \/ VideoActs
  PROVE  PilotInv'
<1>1. UNCHANGED <<active, link, faults>> /\ UNCHANGED token
  BY DEF RefreshDevices, FetchFails, SelectDrone, StationConnects, StationLeaves, VideoActs, ui
<1>2. VideoEffect /\ running' = running
  BY DEF RefreshDevices, FetchFails, SelectDrone, StationConnects, StationLeaves, VideoActs,
         VideoEffect, video, VideoStep, Gathered, QueueOffer, SendQueued, Fallback, Reply
<1>3. UiInv' /\ late' = late
  BY DEF RefreshDevices, FetchFails, SelectDrone, StationConnects, StationLeaves, VideoActs, ui,
         PilotInv, UiInv
<1>4. LinkEffect BY <1>1 DEF LinkEffect
<1>5. NothingIsOn' BY <1>1, <1>2, <1>3 DEF PilotInv, NothingIsOn, link
<1>6. QED BY <1>2, <1>3, <1>4, <1>5, Assembled

LEMMA StepKeeps ==
  ASSUME PilotInv, [Next]_vars PROVE PilotInv'
<1>1. CASE Pilot
  BY <1>1, DeviceStepsKeep, LogoutKeeps, TogglesKeep, OtherStepsKeep DEF Pilot
<1>2. CASE OnConnected \/ OnJoined \/ Closed \/ Drop \/ Reject \/ OnReconnectTimeout
  <2>1. LinkEffect BY <1>2 DEF LinkEffect
  <2>2. UNCHANGED <<video, ui, active, clients>>
    BY <1>2 DEF OnConnected, OnJoined, Closed, Drop, Reject, OnReconnectTimeout, OnDisconnected
  <2>3. QED BY <2>1, <2>2, LinkOnlyKeeps
<1>3. CASE \E c \in Stations : StationConnects(c) \/ StationLeaves(c)
  BY <1>3, OtherStepsKeep
<1>4. CASE VideoActs BY <1>4, OtherStepsKeep
<1>5. CASE UNCHANGED vars
  <2>1. LinkEffect /\ UNCHANGED <<video, ui, active, clients>> BY <1>5 DEF vars, LinkEffect
  <2>2. QED BY <2>1, LinkOnlyKeeps
<1>6. QED BY <1>1, <1>2, <1>3, <1>4, <1>5 DEF Next, Network

\* Every reachable state satisfies the whole invariant.
THEOREM PilotInvariant == Spec => []PilotInv
<1>1. Init => PilotInv BY InvHoldsFirst
<1>2. PilotInv /\ [Next]_vars => PilotInv' BY StepKeeps
<1>3. QED BY <1>1, <1>2, PTL DEF Spec

\* The state keeps its shape: the attempts stay within the faults, and nobody is
\* connected to a bridge that is off.
THEOREM TypeCorrect == Spec => []PTypeOK
<1>1. PilotInv => PTypeOK
  BY BridgeAssumption DEF PilotInv, VideoInv, LinkInv, UiInv, PTypeOK
<1>2. QED BY <1>1, PilotInvariant, PTL

\* A bridge that is on is connected, connecting or about to try again (WebSocketClient).
THEOREM BridgeStaysAlive == Spec => []BridgeIsAlive
<1>1. PilotInv => BridgeIsAlive BY DEF PilotInv, LinkInv
<1>2. QED BY <1>1, PilotInvariant, PTL

\* After a logout nothing is on and nothing comes back by itself (ControlWidget,
\* DroneBridgeCore), and the socket is closed or closing - or it is the one that
\* was being connected when the bridge was stopped (WebSocketClient), which
\* disconnectFromServer does not give up.
THEOREM LogoutIsQuiet == Spec => []LoggedOutIsQuiet
<1>1. PilotInv => LoggedOutIsQuiet BY DEF PilotInv, LinkInv, NothingIsOn, LoggedOutIsQuiet
<1>2. QED BY <1>1, PilotInvariant, PTL

\* A peer connection takes the answer to its own offer (VideoRelayBridge).
THEOREM AnswersAreOwn == Spec => []AnswerIsOwn
<1>1. PilotInv => AnswerIsOwn BY DEF PilotInv, VideoInv
<1>2. QED BY <1>1, PilotInvariant, PTL

\* A session that runs is never stuck in silence (VideoRelayBridge).
THEOREM RelayNeverStalls == Spec => []NoSilentStall
<1>1. PilotInv => NoSilentStall BY DEF PilotInv, VideoInv
<1>2. QED BY <1>1, PilotInvariant, PTL
=============================================================================
