--------------------------- MODULE VideoRecovery ---------------------------
(***************************************************************************)
(* The camera of the dashboard (public/js/video): WebRTC first, HLS when   *)
(* the handshake fails, a probe for WebRTC while HLS plays, a watchdog for *)
(* frozen pictures, and the rooms of VideoGateway.                         *)
(*                                                                         *)
(* The browser runs one handler after the other, and each await lets       *)
(* others in.  A call of startFpvVideoStream, or a probe, is an attempt:   *)
(* its peer connection, the request it awaits and the HLS player it ends   *)
(* in.  The page keeps one of each in a global; an attempt goes on whether *)
(* a global names it or not.  Attempts that are over are used again.       *)
(***************************************************************************)
EXTENDS Naturals

CONSTANTS
  Drones,
  NoDrone,
  Attempts,    \* bound: attempts not over at a time
  FrozenTicks, \* seconds without a frame after which a picture is frozen
  MaxShows     \* bound: times that the tab comes to the front

ASSUME RecoveryAssumption ==
  /\ NoDrone \notin Drones
  /\ 0 \notin Attempts
  /\ FrozenTicks \in Nat \ {0}
  /\ MaxShows \in Nat

VARIABLES
  att,       \* the attempts
  active,    \* activeFpvDroneId
  peer,      \* fpvPeerConnection: an attempt, or 0
  hls,       \* fpvHlsInstance: an attempt, or 0
  interval,  \* the drone that fpvWebRtcProbeInterval probes for, or NoDrone
  probing,   \* isProbingWebRtc
  stats,     \* fpvStatsInterval runs
  ticks,     \* frozenFrameTicks
  seen,      \* lastFramesDecoded > 0
  rooms,     \* rooms of VideoGateway that this dashboard is in
  frozen,    \* no frame comes in on the peer connection
  shows,
  hurried    \* the user acted while an attempt was under way

page == <<active, peer, hls, interval, probing, stats, ticks, seen>>
vars == <<att, page, rooms, frozen, shows, hurried>>

Over == [of |-> NoDrone, pc |-> "none", task |-> "none", player |-> "none", timed |-> FALSE]

Attempt ==
  [of : Drones \cup {NoDrone},
   pc : {"none", "open", "answered", "live", "closed"},
   task : {"none", "whep", "info", "probe"},  \* the request it awaits
   player : {"none", "loading", "playing"},
   timed : BOOLEAN]                           \* the 6 s of a probe run

\* The shape of the state; the count of frozen ticks never outlives a recovery.
RTypeOK ==
  /\ att \in [Attempts -> Attempt]
  /\ active \in Drones \cup {NoDrone}
  /\ peer \in Attempts \cup {0}
  /\ hls \in Attempts \cup {0}
  /\ interval \in Drones \cup {NoDrone}
  /\ probing \in BOOLEAN
  /\ stats \in BOOLEAN
  /\ ticks \in 0 .. FrozenTicks - 1
  /\ seen \in BOOLEAN
  /\ rooms \subseteq Drones
  /\ frozen \in BOOLEAN
  /\ shows \in 0 .. MaxShows
  /\ hurried \in BOOLEAN

Init ==
  /\ att = [a \in Attempts |-> Over]
  /\ active = NoDrone
  /\ peer = 0
  /\ hls = 0
  /\ interval = NoDrone
  /\ probing = FALSE
  /\ stats = FALSE
  /\ ticks = 0
  /\ seen = FALSE
  /\ rooms = {}
  /\ frozen = FALSE
  /\ shows = 0
  /\ hurried = FALSE

-----------------------------------------------------------------------------
(* Helpers *)

\* An attempt that nothing can come of any more is over.
Tidy(f) ==
  [a \in Attempts |->
    IF f[a].pc \in {"none", "closed"} /\ f[a].task = "none" /\ f[a].player = "none" /\ ~f[a].timed
    THEN Over ELSE f[a]]

ClosePeer(f) == IF peer = 0 THEN f ELSE [f EXCEPT ![peer].pc = "closed"]

DestroyHls(f) == IF hls = 0 THEN f ELSE [f EXCEPT ![hls].player = "none"]

Free(f) == {a \in Attempts : f[a] = Over}

\* Something that a new start or a close does not know of is under way.
Busy ==
  \E a \in Attempts :
    att[a].task \in {"whep", "info"} \/ (att[a].timed /\ att[a].pc # "closed")

\* What closeFpvVideoStream does to the attempts, and to the rest but active.
ClosedAttempts == Tidy(ClosePeer(DestroyHls(att)))

CloseRest ==
  /\ hls' = 0
  /\ interval' = NoDrone
  /\ probing' = FALSE
  /\ stats' = FALSE
  /\ ticks' = 0
  /\ seen' = FALSE
  /\ frozen' = FALSE

\* startFpvVideoStream up to the first await: active names the new drone when
\* closeFpvVideoStream leaves the room of active.
StartFpvVideoStream(d) ==
  /\ active' = d
  /\ rooms' = rooms \ {d}
  /\ CloseRest
  /\ \E a \in Free(ClosedAttempts) :
       /\ att' = [ClosedAttempts EXCEPT ![a] = [Over EXCEPT !.of = d, !.pc = "open", !.task = "whep"]]
       /\ peer' = a

-----------------------------------------------------------------------------
(* The user *)

\* A button, a row of the table or the list of drones.
Start(d) ==
  /\ StartFpvVideoStream(d)
  /\ hurried' = (hurried \/ Busy)
  /\ UNCHANGED shows

\* Mutant: only what is on the screen is closed.
ClosePeerOnly ==
  /\ active # NoDrone
  /\ att' = Tidy(ClosePeer(att))
  /\ active' = NoDrone
  /\ peer' = 0
  /\ rooms' = rooms \ {active}
  /\ CloseRest
  /\ hurried' = (hurried \/ Busy)
  /\ UNCHANGED shows

CloseFpvVideoStream ==
  /\ active # NoDrone
  /\ att' = ClosedAttempts
  /\ active' = NoDrone
  /\ peer' = 0
  /\ rooms' = rooms \ {active}
  /\ CloseRest
  /\ hurried' = (hurried \/ Busy)
  /\ UNCHANGED shows

TabShown ==
  /\ shows < MaxShows
  /\ shows' = shows + 1
  /\ ticks' = 0
  /\ UNCHANGED <<att, active, peer, hls, interval, probing, stats, seen, rooms, frozen, hurried>>

-----------------------------------------------------------------------------
(* startFpvVideoStream after its awaits *)

WhepAnswers(a) ==
  /\ att[a].task = "whep" /\ att[a].pc = "open"
  /\ att' = [att EXCEPT ![a].task = "none", ![a].pc = "answered"]
  /\ rooms' = rooms \cup {att[a].of}
  /\ UNCHANGED <<page, frozen, shows, hurried>>

\* An error of the network, of the gateway, or of a connection closed meanwhile.
WhepFails(a) ==
  /\ att[a].task = "whep"
  /\ att' = [att EXCEPT ![a].task = "info"]
  /\ UNCHANGED <<page, rooms, frozen, shows, hurried>>

\* ontrack of a stream; the statistics start with the first.
TrackArrives(a) ==
  /\ att[a].pc = "answered" /\ ~att[a].timed
  /\ att' = [att EXCEPT ![a].pc = "live"]
  /\ stats' = TRUE
  /\ UNCHANGED <<active, peer, hls, interval, probing, ticks, seen, rooms, frozen, shows, hurried>>

-----------------------------------------------------------------------------
(* startHlsFallbackStream *)

\* The player takes the place of one that is there without destroying it.
InfoAnswers(a) ==
  /\ att[a].task = "info"
  /\ att' = [att EXCEPT ![a].task = "none", ![a].player = "loading"]
  /\ hls' = a
  /\ rooms' = rooms \cup {att[a].of}
  /\ UNCHANGED <<active, peer, interval, probing, stats, ticks, seen, frozen, shows, hurried>>

InfoFails(a) ==
  /\ att[a].task = "info"
  /\ att' = Tidy([att EXCEPT ![a].task = "none"])
  /\ UNCHANGED <<page, rooms, frozen, shows, hurried>>

\* MANIFEST_PARSED, and startWebRtcProbing.
ManifestParsed(a) ==
  /\ att[a].player = "loading"
  /\ att' = [att EXCEPT ![a].player = "playing"]
  /\ stats' = TRUE
  /\ interval' = att[a].of
  /\ UNCHANGED <<active, peer, hls, probing, ticks, seen, rooms, frozen, shows, hurried>>

-----------------------------------------------------------------------------
(* The probe *)

\* The interval of 15 s; the 6 s of every earlier probe are over by then.
ProbeTick ==
  /\ interval # NoDrone /\ active = interval
  /\ hls # 0 /\ ~probing
  /\ \A a \in Attempts : ~att[a].timed
  /\ probing' = TRUE
  /\ \E a \in Free(att) :
       att' = [att EXCEPT ![a] =
                 [of |-> interval, pc |-> "open", task |-> "probe", player |-> "none", timed |-> TRUE]]
  /\ UNCHANGED <<active, peer, hls, interval, stats, ticks, seen, rooms, frozen, shows, hurried>>

ProbeAnswers(a) ==
  /\ att[a].task = "probe" /\ att[a].pc = "open"
  /\ att' = [att EXCEPT ![a].task = "none", ![a].pc = "answered"]
  /\ UNCHANGED <<page, rooms, frozen, shows, hurried>>

\* Refused, or an exception: of the network, or of a connection closed
\* meanwhile; only a refusal closes the connection.
ProbeFails(a) ==
  /\ att[a].task = "probe"
  /\ \E pc \in {att[a].pc, "closed"} : att' = Tidy([att EXCEPT ![a].task = "none", ![a].pc = pc])
  /\ probing' = FALSE
  /\ UNCHANGED <<active, peer, hls, interval, stats, ticks, seen, rooms, frozen, shows, hurried>>

\* Mutant: the time-out closes the connection and leaves the flag.
ProbeTimesOutFlagged(a) ==
  /\ att[a].timed
  /\ att' = Tidy([att EXCEPT ![a].timed = FALSE, ![a].pc = "closed"])
  /\ UNCHANGED <<page, rooms, frozen, shows, hurried>>

ProbeTimesOut(a) ==
  /\ att[a].timed
  /\ att' = Tidy([att EXCEPT ![a].timed = FALSE, ![a].pc = "closed"])
  /\ probing' = FALSE
  /\ UNCHANGED <<active, peer, hls, interval, stats, ticks, seen, rooms, frozen, shows, hurried>>

\* ontrack of a probe: it takes the place of whatever plays.
HotSwap(a) ==
  /\ att[a].timed /\ att[a].pc = "answered"
  /\ att' = Tidy([ClosePeer(DestroyHls(att)) EXCEPT ![a].pc = "live", ![a].timed = FALSE])
  /\ peer' = a
  /\ hls' = 0
  /\ interval' = NoDrone
  /\ probing' = FALSE
  /\ frozen' = FALSE
  /\ UNCHANGED <<active, stats, ticks, seen, rooms, shows, hurried>>

-----------------------------------------------------------------------------
(* The watchdog *)

Connected == peer # 0 /\ att[peer].pc = "live"

\* The picture stops, perhaps before its first frame, and goes on.
PictureStops == Connected /\ ~frozen /\ frozen' = TRUE /\ UNCHANGED <<att, page, rooms, shows, hurried>>
PictureGoesOn == Connected /\ frozen /\ frozen' = FALSE /\ UNCHANGED <<att, page, rooms, shows, hurried>>

\* updateFpvStats of a picture that moves: the first frames are seen.
TickMoving ==
  /\ stats /\ Connected /\ ~frozen
  /\ seen' = TRUE
  /\ ticks' = 0
  /\ UNCHANGED <<att, active, peer, hls, interval, probing, stats, rooms, frozen, shows, hurried>>

HandleWebRtcFrozenRecovery ==
  IF active = NoDrone
  THEN ticks' = 0 /\ UNCHANGED <<att, active, peer, hls, interval, probing, stats, seen, rooms, frozen>>
  ELSE StartFpvVideoStream(active)

\* Mutant: the recovery leaves the count to closeFpvVideoStream, one tick late.
TickFrozenLate ==
  /\ stats /\ Connected /\ frozen /\ seen
  /\ IF ticks < FrozenTicks
     THEN /\ ticks' = ticks + 1
          /\ UNCHANGED <<att, active, peer, hls, interval, probing, stats, seen, rooms, frozen>>
     ELSE active # NoDrone /\ StartFpvVideoStream(active)
  /\ UNCHANGED <<shows, hurried>>

\* Mutant: every tick starts the count again.
TickFrozenForgetful ==
  /\ stats /\ Connected /\ frozen /\ seen
  /\ ticks' = 0
  /\ UNCHANGED <<att, active, peer, hls, interval, probing, stats, seen, rooms, frozen, shows, hurried>>

TickFrozen ==
  /\ stats /\ Connected /\ frozen /\ seen
  /\ IF ticks + 1 < FrozenTicks
     THEN /\ ticks' = ticks + 1
          /\ UNCHANGED <<att, active, peer, hls, interval, probing, stats, seen, rooms, frozen>>
     ELSE HandleWebRtcFrozenRecovery
  /\ UNCHANGED <<shows, hurried>>

-----------------------------------------------------------------------------

User == CloseFpvVideoStream \/ TabShown \/ \E d \in Drones : Start(d)

Page ==
  \/ ProbeTick \/ TickMoving \/ TickFrozen
  \/ \E a \in Attempts : ProbeTimesOut(a) \/ ManifestParsed(a)

Network ==
  \/ PictureStops \/ PictureGoesOn
  \/ \E a \in Attempts :
       \/ WhepAnswers(a) \/ WhepFails(a) \/ TrackArrives(a)
       \/ InfoAnswers(a) \/ InfoFails(a)
       \/ ProbeAnswers(a) \/ ProbeFails(a) \/ HotSwap(a)

Next == User \/ Page \/ Network

Spec == Init /\ [][Next]_vars

\* Timers run; the network owes nothing.
Fairness == WF_vars(TickFrozen) /\ \A a \in Attempts : WF_vars(ProbeTimesOut(a))

FairSpec == Spec /\ Fairness

-----------------------------------------------------------------------------
(* Properties *)

\* For a user who lets one thing end before the next, what runs is what was
\* chosen: every connection and every player is of the active drone and the
\* page holds on to it, and the gateway counts the dashboard as a viewer of
\* what it plays.
OnlyChosenRuns ==
  ~hurried => \A a \in Attempts :
    /\ att[a].pc \in {"open", "answered", "live"} =>
         att[a].of = active /\ (a = peer \/ att[a].timed)
    /\ att[a].player # "none" => att[a].of = active /\ a = hls
    /\ (att[a].pc = "live") \/ att[a].player # "none" => att[a].of \in rooms

\* The flag that keeps probes apart never sticks: a probe whose time runs will
\* take it back, whatever comes of its requests.
ProbeIsTimed == probing => \E a \in Attempts : att[a].timed

\* A picture that was seen and freezes is replaced, unless it goes on, the user
\* closes it, or was in a hurry before.
FrozenIsRecovered ==
  (Connected /\ frozen /\ seen /\ ~hurried) ~> (~frozen \/ hurried)
=============================================================================
