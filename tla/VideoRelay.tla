----------------------------- MODULE VideoRelay -----------------------------
(***************************************************************************)
(* VideoRelayBridge: one WebRTC session after the other, each of which     *)
(* offers itself through the gateway (WHEP) and takes the answer.          *)
(*                                                                         *)
(* Three parties act on a session: the main thread, the worker thread of   *)
(* libdatachannel, whose callback tests m_offerSent and m_isRunning and    *)
(* then sets and queues without a lock, and the gateway, which answers     *)
(* when it likes.  Sessions are numbered; the code does not number them.   *)
(***************************************************************************)
EXTENDS Naturals, FiniteSets

CONSTANTS
  Drones,
  Nothing,
  MaxSessions  \* bound: sessions started

ASSUME VideoAssumption ==
  /\ MaxSessions \in Nat
  /\ Nothing \notin Drones \cup [pc : 1 .. MaxSessions, drone : Drones]

Sessions == 1 .. MaxSessions
Offer == [pc : Sessions, drone : Drones]

VARIABLES
  running,    \* m_isRunning; the current session then has a peer connection
  session,    \* sessions started so far
  camera,     \* m_deviceId
  offerSent,  \* m_offerSent
  gathering,  \* sessions whose candidates are being gathered
  passed,     \* sessions whose worker has tested the flags and not set them yet
  queued,     \* sessions whose worker has queued sendWhepOffer
  fallback,   \* sessions whose timer of 300 ms runs
  replies,    \* offers posted and not answered
  remote,     \* the offer whose answer the peer connection has, or Nothing
  failed,     \* sessions of whose offer the window says that it failed
  hurried     \* a session was started over an offer under way

video == <<running, session, camera, offerSent, gathering, passed, queued, fallback,
           replies, remote, failed, hurried>>

VideoTypeOK ==
  /\ running \in BOOLEAN
  /\ session \in 0 .. MaxSessions
  /\ camera \in Drones \cup {Nothing}
  /\ offerSent \in BOOLEAN
  /\ gathering \subseteq Sessions
  /\ passed \subseteq Sessions
  /\ queued \subseteq Sessions
  /\ fallback \subseteq Sessions
  /\ replies \subseteq Offer
  /\ remote \in Offer \cup {Nothing}
  /\ failed \subseteq Sessions
  /\ hurried \in BOOLEAN
  /\ running => session > 0 /\ camera # Nothing
  /\ ~running => remote = Nothing

VideoInit ==
  /\ running = FALSE
  /\ session = 0
  /\ camera = Nothing
  /\ offerSent = FALSE
  /\ gathering = {}
  /\ passed = {}
  /\ queued = {}
  /\ fallback = {}
  /\ replies = {}
  /\ remote = Nothing
  /\ failed = {}
  /\ hurried = FALSE

\* startRelay of a relay that does not run, and setupPeerConnection.
StartRelay(d) ==
  /\ session < MaxSessions
  /\ running' = TRUE
  /\ session' = session + 1
  /\ camera' = d
  /\ offerSent' = FALSE
  /\ gathering' = gathering \cup {session'}
  /\ fallback' = fallback \cup {session'}
  /\ hurried' = (hurried \/ passed \cup queued # {} \/ replies # {})
  /\ UNCHANGED <<passed, queued, replies, remote, failed>>

\* stopRelay: what is queued, timed or posted is left to itself.
StopRelay ==
  /\ running' = FALSE
  /\ offerSent' = FALSE
  /\ remote' = Nothing
  /\ UNCHANGED <<session, camera, gathering, passed, queued, fallback, replies, failed, hurried>>

StopIfRunning == IF running THEN StopRelay ELSE UNCHANGED video

-----------------------------------------------------------------------------
(* The worker thread: gathering is complete *)

\* Mutant: the callback holds its peer connection instead of a weak pointer.
GatheredStrong(s) ==
  /\ s \in gathering
  /\ gathering' = gathering \ {s}
  /\ passed' = IF running /\ ~offerSent THEN passed \cup {s} ELSE passed
  /\ UNCHANGED <<running, session, camera, offerSent, queued, fallback, replies, remote, failed, hurried>>

\* The test, while the session's peer connection is still there.
Gathered(s) ==
  /\ s \in gathering
  /\ gathering' = gathering \ {s}
  /\ passed' = IF s = session /\ running /\ ~offerSent THEN passed \cup {s} ELSE passed
  /\ UNCHANGED <<running, session, camera, offerSent, queued, fallback, replies, remote, failed, hurried>>

\* The flag and the queue, whatever session runs by now.
QueueOffer(s) ==
  /\ s \in passed
  /\ passed' = passed \ {s}
  /\ offerSent' = TRUE
  /\ queued' = queued \cup {s}
  /\ UNCHANGED <<running, session, camera, gathering, fallback, replies, remote, failed, hurried>>

-----------------------------------------------------------------------------
(* The main thread *)

\* sendWhepOffer: the offer of s goes to the drone that is chosen now.
SendWhepOffer(s) ==
  replies' = IF running THEN replies \cup {[pc |-> s, drone |-> camera]} ELSE replies

SendQueued(s) ==
  /\ s \in queued
  /\ queued' = queued \ {s}
  /\ SendWhepOffer(s)
  /\ UNCHANGED <<running, session, camera, offerSent, gathering, passed, fallback, remote, failed, hurried>>

\* Mutant: the timer takes the flag the wrong way round.
FallbackInverted(s) ==
  /\ s \in fallback
  /\ fallback' = fallback \ {s}
  /\ IF running /\ offerSent
     THEN offerSent' = TRUE /\ SendWhepOffer(session)
     ELSE UNCHANGED <<offerSent, replies>>
  /\ UNCHANGED <<running, session, camera, gathering, passed, queued, remote, failed, hurried>>

\* The timer of a session that is over offers the one that runs.
Fallback(s) ==
  /\ s \in fallback
  /\ fallback' = fallback \ {s}
  /\ IF running /\ ~offerSent
     THEN offerSent' = TRUE /\ SendWhepOffer(session)
     ELSE UNCHANGED <<offerSent, replies>>
  /\ UNCHANGED <<running, session, camera, gathering, passed, queued, remote, failed, hurried>>

\* The answer goes to the peer connection that is there now; one that already
\* has an answer throws, and an error is shown and changes nothing else.
Reply(r) ==
  /\ r \in replies
  /\ replies' = replies \ {r}
  /\ \/ remote' = (IF running /\ remote = Nothing THEN r ELSE remote) /\ UNCHANGED failed
     \/ running /\ failed' = failed \cup {r.pc} /\ UNCHANGED remote
  /\ UNCHANGED <<running, session, camera, offerSent, gathering, passed, queued, fallback, hurried>>

VideoStep ==
  \/ \E s \in Sessions : Gathered(s) \/ QueueOffer(s) \/ SendQueued(s) \/ Fallback(s)
  \/ \E r \in replies : Reply(r)

-----------------------------------------------------------------------------
(* Properties *)

\* A peer connection takes the answer to its own offer, made to the drone that
\* the session is about, unless a session was started over an offer under way:
\* the late callback and the late timer of an old session do no harm.
AnswerIsOwn ==
  remote # Nothing /\ ~hurried => remote = [pc |-> session, drone |-> camera]

\* A session that runs is never stuck in silence: its timer runs, or its offer
\* is queued or posted, or it has the answer, or the pilot was told that it
\* failed, unless it was started over an offer under way.
NoSilentStall ==
  running /\ ~hurried =>
    \/ ~offerSent /\ session \in fallback
    \/ session \in passed \cup queued \cup failed
    \/ \E r \in replies : r.pc = session
    \/ remote # Nothing
=============================================================================
