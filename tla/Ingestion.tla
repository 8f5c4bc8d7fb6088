----------------------------- MODULE Ingestion -----------------------------
(***************************************************************************)
(* The telemetry ingestion service (Go).  The receive loop, the check of   *)
(* heartbeats, the flush of the publisher and the copy of the focus set    *)
(* run in goroutines of their own; they meet in the aggregator (a mutex),  *)
(* in a bounded channel and in Redis.                                      *)
(*                                                                         *)
(* A snapshot is what the filter tells apart: the connection, the critical *)
(* fields (flight mode, armed, GPS fix) as one `mode', and the rest in     *)
(* units of the deadband as one `pos'.  Times are ages, in ticks, counted  *)
(* up to the largest one the code compares with.  Frames whose sender has  *)
(* no identity are aggregated under "" and never published: they are left  *)
(* out, as is the raw stream, which has a channel of its own.              *)
(***************************************************************************)
EXTENDS Naturals, Sequences, FiniteSets

CONSTANTS
  Drones,
  Data,          \* [mode, pos] a frame can carry
  Nothing,       \* nil, or a key that is absent
  QueueSize,     \* capacity of telemetryChan
  BatchSize,     \* items of one flush
  MinInterval,   \* the filter's rate limit (50 ms)
  LiteEvery,     \* the lite channel's rate limit (1 s)
  MaxInterval,   \* the filter's forced publication (2 s)
  OfflineAfter,  \* silence that the heartbeat check tolerates (10 s)
  MaxFaults,     \* bound: pipelines that fail and ends of the process
  MaxChanges     \* bound: changes of what the drones report or of the focus

ASSUME IngestionAssumption ==
  /\ \A c \in Data : {"mode", "pos"} \subseteq DOMAIN c
  /\ QueueSize \in Nat \ {0}
  /\ BatchSize \in Nat \ {0}
  /\ MinInterval \in Nat \ {0}
  /\ LiteEvery \in Nat
  /\ MaxInterval \in Nat
  /\ OfflineAfter \in Nat \ {0}
  /\ MinInterval <= LiteEvery
  /\ LiteEvery <= MaxInterval
  /\ MaxInterval <= OfflineAfter
  /\ MaxFaults \in Nat
  /\ MaxChanges \in Nat

Snapshot == [connected : BOOLEAN, data : Data]
Item == [dev : Drones, snap : Snapshot]

ASSUME NothingAssumption == Nothing \notin Snapshot /\ Nothing \notin Item

VARIABLES
  sending,   \* the drones whose frames reach the server
  agg,       \* StateAggregator.states
  age,       \* ... and the age of their Timestamp
  hb,        \* heartbeat goroutine: notices it has still to publish
  lastSent,  \* DeadbandFilter.lastSent
  sentAge,   \* ... and the age of lastSentTime
  queue,     \* telemetryChan
  liteAge,   \* age of lastLiteSent
  focusMap,  \* RedisPublisher.focusMap
  focusSet,  \* Redis: drone:focus_set
  states,    \* Redis: drone:states
  lite,      \* last message on the drone's lite channel
  full,      \* last message on the drone's full channel
  lost,      \* drones whose latest published snapshot went nowhere
  faults, changes

net == <<sending, focusSet, changes>>
loops == <<agg, age, hb>>
filter == <<lastSent, sentAge>>
redis == <<states, lite, full>>
vars == <<net, loops, filter, queue, liteAge, focusMap, redis, lost, faults>>

\* The shape of the state; the queue is within its capacity.
ITypeOK ==
  /\ sending \subseteq Drones
  /\ agg \in [Drones -> Snapshot \cup {Nothing}]
  /\ age \in [Drones -> 0 .. OfflineAfter + 1]
  /\ hb \subseteq Item
  /\ lastSent \in [Drones -> Snapshot \cup {Nothing}]
  /\ sentAge \in [Drones -> 0 .. MaxInterval]
  /\ queue \in Seq(Item) /\ Len(queue) <= QueueSize
  /\ liteAge \in [Drones -> 0 .. LiteEvery]
  /\ focusMap \subseteq Drones
  /\ focusSet \subseteq Drones
  /\ states \in [Drones -> Snapshot \cup {Nothing}]
  /\ lite \in [Drones -> Snapshot \cup {Nothing}]
  /\ full \in [Drones -> Snapshot \cup {Nothing}]
  /\ lost \subseteq Drones
  /\ faults \in 0 .. MaxFaults
  /\ changes \in 0 .. MaxChanges

\* What a new process has in memory; Redis keeps what it has.
FreshMemory ==
  /\ agg' = [d \in Drones |-> Nothing]
  /\ age' = [d \in Drones |-> 0]
  /\ hb' = {}
  /\ lastSent' = [d \in Drones |-> Nothing]
  /\ sentAge' = [d \in Drones |-> 0]
  /\ queue' = <<>>
  /\ liteAge' = [d \in Drones |-> LiteEvery]
  /\ focusMap' = {}

Init ==
  /\ sending = Drones
  /\ agg = [d \in Drones |-> Nothing]
  /\ age = [d \in Drones |-> 0]
  /\ hb = {}
  /\ lastSent = [d \in Drones |-> Nothing]
  /\ sentAge = [d \in Drones |-> 0]
  /\ queue = <<>>
  /\ liteAge = [d \in Drones |-> LiteEvery]
  /\ focusMap = {}
  /\ focusSet = {}
  /\ states = [d \in Drones |-> Nothing]
  /\ lite = [d \in Drones |-> Nothing]
  /\ full = [d \in Drones |-> Nothing]
  /\ lost = {}
  /\ faults = 0 /\ changes = 0

-----------------------------------------------------------------------------
(* The publisher's door: a full channel drops the item it is given. *)

\* Mutant: the send does not look at the capacity.
PublishAlways(it) == queue' = Append(queue, it) /\ lost' = lost \ {it.dev}

PublishTelemetry(it) ==
  IF Len(queue) < QueueSize
  THEN queue' = Append(queue, it) /\ lost' = lost \ {it.dev}
  ELSE lost' = lost \cup {it.dev} /\ UNCHANGED queue

-----------------------------------------------------------------------------
(* The receive loop *)

\* Mutant: no forced publication after MaxInterval.
ShouldPublishUnforced(d, s) ==
  \/ lastSent[d] = Nothing
  \/ s.connected # lastSent[d].connected
  \/ s.data.mode # lastSent[d].data.mode
  \/ sentAge[d] >= MinInterval /\ s.data.pos # lastSent[d].data.pos

\* DeadbandFilter.ShouldPublish without its markSent.
ShouldPublish(d, s) ==
  \/ lastSent[d] = Nothing
  \/ s.connected # lastSent[d].connected
  \/ s.data.mode # lastSent[d].data.mode
  \/ sentAge[d] >= MaxInterval
  \/ sentAge[d] >= MinInterval /\ s.data.pos # lastSent[d].data.pos

\* The messages that the decoder knows carry data, the others none.
DecodeMessage(known, c, data) == IF known THEN c ELSE data

\* What the aggregator has of d; the defaults of a new drone count as c.
DataOf(d, c) == IF agg[d] = Nothing THEN c ELSE agg[d].data

\* Any message makes the drone connected.
UpdateState(d, known, c) ==
  [connected |-> TRUE, data |-> DecodeMessage(known, c, DataOf(d, c))]

\* A frame of d goes through UpdateState and, if the decoder knew it, through
\* the filter (markSent) to the queue.  One step: the drone is not silent
\* meanwhile, and what the other goroutines do between the three locks commutes
\* with it.
Frame(d, known, c) ==
  /\ d \in sending
  /\ LET snap == UpdateState(d, known, c)
     IN /\ changes' = IF snap.data = DataOf(d, c) THEN changes ELSE changes + 1
        /\ changes' <= MaxChanges
        /\ agg' = [agg EXCEPT ![d] = snap]
        /\ age' = [age EXCEPT ![d] = 0]
        /\ IF known /\ ShouldPublish(d, snap)
           THEN /\ lastSent' = [lastSent EXCEPT ![d] = snap]
                /\ sentAge' = [sentAge EXCEPT ![d] = 0]
                /\ PublishTelemetry([dev |-> d, snap |-> snap])
           ELSE UNCHANGED <<filter, queue, lost>>
  /\ UNCHANGED <<sending, focusSet, hb, liteAge, focusMap, redis, faults>>

-----------------------------------------------------------------------------
(* The heartbeat goroutine *)

Silent(d) == agg[d] # Nothing /\ agg[d].connected /\ age[d] > OfflineAfter

\* CheckHeartbeats, under the lock: the silent drones are marked and listed.
CheckHeartbeats ==
  LET gone == {d \in Drones : Silent(d)}
      offline(d) == [agg[d] EXCEPT !.connected = FALSE]
  IN /\ hb = {} /\ gone # {}
     /\ agg' = [d \in Drones |-> IF d \in gone THEN offline(d) ELSE agg[d]]
     /\ hb' = {[dev |-> d, snap |-> offline(d)] : d \in gone}
     /\ UNCHANGED <<net, age, filter, queue, liteAge, focusMap, redis, lost,
                    faults>>

\* ... and published one by one after it, in the order of the map.
PublishNotice ==
  \E it \in hb :
    /\ hb' = hb \ {it}
    /\ PublishTelemetry(it)
    /\ UNCHANGED <<net, agg, age, filter, liteAge, focusMap, redis, faults>>

-----------------------------------------------------------------------------
(* The publisher's goroutines *)

BatchLen == IF Len(queue) < BatchSize THEN Len(queue) ELSE BatchSize

\* Positions of the drone's items among the first n of the queue.
ItemsOf(d, n) == {i \in 1 .. n : queue[i].dev = d}

Newest(I) == CHOOSE i \in I : \A j \in I : j <= i
Oldest(I) == CHOOSE i \in I : \A j \in I : i <= j

\* Mutant: the items of a batch are written newest first.
FirstWins(d, before) ==
  LET I == ItemsOf(d, BatchLen) IN IF I = {} THEN before ELSE queue[Oldest(I)].snap

\* What a stream that takes every item, or the first one of a batch, last saw.
LastOf(d, before) ==
  LET I == ItemsOf(d, BatchLen) IN IF I = {} THEN before ELSE queue[Newest(I)].snap
FirstOf(d, before) ==
  LET I == ItemsOf(d, BatchLen) IN IF I = {} THEN before ELSE queue[Oldest(I)].snap

InBatch == {d \in Drones : ItemsOf(d, BatchLen) # {}}
DueLite == {d \in InBatch : liteAge[d] >= LiteEvery}

\* flushBatch: the batch leaves the channel and the lite times are stored
\* before the pipeline runs, which may fail as a whole.
FlushBatch(ok) ==
  /\ queue # <<>>
  /\ queue' = SubSeq(queue, BatchLen + 1, Len(queue))
  /\ liteAge' = [d \in Drones |-> IF d \in DueLite THEN 0 ELSE liteAge[d]]
  /\ IF ok
     THEN /\ states' = [d \in Drones |-> LastOf(d, states[d])]
          /\ full' = [d \in Drones |->
                        IF d \in focusMap THEN LastOf(d, full[d]) ELSE full[d]]
          /\ lite' = [d \in Drones |->
                        IF d \in DueLite THEN FirstOf(d, lite[d]) ELSE lite[d]]
          /\ UNCHANGED <<lost, faults>>
     ELSE /\ faults < MaxFaults
          /\ faults' = faults + 1
          /\ lost' = lost \cup
               {d \in InBatch : ItemsOf(d, Len(queue)) = ItemsOf(d, BatchLen)}
          /\ UNCHANGED redis
  /\ UNCHANGED <<net, loops, filter, focusMap>>

\* syncFocusSetOnce; a read that fails leaves the map as it is.
SyncFocusSet ==
  /\ focusMap' = focusSet
  /\ UNCHANGED <<net, loops, filter, queue, liteAge, redis, lost, faults>>

-----------------------------------------------------------------------------
(* The process ends and comes back *)

\* A crash, or SIGTERM: Close cancels the context first, so the pipelines of
\* flushRemaining, which use that context, send nothing.
Stop ==
  /\ faults < MaxFaults
  /\ faults' = faults + 1
  /\ lost' = lost \cup {d \in Drones : ItemsOf(d, Len(queue)) # {}}
  /\ FreshMemory
  /\ UNCHANGED <<net, redis>>

-----------------------------------------------------------------------------
(* Outside: the link of a drone, the pilots' focus, time *)

LinkChange(d) ==
  /\ sending' = IF d \in sending THEN sending \ {d} ELSE sending \cup {d}
  /\ UNCHANGED <<focusSet, changes, loops, filter, queue, liteAge, focusMap, redis,
                 lost, faults>>

FocusChange(d) ==
  /\ changes < MaxChanges
  /\ changes' = changes + 1
  /\ focusSet' = IF d \in focusSet THEN focusSet \ {d} ELSE focusSet \cup {d}
  /\ UNCHANGED <<sending, loops, filter, queue, liteAge, focusMap, redis,
                 lost, faults>>

Older(a, max) == IF a < max THEN a + 1 ELSE a

\* A drone that sends is never silent for longer than OfflineAfter.
Tick ==
  /\ \A d \in sending : agg[d] # Nothing /\ agg[d].connected => age[d] < OfflineAfter
  /\ age' = [d \in Drones |-> Older(age[d], OfflineAfter + 1)]
  /\ sentAge' = [d \in Drones |-> Older(sentAge[d], MaxInterval)]
  /\ liteAge' = [d \in Drones |-> Older(liteAge[d], LiteEvery)]
  /\ UNCHANGED <<net, agg, hb, lastSent, queue, focusMap, redis, lost, faults>>

Next ==
  \/ \E d \in Drones, known \in BOOLEAN, c \in Data : Frame(d, known, c)
  \/ CheckHeartbeats
  \/ PublishNotice
  \/ \E ok \in BOOLEAN : FlushBatch(ok)
  \/ SyncFocusSet
  \/ Stop
  \/ \E d \in Drones : LinkChange(d) \/ FocusChange(d)
  \/ Tick

Spec == Init /\ [][Next]_vars

\* The goroutines run, pipelines do not fail for ever, time passes, and a drone
\* whose link is up goes on sending messages the decoder knows.
Fairness ==
  /\ WF_vars(CheckHeartbeats)
  /\ WF_vars(PublishNotice)
  /\ WF_vars(FlushBatch(TRUE))
  /\ WF_vars(SyncFocusSet)
  /\ SF_vars(Tick)
  /\ \A d \in Drones : SF_vars(\E c \in Data : Frame(d, TRUE, c))

FairSpec == Spec /\ Fairness

-----------------------------------------------------------------------------
(* Properties *)

Queued(d) == ItemsOf(d, Len(queue)) # {}

Offline(d) == states[d] # Nothing /\ ~states[d].connected

\* What the filter remembers as sent is what Redis holds, once the queue has no
\* item of the drone and unless the publisher lost the last one; an offline
\* notice, which the filter does not see, may have replaced it.
SentIsStored ==
  \A d \in Drones :
    lastSent[d] # Nothing /\ ~Queued(d) /\ d \notin lost =>
      /\ states[d] # Nothing
      /\ states[d].connected => states[d] = lastSent[d]

\* A drone found silent is offline in Redis, or the newest of its snapshots on
\* the way there says so: no online snapshot overtakes the notice.
OutageOnItsWay ==
  \A d \in Drones :
    agg[d] # Nothing /\ ~agg[d].connected =>
      \/ d \in lost
      \/ \E it \in hb : it.dev = d
      \/ Queued(d) /\ ~queue[Newest(ItemsOf(d, Len(queue)))].snap.connected
      \/ ~Queued(d) /\ Offline(d)

Follows(d) ==
  /\ agg[d] # Nothing /\ agg[d].connected
  /\ states[d] = agg[d]
  /\ lite[d] = agg[d]
  /\ d \in focusSet => full[d] = agg[d]

\* Redis and both channels come to agree with a drone that goes on sending, and
\* say offline of one that stops: an offline notice queued after the snapshot of
\* the drone's return, a dropped item, a failed pipeline and the rate limits
\* delay that and do not prevent it.  A notice that the publisher lost is lost.
StoreFollowsDrone ==
  \A d \in Drones :
    /\ <>[](d \in sending /\ d \in focusSet) \/ <>[](d \in sending /\ d \notin focusSet)
         => <>[]Follows(d)
    /\ <>[](d \notin sending) =>
         <>[](agg[d] = Nothing \/ d \in lost \/ Offline(d))
=============================================================================
