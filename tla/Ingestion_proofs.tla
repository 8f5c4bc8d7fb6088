-------------------------- MODULE Ingestion_proofs --------------------------
(***************************************************************************)
(* Proofs about Ingestion: for any number of drones, any capacities of the *)
(* queue and of a batch, and any number of failed pipelines and restarts,  *)
(* what was found out about a drone is in Redis, on its way there, or      *)
(* known to be lost.                                                       *)
(*                                                                         *)
(* Both invariants follow the newest item of a drone, described by its     *)
(* position.  That a flush writes snapshots of the batch needs more: a set *)
(* of positions has a last one, which Newest chooses.                      *)
(***************************************************************************)
EXTENDS Ingestion, TLAPS, SequenceTheorems, FiniteSetTheorems, WellFoundedInduction

\* The types that the proofs need.
Types ==
  /\ agg \in [Drones -> Snapshot \cup {Nothing}]
  /\ hb \subseteq Item
  /\ lastSent \in [Drones -> Snapshot \cup {Nothing}]
  /\ queue \in Seq(Item)

\* Position i of the queue q holds the newest item of d; q holds none of d.
Last(d, q, i) ==
  /\ i \in 1 .. Len(q) /\ q[i].dev = d
  /\ \A j \in 1 .. Len(q) : q[j].dev = d => j <= i

None(d, q) == \A j \in 1 .. Len(q) : q[j].dev # d

Out(d) == agg[d] # Nothing /\ agg[d].connected = FALSE

Fits(d, s) == s.connected = TRUE => s = lastSent[d]

\* A drone found silent: its notice is yet to be queued, is the newest item, or
\* has arrived.
OutComes(d) ==
  \/ \E it \in hb : it.dev = d
  \/ \E i \in 1 .. Len(queue) : Last(d, queue, i) /\ queue[i].snap.connected = FALSE
  \/ None(d, queue) /\ states[d] # Nothing /\ states[d].connected = FALSE

\* A drone that the filter has let through.
SentComes(d) ==
  \/ \E i \in 1 .. Len(queue) : Last(d, queue, i) /\ Fits(d, queue[i].snap)
  \/ None(d, queue) /\ states[d] # Nothing /\ Fits(d, states[d])

OnTheWay(d) ==
  /\ Out(d) /\ d \notin lost => OutComes(d)
  /\ lastSent[d] # Nothing /\ d \notin lost => SentComes(d)

IngestInv ==
  /\ Types
  /\ \A it \in hb : it.snap.connected = FALSE
  /\ \A d \in Drones : OnTheWay(d)

-----------------------------------------------------------------------------
(* The queue *)

\* A published item is the newest one of its drone, or lost; the other drones'
\* items stay where they are.
LEMMA PublishKeeps ==
  ASSUME Types, NEW it \in Item, PublishTelemetry(it)
  PROVE  /\ queue' \in Seq(Item)
         /\ it.dev \in lost' \/ \E i \in 1 .. Len(queue') : Last(it.dev, queue', i) /\ queue'[i] = it
         /\ \A d \in Drones : d # it.dev =>
              /\ d \in lost' <=> d \in lost
              /\ None(d, queue) => None(d, queue')
              /\ \A i \in 1 .. Len(queue) :
                   Last(d, queue, i) =>
                     i \in 1 .. Len(queue') /\ Last(d, queue', i) /\ queue'[i] = queue[i]
<1>1. queue \in Seq(Item) BY DEF Types
<1>2. CASE Len(queue) < QueueSize
  <2>1. queue' = Append(queue, it) /\ lost' = lost \ {it.dev} BY <1>2 DEF PublishTelemetry
  <2>2. /\ queue' \in Seq(Item) /\ Len(queue) \in Nat /\ Len(queue') = Len(queue) + 1
        /\ queue'[Len(queue) + 1] = it
        /\ \A i \in 1 .. Len(queue) : queue'[i] = queue[i]
    BY <1>1, <2>1, AppendProperties
  <2>3. Last(it.dev, queue', Len(queue) + 1) /\ Len(queue) + 1 \in 1 .. Len(queue')
    BY <2>2 DEF Last
  <2>4. ASSUME NEW d \in Drones, d # it.dev
        PROVE  /\ d \in lost' <=> d \in lost
               /\ None(d, queue) => None(d, queue')
               /\ \A i \in 1 .. Len(queue) :
                    Last(d, queue, i) =>
                      i \in 1 .. Len(queue') /\ Last(d, queue', i) /\ queue'[i] = queue[i]
    <3>1. \A j \in 1 .. Len(queue') : j \in 1 .. Len(queue) \/ queue'[j].dev # d
      BY <2>2, <2>4
    <3>2. None(d, queue) => None(d, queue') BY <2>2, <3>1 DEF None
    <3>3. \A i \in 1 .. Len(queue) :
            Last(d, queue, i) =>
              i \in 1 .. Len(queue') /\ Last(d, queue', i) /\ queue'[i] = queue[i]
      BY <2>2, <3>1 DEF Last
    <3>4. QED BY <2>1, <2>4, <3>2, <3>3
  <2>5. QED BY <2>2, <2>3, <2>4
<1>3. CASE ~(Len(queue) < QueueSize)
  <2>1. queue' = queue /\ lost' = lost \cup {it.dev} BY <1>3 DEF PublishTelemetry
  <2>2. QED BY <1>1, <2>1
<1>4. QED BY <1>2, <1>3

\* A publication keeps the way of every other drone.
LEMMA OthersStay ==
  ASSUME IngestInv, NEW it \in Item, PublishTelemetry(it),
         NEW d \in Drones, d # it.dev,
         Out(d)' => Out(d), lastSent'[d] = lastSent[d], states' = states,
         \A n \in hb : n.dev = d => n \in hb'
  PROVE  OnTheWay(d)'
<1>1. OnTheWay(d) /\ Types BY DEF IngestInv
<1>2. /\ d \in lost' <=> d \in lost
      /\ None(d, queue) => None(d, queue')
      /\ \A i \in 1 .. Len(queue) :
           Last(d, queue, i) =>
             i \in 1 .. Len(queue') /\ Last(d, queue', i) /\ queue'[i] = queue[i]
  BY <1>1, PublishKeeps
<1>3. OutComes(d) => OutComes(d)' BY <1>2 DEF OutComes
<1>4. SentComes(d) => SentComes(d)' BY <1>2 DEF SentComes, Fits
<1>5. QED BY <1>1, <1>2, <1>3, <1>4 DEF OnTheWay

LEMMA QuietKeeps ==
  ASSUME IngestInv, UNCHANGED <<agg, hb, lastSent, queue, states, lost>>
  PROVE  IngestInv'
<1>1. Types' BY DEF IngestInv, Types
<1>2. \A d \in Drones : OnTheWay(d)'
  BY DEF IngestInv, OnTheWay, Out, OutComes, SentComes, Fits
<1>3. QED BY <1>1, <1>2 DEF IngestInv

-----------------------------------------------------------------------------
(* The goroutines *)

LEMMA FrameKeeps ==
  ASSUME IngestInv, NEW d \in Drones, NEW known \in BOOLEAN, NEW c \in Data, Frame(d, known, c)
  PROVE  IngestInv'
<1> DEFINE snap == UpdateState(d, known, c)
           it == [dev |-> d, snap |-> snap]
<1>1. Types BY DEF IngestInv
<1>2. DataOf(d, c) \in Data BY <1>1 DEF DataOf, Types, Snapshot
<1>3. snap \in Snapshot /\ snap.connected = TRUE
  BY <1>2 DEF UpdateState, DecodeMessage, Snapshot
<1>4. agg' = [agg EXCEPT ![d] = snap] /\ UNCHANGED <<hb, states>>
  BY DEF Frame, redis
<1>5. it \in Item /\ it.dev = d /\ it.snap = snap BY <1>3 DEF Item
<1>6. \/ lastSent' = [lastSent EXCEPT ![d] = snap] /\ PublishTelemetry(it)
      \/ UNCHANGED <<lastSent, queue, lost>>
  BY DEF Frame, filter
<1> HIDE DEF snap, it
<1>7. agg' \in [Drones -> Snapshot \cup {Nothing}] /\ ~Out(d)'
      /\ \A e \in Drones : e # d => agg'[e] = agg[e]
  BY <1>1, <1>3, <1>4 DEF Types, Out
<1>8. CASE lastSent' = [lastSent EXCEPT ![d] = snap] /\ PublishTelemetry(it)
  <2>1. /\ queue' \in Seq(Item)
        /\ d \in lost' \/ \E i \in 1 .. Len(queue') : Last(d, queue', i) /\ queue'[i] = it
    BY <1>1, <1>5, <1>8, PublishKeeps
  <2>2. lastSent'[d] = snap /\ lastSent' \in [Drones -> Snapshot \cup {Nothing}]
        /\ \A e \in Drones : e # d => lastSent'[e] = lastSent[e]
    BY <1>1, <1>3, <1>8 DEF Types
  <2>3. Types' BY <1>1, <1>4, <1>7, <2>1, <2>2 DEF Types
  <2>4. d \notin lost' => SentComes(d)' BY <1>5, <2>1, <2>2 DEF SentComes, Fits
  <2>5. OnTheWay(d)' BY <1>7, <2>4 DEF OnTheWay
  <2>6. ASSUME NEW e \in Drones, e # d PROVE OnTheWay(e)'
    <3>1. Out(e)' => Out(e) BY <1>7, <2>6 DEF Out
    <3>2. QED BY <1>4, <1>5, <1>8, <2>2, <2>6, <3>1, OthersStay
  <2>7. QED BY <1>4, <2>3, <2>5, <2>6 DEF IngestInv
<1>9. CASE UNCHANGED <<lastSent, queue, lost>>
  <2>1. Types' BY <1>1, <1>4, <1>7, <1>9 DEF Types
  <2>2. ASSUME NEW e \in Drones PROVE OnTheWay(e)'
    <3>1. Out(e)' => Out(e) BY <1>7 DEF Out
    <3>2. (OutComes(e) => OutComes(e)') /\ (SentComes(e) => SentComes(e)')
      BY <1>4, <1>9 DEF OutComes, SentComes, Fits
    <3>3. QED BY <1>9, <3>1, <3>2 DEF IngestInv, OnTheWay
  <2>3. QED BY <1>4, <2>1, <2>2 DEF IngestInv
<1>10. QED BY <1>6, <1>8, <1>9

LEMMA CheckHeartbeatsKeeps ==
  ASSUME IngestInv, CheckHeartbeats PROVE IngestInv'
<1> DEFINE gone == {d \in Drones : Silent(d)}
           offline(d) == [agg[d] EXCEPT !.connected = FALSE]
<1>1. Types BY DEF IngestInv
<1>2. /\ hb = {}
      /\ agg' = [d \in Drones |-> IF d \in gone THEN offline(d) ELSE agg[d]]
      /\ hb' = {[dev |-> d, snap |-> offline(d)] : d \in gone}
      /\ UNCHANGED <<lastSent, queue, states, lost>>
  BY DEF CheckHeartbeats, filter, redis
<1>3. ASSUME NEW d \in gone
      PROVE  offline(d) \in Snapshot /\ offline(d).connected = FALSE
  <2>1. agg[d] \in Snapshot BY <1>1 DEF Silent, Types
  <2>2. QED BY <2>1 DEF Snapshot
<1> HIDE DEF offline
<1>4. hb' \subseteq Item /\ \A n \in hb' : n.snap.connected = FALSE
  <2> SUFFICES ASSUME NEW n \in hb' PROVE n \in Item /\ n.snap.connected = FALSE OBVIOUS
  <2>1. PICK d \in gone : n = [dev |-> d, snap |-> offline(d)] BY <1>2
  <2>2. d \in Drones /\ n.snap = offline(d) BY <2>1
  <2>3. n \in Item BY <1>3, <2>1, <2>2 DEF Item
  <2>4. QED BY <1>3, <2>1, <2>2, <2>3
<1>5. Types' BY <1>1, <1>2, <1>3, <1>4 DEF Types
<1>6. ASSUME NEW d \in Drones PROVE OnTheWay(d)'
  <2>1. SentComes(d) => SentComes(d)' BY <1>2 DEF SentComes, Fits
  <2>2. CASE d \in gone
    <3>1. \E n \in hb' : n.dev = d
      <4>1. [dev |-> d, snap |-> offline(d)] \in hb' BY <1>2, <2>2
      <4>2. [dev |-> d, snap |-> offline(d)].dev = d OBVIOUS
      <4>3. QED BY <4>1, <4>2
    <3>2. QED BY <1>2, <2>1, <3>1 DEF IngestInv, OnTheWay, OutComes
  <2>3. CASE d \notin gone
    <3>1. Out(d)' => Out(d) BY <1>2, <2>3 DEF Out
    <3>2. OutComes(d) => OutComes(d)' BY <1>2 DEF OutComes
    <3>3. QED BY <1>2, <2>1, <3>1, <3>2 DEF IngestInv, OnTheWay
  <2>4. QED BY <2>2, <2>3
<1>7. QED BY <1>4, <1>5, <1>6 DEF IngestInv

LEMMA PublishNoticeKeeps ==
  ASSUME IngestInv, PublishNotice PROVE IngestInv'
<1>1. Types BY DEF IngestInv
<1>2. PICK it \in hb : hb' = hb \ {it} /\ PublishTelemetry(it)
  BY DEF PublishNotice
<1>3. UNCHANGED <<agg, lastSent, states>> BY DEF PublishNotice, filter, redis
<1>4. it \in Item /\ it.dev \in Drones /\ it.snap.connected = FALSE
  BY <1>1, <1>2 DEF Types, Item, IngestInv
<1>5. /\ queue' \in Seq(Item)
      /\ it.dev \in lost' \/ \E i \in 1 .. Len(queue') : Last(it.dev, queue', i) /\ queue'[i] = it
  BY <1>1, <1>2, <1>4, PublishKeeps
<1>6. Types' BY <1>1, <1>2, <1>3, <1>5 DEF Types
<1>7. ASSUME NEW d \in Drones PROVE OnTheWay(d)'
  <2>1. CASE d = it.dev
    <3>1. d \notin lost' => OutComes(d)' BY <1>4, <1>5, <2>1 DEF OutComes
    <3>2. d \notin lost' => SentComes(d)' BY <1>4, <1>5, <2>1 DEF SentComes, Fits
    <3>3. QED BY <3>1, <3>2 DEF OnTheWay
  <2>2. CASE d # it.dev
    <3>1. Out(d)' => Out(d) BY <1>3 DEF Out
    <3>2. \A n \in hb : n.dev = d => n \in hb' BY <1>2, <2>2
    <3>3. QED BY <1>2, <1>3, <1>4, <2>2, <3>1, <3>2, OthersStay
  <2>3. QED BY <2>1, <2>2
<1>8. QED BY <1>2, <1>6, <1>7 DEF IngestInv

\* A batch takes the oldest items: the newest one of a drone moves up, or is
\* written last, or is lost with the pipeline.
LEMMA FlushBatchKeeps ==
  ASSUME IngestInv, NEW ok \in BOOLEAN, FlushBatch(ok) PROVE IngestInv'
<1> DEFINE n == BatchLen
<1>1. Types BY DEF IngestInv
<1>2. queue \in Seq(Item) /\ Len(queue) \in Nat BY <1>1 DEF Types
<1>3. n \in 0 .. Len(queue) BY <1>2, IngestionAssumption DEF BatchLen
<1> HIDE DEF n
<1>4. queue' = SubSeq(queue, n + 1, Len(queue)) /\ UNCHANGED <<agg, hb, lastSent>>
  BY DEF FlushBatch, loops, filter, n
<1>5. /\ queue' \in Seq(Item) /\ Len(queue') = Len(queue) - n
      /\ \A j \in 1 .. Len(queue) - n : queue'[j] = queue[n + j]
  <2>1. \A i \in n + 1 .. Len(queue) : queue[i] \in Item BY <1>2, <1>3
  <2>2. /\ queue' \in Seq(Item)
        /\ Len(queue') = IF n + 1 <= Len(queue) THEN Len(queue) - (n + 1) + 1 ELSE 0
        /\ \A i \in 1 .. Len(queue) - (n + 1) + 1 : queue'[i] = queue[(n + 1) + i - 1]
    BY <1>2, <1>3, <1>4, <2>1, SubSeqProperties
  <2>3. Len(queue') = Len(queue) - n BY <1>2, <1>3, <2>2
  <2>4. ASSUME NEW j \in 1 .. Len(queue) - n PROVE queue'[j] = queue[n + j]
    <3>1. j \in 1 .. Len(queue) - (n + 1) + 1 /\ (n + 1) + j - 1 = n + j BY <1>2, <1>3
    <3>2. QED BY <2>2, <3>1
  <2>5. QED BY <2>2, <2>3, <2>4
<1>6. Types' BY <1>1, <1>4, <1>5 DEF Types
<1>7. \/ /\ states' = [d \in Drones |-> LastOf(d, states[d])] /\ lost' = lost
      \/ /\ states' = states
         /\ lost' = lost \cup {d \in InBatch : ItemsOf(d, Len(queue)) = ItemsOf(d, BatchLen)}
  BY DEF FlushBatch, redis
<1>8. lost \subseteq lost' BY <1>7
\* No item of d: nothing happens to d.
<1>9. ASSUME NEW d \in Drones, None(d, queue)
      PROVE  None(d, queue') /\ states'[d] = states[d]
  <2>1. None(d, queue') BY <1>2, <1>3, <1>5, <1>9 DEF None
  <2>2. ItemsOf(d, BatchLen) = {} BY <1>2, <1>3, <1>9 DEF ItemsOf, None, n
  <2>3. QED BY <1>7, <2>1, <2>2 DEF LastOf
\* The newest item of d stays in the queue.
<1>10. ASSUME NEW d \in Drones, NEW i \in 1 .. Len(queue), Last(d, queue, i), i > n
       PROVE  i - n \in 1 .. Len(queue') /\ Last(d, queue', i - n) /\ queue'[i - n] = queue[i]
  <2>1. i - n \in 1 .. Len(queue') /\ queue'[i - n] = queue[i] BY <1>2, <1>3, <1>5, <1>10
  <2>2. ASSUME NEW j \in 1 .. Len(queue'), queue'[j].dev = d PROVE j <= i - n
    <3>1. n + j \in 1 .. Len(queue) /\ queue'[j] = queue[n + j] BY <1>2, <1>3, <1>5
    <3>2. n + j <= i BY <1>10, <2>2, <3>1 DEF Last
    <3>3. QED BY <1>3, <3>2
  <2>3. queue'[i - n].dev = d BY <1>10, <2>1 DEF Last
  <2>4. QED BY <2>1, <2>2, <2>3 DEF Last
\* The newest item of d is in the batch.
<1>11. ASSUME NEW d \in Drones, NEW i \in 1 .. Len(queue), Last(d, queue, i), i <= n
       PROVE  None(d, queue') /\ (d \in lost' \/ states'[d] = queue[i].snap)
  <2>1. ASSUME NEW j \in 1 .. Len(queue') PROVE queue'[j].dev # d
    <3>1. n + j \in 1 .. Len(queue) /\ queue'[j] = queue[n + j] /\ ~(n + j <= i)
      BY <1>2, <1>3, <1>5, <1>11
    <3>2. QED BY <1>11, <3>1 DEF Last
  <2>2. /\ i \in ItemsOf(d, BatchLen) /\ \A j \in ItemsOf(d, BatchLen) : j <= i
        /\ ItemsOf(d, BatchLen) \subseteq 1 .. Len(queue)
    BY <1>2, <1>3, <1>11 DEF ItemsOf, Last, n
  <2>3. Newest(ItemsOf(d, BatchLen)) = i
    <3>1. /\ Newest(ItemsOf(d, BatchLen)) \in ItemsOf(d, BatchLen)
          /\ \A j \in ItemsOf(d, BatchLen) : j <= Newest(ItemsOf(d, BatchLen))
      BY <2>2 DEF Newest
    <3>2. QED BY <2>2, <3>1
  <2>4. ItemsOf(d, Len(queue)) = ItemsOf(d, BatchLen)
    BY <1>2, <1>3, <1>11 DEF ItemsOf, Last, n
  <2>5. d \in InBatch BY <2>2 DEF InBatch
  <2>6. LastOf(d, states[d]) = queue[i].snap BY <2>2, <2>3 DEF LastOf
  <2>7. d \in lost' \/ states'[d] = queue[i].snap BY <1>7, <2>4, <2>5, <2>6
  <2>8. QED BY <2>1, <2>7 DEF None
<1>12. ASSUME NEW d \in Drones PROVE OnTheWay(d)'
  <2> SUFFICES ASSUME d \notin lost'
               PROVE  /\ Out(d)' => OutComes(d)'
                      /\ lastSent'[d] # Nothing => SentComes(d)'
    BY DEF OnTheWay
  <2>1. OnTheWay(d) /\ d \notin lost /\ (Out(d)' => Out(d)) /\ lastSent'[d] = lastSent[d]
    BY <1>4, <1>8 DEF IngestInv, Out
  <2>2. \A s : Fits(d, s)' <=> Fits(d, s) BY <1>4 DEF Fits
  <2>3. ASSUME NEW i \in 1 .. Len(queue), Last(d, queue, i)
        PROVE  \/ i - n \in 1 .. Len(queue') /\ Last(d, queue', i - n) /\ queue'[i - n] = queue[i]
               \/ None(d, queue') /\ states'[d] = queue[i].snap
    <3>1. i > n \/ i <= n BY <1>3
    <3>2. QED BY <1>10, <1>11, <2>3, <3>1
  <2>4. \A i \in 1 .. Len(queue) : queue[i].snap # Nothing
    <3>1. ASSUME NEW i \in 1 .. Len(queue) PROVE queue[i].snap \in Snapshot
      <4>1. queue[i] \in Item BY <1>2
      <4>2. QED BY <4>1 DEF Item
    <3>2. QED BY <3>1, NothingAssumption
  <2>5. Out(d)' => OutComes(d)'
    <3> SUFFICES ASSUME Out(d) PROVE OutComes(d)' BY <2>1
    <3>1. OutComes(d) BY <2>1 DEF OnTheWay
    <3>2. CASE \E it \in hb : it.dev = d BY <1>4, <3>2 DEF OutComes
    <3>3. CASE \E i \in 1 .. Len(queue) : Last(d, queue, i) /\ queue[i].snap.connected = FALSE
      <4>1. PICK i \in 1 .. Len(queue) : Last(d, queue, i) /\ queue[i].snap.connected = FALSE
        BY <3>3
      <4>2. QED BY <2>3, <2>4, <4>1 DEF OutComes
    <3>4. CASE None(d, queue) /\ states[d] # Nothing /\ states[d].connected = FALSE
      BY <1>9, <3>4 DEF OutComes
    <3>5. QED BY <3>1, <3>2, <3>3, <3>4 DEF OutComes
  <2>6. lastSent'[d] # Nothing => SentComes(d)'
    <3> SUFFICES ASSUME lastSent[d] # Nothing PROVE SentComes(d)' BY <2>1
    <3>1. SentComes(d) BY <2>1 DEF OnTheWay
    <3>2. CASE \E i \in 1 .. Len(queue) : Last(d, queue, i) /\ Fits(d, queue[i].snap)
      <4>1. PICK i \in 1 .. Len(queue) : Last(d, queue, i) /\ Fits(d, queue[i].snap)
        BY <3>2
      <4>2. CASE i - n \in 1 .. Len(queue') /\ Last(d, queue', i - n) /\ queue'[i - n] = queue[i]
        BY <1>4, <4>1, <4>2 DEF SentComes, Fits
      <4>3. CASE None(d, queue') /\ states'[d] = queue[i].snap
        BY <1>4, <2>4, <4>1, <4>3 DEF SentComes, Fits
      <4>4. QED BY <2>3, <4>1, <4>2, <4>3
    <3>3. CASE None(d, queue) /\ states[d] # Nothing /\ Fits(d, states[d])
      BY <1>4, <1>9, <3>3 DEF SentComes, Fits
    <3>4. QED BY <3>1, <3>2, <3>3 DEF SentComes
  <2>7. QED BY <2>5, <2>6
<1>13. QED BY <1>4, <1>6, <1>12 DEF IngestInv

LEMMA StopKeeps ==
  ASSUME IngestInv, Stop PROVE IngestInv'
<1>1. /\ agg' = [d \in Drones |-> Nothing] /\ hb' = {}
      /\ lastSent' = [d \in Drones |-> Nothing] /\ queue' = <<>>
  BY DEF Stop, FreshMemory
<1>2. Types' BY <1>1 DEF Types
<1>3. \A d \in Drones : OnTheWay(d)' BY <1>1 DEF OnTheWay, Out
<1>4. QED BY <1>1, <1>2, <1>3 DEF IngestInv

-----------------------------------------------------------------------------
(* The theorems *)

LEMMA IngestInvKept ==
  ASSUME IngestInv, [Next]_vars PROVE IngestInv'
<1>1. ASSUME NEW d \in Drones, NEW known \in BOOLEAN, NEW c \in Data, Frame(d, known, c)
      PROVE  IngestInv'
  BY <1>1, FrameKeeps
<1>2. CASE CheckHeartbeats BY <1>2, CheckHeartbeatsKeeps
<1>3. CASE PublishNotice BY <1>3, PublishNoticeKeeps
<1>4. ASSUME NEW ok \in BOOLEAN, FlushBatch(ok) PROVE IngestInv'
  BY <1>4, FlushBatchKeeps
<1>5. CASE SyncFocusSet BY <1>5, QuietKeeps DEF SyncFocusSet, loops, filter, redis
<1>6. CASE Stop BY <1>6, StopKeeps
<1>7. ASSUME NEW d \in Drones, LinkChange(d) \/ FocusChange(d) PROVE IngestInv'
  BY <1>7, QuietKeeps DEF LinkChange, FocusChange, loops, filter, redis
<1>8. CASE Tick BY <1>8, QuietKeeps DEF Tick, redis
<1>9. CASE UNCHANGED vars BY <1>9, QuietKeeps DEF vars, loops, filter, redis
<1>10. QED BY <1>1, <1>2, <1>3, <1>4, <1>5, <1>6, <1>7, <1>8, <1>9 DEF Next

\* What was found out about a drone is in Redis, on its way, or known as lost.
THEOREM IngestInvariant == Spec => []IngestInv
<1>1. Init => IngestInv
  BY DEF Init, IngestInv, Types, OnTheWay, Out
<1>2. IngestInv /\ [Next]_vars => IngestInv' BY IngestInvKept
<1>3. QED BY <1>1, <1>2, PTL DEF Spec

\* No snapshot that says online overtakes an offline notice between the
\* aggregator and drone:states.
THEOREM OutageStaysOnItsWay == Spec => []OutageOnItsWay
<1>1. IngestInv => OutageOnItsWay
  <2> SUFFICES ASSUME IngestInv, NEW d \in Drones,
                      agg[d] # Nothing, ~agg[d].connected, d \notin lost,
                      ~ \E it \in hb : it.dev = d
               PROVE  \/ Queued(d) /\ ~queue[Newest(ItemsOf(d, Len(queue)))].snap.connected
                      \/ ~Queued(d) /\ Offline(d)
    BY DEF OutageOnItsWay
  <2>1. Types /\ OnTheWay(d) BY DEF IngestInv
  <2>2. agg[d] \in Snapshot BY <2>1 DEF Types
  <2>3. Out(d) BY <2>2 DEF Out, Snapshot
  <2>4. OutComes(d) BY <2>1, <2>3 DEF OnTheWay
  <2>5. CASE \E i \in 1 .. Len(queue) : Last(d, queue, i) /\ queue[i].snap.connected = FALSE
    <3>1. PICK i \in 1 .. Len(queue) : Last(d, queue, i) /\ queue[i].snap.connected = FALSE
      BY <2>5
    <3>2. i \in ItemsOf(d, Len(queue)) /\ \A j \in ItemsOf(d, Len(queue)) : j <= i
      BY <3>1 DEF ItemsOf, Last
    <3>3. Newest(ItemsOf(d, Len(queue))) = i
      <4>1. /\ Newest(ItemsOf(d, Len(queue))) \in ItemsOf(d, Len(queue))
            /\ \A j \in ItemsOf(d, Len(queue)) : j <= Newest(ItemsOf(d, Len(queue)))
        BY <3>2 DEF Newest
      <4>2. ItemsOf(d, Len(queue)) \subseteq Nat BY <2>1 DEF ItemsOf, Types
      <4>3. QED BY <3>2, <4>1, <4>2
    <3>4. QED BY <3>1, <3>2, <3>3 DEF Queued
  <2>6. CASE None(d, queue) /\ states[d] # Nothing /\ states[d].connected = FALSE
    BY <2>6 DEF Queued, ItemsOf, None, Offline
  <2>7. QED BY <2>4, <2>5, <2>6 DEF OutComes
<1>2. QED BY <1>1, IngestInvariant, PTL

\* What the filter remembers as sent is in drone:states once nothing of the drone
\* is queued, unless an offline notice is there or the publisher lost the last one.
THEOREM SentStaysStored == Spec => []SentIsStored
<1>1. IngestInv => SentIsStored
  <2> SUFFICES ASSUME IngestInv, NEW d \in Drones,
                      lastSent[d] # Nothing, ~Queued(d), d \notin lost
               PROVE  /\ states[d] # Nothing
                      /\ states[d].connected => states[d] = lastSent[d]
    BY DEF SentIsStored
  <2>1. SentComes(d) BY DEF IngestInv, OnTheWay
  <2>2. \A i \in 1 .. Len(queue) : ~Last(d, queue, i) BY DEF Queued, ItemsOf, Last
  <2>3. states[d] # Nothing /\ Fits(d, states[d]) BY <2>1, <2>2 DEF SentComes
  <2>4. (states[d].connected = TRUE) => states[d] = lastSent[d] BY <2>3 DEF Fits
  <2>5. QED BY <2>3, <2>4
<1>2. QED BY <1>1, IngestInvariant, PTL

-----------------------------------------------------------------------------
(* The positions that a batch is read at *)

\* A set of positions that is not empty has a last one and a first one.  The
\* sets of the positions beyond each are ordered by inclusion, which is well
\* founded.
LEMMA LastPosition ==
  ASSUME NEW n \in Nat, NEW I \in SUBSET (1 .. n), I # {}
  PROVE  \E i \in I : \A j \in I : j <= i
<1> DEFINE Beyond(i) == {j \in I : j > i}
           T == {Beyond(i) : i \in I}
<1>0. \A i \in I : i \in Int OBVIOUS
<1>1. IsFiniteSet(I)
  <2>1. IsFiniteSet(1 .. n) BY FS_Interval
  <2>2. QED BY <2>1, FS_Subset
<1>2. \A i \in I : Beyond(i) \in FiniteSubsetsOf(I)
  BY <1>1, FS_Subset DEF FiniteSubsetsOf
<1>3. T \subseteq FiniteSubsetsOf(I) /\ T # {} BY <1>2
<1>4. IsWellFoundedOn(StrictSubsetOrdering(I), FiniteSubsetsOf(I))
  BY FS_StrictSubsetOrderingWellFounded
<1> HIDE DEF T
<1>5. PICK U \in T : \A V \in T : <<V, U>> \notin StrictSubsetOrdering(I)
  BY <1>3, <1>4, WFMin
<1>6. PICK i \in I : U = Beyond(i) BY DEF T
<1>7. ASSUME NEW j \in I, j > i PROVE FALSE
  <2>1. Beyond(j) \in T BY DEF T
  <2>2. Beyond(j) \subseteq Beyond(i)
    <3>1. \A m \in I : m > j => m > i BY <1>0, <1>7
    <3>2. QED BY <3>1
  <2>3. j \in Beyond(i) /\ j \notin Beyond(j) BY <1>0, <1>7
  <2>4. Beyond(j) \in SUBSET I /\ Beyond(i) \in SUBSET I /\ Beyond(j) # Beyond(i)
    BY <2>3
  <2> HIDE DEF Beyond
  <2>5. <<Beyond(j), Beyond(i)>> \in StrictSubsetOrdering(I)
    BY <2>2, <2>4 DEF StrictSubsetOrdering
  <2>6. QED BY <1>5, <1>6, <2>1, <2>5
<1>8. QED BY <1>7

LEMMA FirstPosition ==
  ASSUME NEW n \in Nat, NEW I \in SUBSET (1 .. n), I # {}
  PROVE  \E i \in I : \A j \in I : i <= j
<1> DEFINE J == {n + 1 - i : i \in I}
<1>0. \A i \in I : i \in 1 .. n OBVIOUS
<1>1. J \in SUBSET (1 .. n) /\ J # {}
  <2>1. \A i \in I : n + 1 - i \in 1 .. n BY <1>0
  <2>2. QED BY <2>1
<1>2. PICK k \in J : \A j \in J : j <= k BY <1>1, LastPosition
<1>3. PICK i \in I : k = n + 1 - i BY DEF J
<1>4. ASSUME NEW j \in I PROVE i <= j
  <2>1. n + 1 - j \in J OBVIOUS
  <2>2. n + 1 - j <= n + 1 - i BY <1>2, <1>3, <2>1
  <2>3. i \in Int /\ j \in Int BY <1>0
  <2>4. QED BY <2>2, <2>3
<1>5. QED BY <1>4

\* What a stream reads of a batch is a snapshot that the batch holds, or what
\* it had before.
LEMMA BatchReads ==
  ASSUME queue \in Seq(Item), NEW d \in Drones, NEW before
  PROVE  /\ LastOf(d, before) \in Snapshot \cup {before}
         /\ FirstOf(d, before) \in Snapshot \cup {before}
<1> DEFINE I == ItemsOf(d, BatchLen)
<1>1. Len(queue) \in Nat OBVIOUS
<1>2. BatchLen \in Nat /\ BatchLen <= Len(queue)
  BY <1>1, IngestionAssumption DEF BatchLen
<1>3. I \in SUBSET (1 .. BatchLen) BY DEF ItemsOf
<1>4. \A i \in I : i \in 1 .. Len(queue) BY <1>1, <1>2, <1>3
<1>5. \A i \in I : queue[i] \in Item BY <1>4
<1>6. \A i \in I : queue[i].snap \in Snapshot BY <1>5 DEF Item
<1>7. ASSUME I # {} PROVE Newest(I) \in I /\ Oldest(I) \in I
  <2>1. \E i \in I : \A j \in I : j <= i BY <1>2, <1>3, <1>7, LastPosition
  <2>2. \E i \in I : \A j \in I : i <= j BY <1>2, <1>3, <1>7, FirstPosition
  <2> HIDE DEF I
  <2>3. Newest(I) \in I BY <2>1 DEF Newest
  <2>4. Oldest(I) \in I BY <2>2 DEF Oldest
  <2>5. QED BY <2>3, <2>4
<1>8. QED BY <1>6, <1>7 DEF LastOf, FirstOf

-----------------------------------------------------------------------------
(* Type correctness *)

\* What a frame makes of a drone's state is a snapshot.
LEMMA UpdateType ==
  ASSUME ITypeOK, NEW d \in Drones, NEW known \in BOOLEAN, NEW c \in Data
  PROVE  UpdateState(d, known, c) \in Snapshot
<1>1. agg[d] \in Snapshot \cup {Nothing} BY DEF ITypeOK
<1>2. DataOf(d, c) \in Data BY <1>1 DEF DataOf, Snapshot
<1>3. QED BY <1>2 DEF UpdateState, DecodeMessage, Snapshot

\* The queue takes an item while it has room for it.
LEMMA PublishType ==
  ASSUME ITypeOK, NEW it \in Item, PublishTelemetry(it)
  PROVE  queue' \in Seq(Item) /\ Len(queue') <= QueueSize /\ lost' \subseteq Drones
<1>1. it.dev \in Drones BY DEF Item
<1>2. queue \in Seq(Item) /\ Len(queue) \in Nat /\ QueueSize \in Nat
  BY IngestionAssumption DEF ITypeOK
<1>3. lost \subseteq Drones /\ Len(queue) <= QueueSize BY DEF ITypeOK
<1>4. CASE Len(queue) < QueueSize
  <2>1. queue' = Append(queue, it) /\ lost' = lost \ {it.dev}
    BY <1>4 DEF PublishTelemetry
  <2>2. queue' \in Seq(Item) /\ Len(queue') = Len(queue) + 1
    BY <1>2, <2>1, AppendProperties
  <2>3. QED BY <1>2, <1>3, <1>4, <2>1, <2>2
<1>5. CASE ~(Len(queue) < QueueSize)
  <2>1. queue' = queue /\ lost' = lost \cup {it.dev} BY <1>5 DEF PublishTelemetry
  <2>2. QED BY <1>1, <1>2, <1>3, <2>1
<1>6. QED BY <1>4, <1>5

LEMMA FrameType ==
  ASSUME ITypeOK, NEW d \in Drones, NEW known \in BOOLEAN, NEW c \in Data, Frame(d, known, c)
  PROVE  ITypeOK'
<1> DEFINE snap == UpdateState(d, known, c)
<1>1. snap \in Snapshot BY UpdateType
<1>2. [dev |-> d, snap |-> snap] \in Item BY <1>1 DEF Item
<1> HIDE DEF snap
<1>3. /\ agg' = [agg EXCEPT ![d] = snap] /\ age' = [age EXCEPT ![d] = 0]
      /\ changes' \in {changes, changes + 1} /\ changes' <= MaxChanges
      /\ UNCHANGED <<sending, focusSet, hb, liteAge, focusMap, redis, faults>>
      /\ \/ /\ lastSent' = [lastSent EXCEPT ![d] = snap]
            /\ sentAge' = [sentAge EXCEPT ![d] = 0]
            /\ PublishTelemetry([dev |-> d, snap |-> snap])
         \/ UNCHANGED <<filter, queue, lost>>
  BY DEF Frame, snap
<1>4. queue' \in Seq(Item) /\ Len(queue') <= QueueSize /\ lost' \subseteq Drones
  <2>1. CASE PublishTelemetry([dev |-> d, snap |-> snap]) BY <1>2, <2>1, PublishType
  <2>2. CASE UNCHANGED <<queue, lost>> BY <2>2 DEF ITypeOK
  <2>3. QED BY <1>3, <2>1, <2>2
<1>5. lastSent' \in [Drones -> Snapshot \cup {Nothing}] /\ sentAge' \in [Drones -> 0 .. MaxInterval]
  <2>1. lastSent \in [Drones -> Snapshot \cup {Nothing}] /\ sentAge \in [Drones -> 0 .. MaxInterval]
    BY DEF ITypeOK
  <2>2. 0 \in 0 .. MaxInterval BY IngestionAssumption
  <2>3. QED BY <1>1, <1>3, <2>1, <2>2 DEF filter
<1>6. agg' \in [Drones -> Snapshot \cup {Nothing}] /\ age' \in [Drones -> 0 .. OfflineAfter + 1]
  BY <1>1, <1>3, IngestionAssumption DEF ITypeOK
<1>7. changes' \in 0 .. MaxChanges BY <1>3, IngestionAssumption DEF ITypeOK
<1>8. QED BY <1>3, <1>4, <1>5, <1>6, <1>7 DEF ITypeOK, redis

LEMMA FlushBatchType ==
  ASSUME ITypeOK, NEW ok \in BOOLEAN, FlushBatch(ok) PROVE ITypeOK'
<1>1. /\ queue \in Seq(Item) /\ Len(queue) \in Nat /\ Len(queue) <= QueueSize
      /\ QueueSize \in Nat
  BY IngestionAssumption DEF ITypeOK
<1>2. BatchLen \in 0 .. Len(queue) BY <1>1, IngestionAssumption DEF BatchLen
<1>3. queue' \in Seq(Item) /\ Len(queue') <= QueueSize
  <2>1. queue' = SubSeq(queue, BatchLen + 1, Len(queue)) BY DEF FlushBatch
  <2>2. \A i \in BatchLen + 1 .. Len(queue) : queue[i] \in Item BY <1>1, <1>2
  <2>3. /\ queue' \in Seq(Item)
        /\ Len(queue') = IF BatchLen + 1 <= Len(queue) THEN Len(queue) - (BatchLen + 1) + 1 ELSE 0
    BY <1>1, <1>2, <2>1, <2>2, SubSeqProperties
  <2>4. QED BY <1>1, <1>2, <2>3
<1>4. \A d \in Drones, before \in Snapshot \cup {Nothing} :
        LastOf(d, before) \in Snapshot \cup {Nothing} /\ FirstOf(d, before) \in Snapshot \cup {Nothing}
  BY <1>1, BatchReads
<1>5. /\ states' \in [Drones -> Snapshot \cup {Nothing}]
      /\ lite' \in [Drones -> Snapshot \cup {Nothing}]
      /\ full' \in [Drones -> Snapshot \cup {Nothing}]
      /\ lost' \subseteq Drones /\ faults' \in 0 .. MaxFaults
  <2>1. CASE ok = TRUE
    <3>1. /\ states' = [d \in Drones |-> LastOf(d, states[d])]
          /\ full' = [d \in Drones |-> IF d \in focusMap THEN LastOf(d, full[d]) ELSE full[d]]
          /\ lite' = [d \in Drones |-> IF d \in DueLite THEN FirstOf(d, lite[d]) ELSE lite[d]]
          /\ UNCHANGED <<lost, faults>>
      BY <2>1 DEF FlushBatch
    <3>2. \A d \in Drones : /\ states[d] \in Snapshot \cup {Nothing}
                            /\ full[d] \in Snapshot \cup {Nothing}
                            /\ lite[d] \in Snapshot \cup {Nothing}
      BY DEF ITypeOK
    <3>3. lost \subseteq Drones /\ faults \in 0 .. MaxFaults BY DEF ITypeOK
    <3>4. QED BY <1>4, <3>1, <3>2, <3>3
  <2>2. CASE ok = FALSE
    <3>1. InBatch \subseteq Drones BY DEF InBatch
    <3>2. QED BY <2>2, <3>1, IngestionAssumption DEF FlushBatch, ITypeOK, redis
  <2>3. QED BY <2>1, <2>2
<1>6. liteAge' \in [Drones -> 0 .. LiteEvery]
  BY IngestionAssumption DEF FlushBatch, ITypeOK
<1>7. UNCHANGED <<sending, focusSet, changes, agg, age, hb, lastSent, sentAge, focusMap>>
  BY DEF FlushBatch, net, loops, filter
<1>8. QED BY <1>3, <1>5, <1>6, <1>7 DEF ITypeOK

LEMMA HeartbeatType ==
  ASSUME ITypeOK, CheckHeartbeats \/ PublishNotice PROVE ITypeOK'
<1>1. CASE CheckHeartbeats
  <2> DEFINE gone == {d \in Drones : Silent(d)}
             offline(d) == [agg[d] EXCEPT !.connected = FALSE]
  <2>1. \A d \in gone : offline(d) \in Snapshot BY DEF Silent, ITypeOK, Snapshot
  <2>2. /\ agg' = [d \in Drones |-> IF d \in gone THEN offline(d) ELSE agg[d]]
        /\ hb' = {[dev |-> d, snap |-> offline(d)] : d \in gone}
        /\ UNCHANGED <<net, age, filter, queue, liteAge, focusMap, redis, lost, faults>>
    BY <1>1 DEF CheckHeartbeats
  <2>3. gone \subseteq Drones OBVIOUS
  <2> HIDE DEF offline, gone
  <2>4. hb' \subseteq Item BY <2>1, <2>2, <2>3 DEF Item
  <2>5. agg' \in [Drones -> Snapshot \cup {Nothing}] BY <2>1, <2>2 DEF ITypeOK
  <2>6. QED BY <2>2, <2>4, <2>5 DEF ITypeOK, net, filter, redis
<1>2. CASE PublishNotice
  <2>1. PICK it \in hb : /\ hb' = hb \ {it} /\ PublishTelemetry(it)
                         /\ UNCHANGED <<net, agg, age, filter, liteAge, focusMap, redis, faults>>
    BY <1>2 DEF PublishNotice
  <2>2. it \in Item BY DEF ITypeOK
  <2>3. QED BY <2>1, <2>2, PublishType DEF ITypeOK, net, filter, redis
<1>3. QED BY <1>1, <1>2

LEMMA OutsideType ==
  ASSUME ITypeOK,
         SyncFocusSet \/ Stop \/ Tick \/ \E d \in Drones : LinkChange(d) \/ FocusChange(d)
  PROVE  ITypeOK'
<1> USE IngestionAssumption DEF net, loops, filter, redis
<1>1. CASE SyncFocusSet BY <1>1 DEF SyncFocusSet, ITypeOK
<1>2. CASE Stop
  <2>1. <<>> \in Seq(Item) /\ Len(<<>>) = 0 OBVIOUS
  <2>2. queue' \in Seq(Item) /\ Len(queue') <= QueueSize
    BY <1>2, <2>1 DEF Stop, FreshMemory
  <2>3. faults' \in 0 .. MaxFaults /\ lost' \subseteq Drones BY <1>2 DEF Stop, ITypeOK
  <2>4. QED BY <1>2, <2>2, <2>3 DEF Stop, FreshMemory, ITypeOK
<1>3. CASE Tick
  <2>1. \A a, max \in Nat : a \in 0 .. max => Older(a, max) \in 0 .. max BY DEF Older
  <2>2. /\ age' \in [Drones -> 0 .. OfflineAfter + 1]
        /\ sentAge' \in [Drones -> 0 .. MaxInterval]
        /\ liteAge' \in [Drones -> 0 .. LiteEvery]
    <3>1. \A d \in Drones : /\ age[d] \in 0 .. OfflineAfter + 1
                            /\ sentAge[d] \in 0 .. MaxInterval
                            /\ liteAge[d] \in 0 .. LiteEvery
      BY DEF ITypeOK
    <3>2. OfflineAfter + 1 \in Nat /\ MaxInterval \in Nat /\ LiteEvery \in Nat OBVIOUS
    <3>3. \A d \in Drones : /\ Older(age[d], OfflineAfter + 1) \in 0 .. OfflineAfter + 1
                            /\ Older(sentAge[d], MaxInterval) \in 0 .. MaxInterval
                            /\ Older(liteAge[d], LiteEvery) \in 0 .. LiteEvery
      BY <2>1, <3>1, <3>2
    <3>4. QED BY <1>3, <3>3 DEF Tick
  <2>3. QED BY <1>3, <2>2 DEF Tick, ITypeOK
<1>4. ASSUME NEW d \in Drones, LinkChange(d) \/ FocusChange(d) PROVE ITypeOK'
  BY <1>4 DEF LinkChange, FocusChange, ITypeOK
<1>5. QED BY <1>1, <1>2, <1>3, <1>4

\* Whatever frames, notices, flushes, failures and restarts interleave, every
\* variable keeps its type: the channel of the publisher never holds more than
\* its capacity, and what Redis and the two channels get of a batch are
\* snapshots that it holds.
THEOREM IngestTypeCorrect == Spec => []ITypeOK
<1>1. Init => ITypeOK
  <2>1. <<>> \in Seq(Item) /\ Len(<<>>) = 0 OBVIOUS
  <2>2. QED BY <2>1, IngestionAssumption DEF Init, ITypeOK
<1>2. ITypeOK /\ [Next]_vars => ITypeOK'
  <2> SUFFICES ASSUME ITypeOK, [Next]_vars PROVE ITypeOK' OBVIOUS
  <2>1. CASE UNCHANGED vars BY <2>1 DEF vars, net, loops, filter, redis, ITypeOK
  <2>2. QED BY <2>1, FrameType, FlushBatchType, HeartbeatType, OutsideType DEF Next
<1>3. QED BY <1>1, <1>2, PTL DEF Spec
=============================================================================
