------------------------- MODULE FleetCache_proofs -------------------------
(***************************************************************************)
(* Proofs about FleetCache, for every set of drones, both time-outs and    *)
(* every number of faults.                                                 *)
(*                                                                         *)
(* What the browser shows as online is backed by the cache only if nothing *)
(* older can reach the browser or the cache again: not the list kept from  *)
(* the last read, not the states that a read under way has fetched, and    *)
(* not drone:states at a restart.  The invariant says so of each of them.  *)
(***************************************************************************)
EXTENDS FleetCache, TLAPS

Backed(d) == Online(cache[d]) \/ d \in withheld

\* The cache and drone:states are of the same message, unless one was withheld;
\* an entry that is missing was evicted.
Synced(d) ==
  d \notin withheld =>
    IF cache[d] = Nothing
    THEN states[d] = Nothing \/ states[d].age > Retention
    ELSE /\ states[d] # Nothing
         /\ cache[d].age = states[d].age
         /\ cache[d].connected => states[d].connected

\* What a read has fetched is no younger than drone:states.
ReadIsOlder(d) == got[d] # Nothing => states[d] # Nothing /\ got[d].age >= states[d].age

\* A drone that the kept list has as online is backed, or the browser was told.
ListIsBacked(d) == list[d] = TRUE => Backed(d) \/ screen[d] = FALSE

ShownIsBacked(d) == screen[d] = TRUE => Backed(d)

Sound(d) == Synced(d) /\ ReadIsOlder(d) /\ ListIsBacked(d) /\ ShownIsBacked(d)

CacheInv == FTypeOK /\ \A d \in Drones : Sound(d)

\* The shapes that the steps below need of one drone.
Flag == BOOLEAN \cup {Nothing}
Entry == Snapshot \cup {Nothing}

LEMMA Shapes ==
  ASSUME FTypeOK, NEW d \in Drones
  PROVE  /\ states[d] \in Entry /\ cache[d] \in Entry /\ got[d] \in Entry
         /\ list[d] \in Flag /\ screen[d] \in Flag
<1>1. states[d] \in Entry /\ cache[d] \in Entry /\ got[d] \in Entry BY DEF FTypeOK, Entry
<1>2. screen[d] \in Flag BY DEF FTypeOK, Flag
<1>3. list[d] \in Flag
  <2>1. CASE list \in [Drones -> BOOLEAN]
    <3>1. list[d] \in BOOLEAN BY <2>1
    <3>2. QED BY <3>1 DEF Flag
  <2>2. CASE list = None BY <2>2 DEF None, Flag
  <2>3. QED BY <2>1, <2>2 DEF FTypeOK
<1>4. QED BY <1>1, <1>2, <1>3

LEMMA Fields ==
  ASSUME NEW s \in Snapshot
  PROVE  /\ s.connected \in BOOLEAN /\ s.age \in Nat /\ s.age <= Retention + 1
         /\ s # Nothing
         /\ [s EXCEPT !.connected = FALSE] \in Snapshot
         /\ [s EXCEPT !.connected = FALSE].age = s.age
         /\ [s EXCEPT !.connected = FALSE].connected = FALSE
<1>1. s.connected \in BOOLEAN /\ s.age \in Nat /\ s.age <= Retention + 1
  BY FleetAssumption DEF Snapshot, Age
<1>2. s # Nothing BY FleetNothing
<1>3. /\ [s EXCEPT !.connected = FALSE] \in Snapshot
      /\ [s EXCEPT !.connected = FALSE].age = s.age
      /\ [s EXCEPT !.connected = FALSE].connected = FALSE
  BY DEF Snapshot
<1>4. QED BY <1>1, <1>2, <1>3

\* Time passes for a snapshot and keeps the order of two.
LEMMA OlderKeeps ==
  ASSUME NEW s \in Entry
  PROVE  /\ Older(s) \in Entry
         /\ Older(s) = Nothing <=> s = Nothing
         /\ s # Nothing => /\ Older(s).connected = s.connected
                           /\ Older(s).age = IF s.age > Retention THEN s.age ELSE s.age + 1
<1>1. CASE s = Nothing BY <1>1 DEF Older, Entry
<1>2. CASE s # Nothing /\ s.age > Retention BY <1>2 DEF Older, Entry
<1>3. CASE s # Nothing /\ ~(s.age > Retention)
  <2>1. s \in Snapshot BY <1>3 DEF Entry
  <2>2. s.age \in Nat BY <2>1, Fields
  <2>3. Retention \in Nat BY FleetAssumption
  <2>4. s.age <= Retention BY <1>3, <2>2, <2>3
  <2>5. Older(s) = [s EXCEPT !.age = s.age + 1] BY <1>3 DEF Older
  <2>6. /\ Older(s) \in Snapshot
        /\ Older(s).connected = s.connected
        /\ Older(s).age = s.age + 1
    BY <2>1, <2>2, <2>3, <2>4, <2>5 DEF Snapshot, Age
  <2>7. Older(s) # Nothing BY <2>6, FleetNothing
  <2>8. QED BY <1>3, <2>6, <2>7 DEF Entry
<1>4. QED BY <1>1, <1>2, <1>3

LEMMA InvHoldsFirst ==
  ASSUME Init PROVE CacheInv
<1>1. FTypeOK
  <2>1. 0 \in 0 .. MaxFaults BY FleetAssumption
  <2>2. QED BY <2>1 DEF Init, FTypeOK, None
<1>2. \A d \in Drones : Sound(d)
  BY FleetAssumption
  DEF Init, None, Sound, Synced, ReadIsOlder, ListIsBacked, ShownIsBacked
<1>3. QED BY <1>1, <1>2 DEF CacheInv

\* A drone of which nothing changes stays sound, also if more is withheld.
LEMMA Untouched ==
  ASSUME NEW d \in Drones, Sound(d),
         cache'[d] = cache[d], states'[d] = states[d], list'[d] = list[d], screen'[d] = screen[d],
         got'[d] = got[d] \/ got'[d] = Nothing,
         d \in withheld => d \in withheld'
  PROVE  Sound(d)'
BY DEF Sound, Synced, ReadIsOlder, ListIsBacked, ShownIsBacked, Backed, Online

\* A list that is sound itself leaves the browser sound.
LEMMA AnswerIsSound ==
  ASSUME NEW d \in Drones, NEW l,
         l[d] = TRUE => Backed(d)' \/ screen[d] = FALSE,
         screen[d] = TRUE => Backed(d)',
         screen'[d] = screen[d] \/
           screen'[d] = (IF l[d] = Nothing \/ screen[d] = Nothing THEN l[d] ELSE screen[d])
  PROVE  /\ screen'[d] = TRUE => Backed(d)'
         /\ l[d] = TRUE => Backed(d)' \/ screen'[d] = FALSE
BY FleetAssumption

-----------------------------------------------------------------------------
(* Messages *)

LEMMA DeliverKeeps ==
  ASSUME CacheInv, NEW d \in Drones, NEW snap \in Snapshot,
         got[d] # Nothing => got[d].age >= snap.age,
         states' = [states EXCEPT ![d] = snap], UNCHANGED flying, Deliver(d, snap)
  PROVE  CacheInv'
<1>0. snap # Nothing /\ snap.connected \in BOOLEAN BY Fields
<1>1. FTypeOK' BY <1>0 DEF CacheInv, FTypeOK, Deliver, Broadcast
<1>2. ASSUME NEW e \in Drones, e # d PROVE Sound(e)'
  <2>1. /\ cache'[e] = cache[e] /\ states'[e] = states[e] /\ list'[e] = list[e]
        /\ got'[e] = got[e]
    BY <1>2 DEF CacheInv, FTypeOK, Deliver
  <2>2. screen'[e] = screen[e] /\ (e \in withheld => e \in withheld')
    BY <1>2 DEF CacheInv, FTypeOK, Deliver, Broadcast
  <2>3. QED BY <2>1, <2>2, Untouched DEF CacheInv
<1>3. Sound(d)'
  <2>1. cache'[d] = snap /\ states'[d] = snap /\ list'[d] = list[d] /\ got'[d] = got[d]
    BY DEF CacheInv, FTypeOK, Deliver
  <2>2. Synced(d)' /\ ReadIsOlder(d)' BY <1>0, <2>1 DEF Synced, ReadIsOlder
  <2>3. CASE snap.connected
    BY <1>0, <2>1, <2>2, <2>3 DEF Sound, ListIsBacked, ShownIsBacked, Backed, Online
  <2>4. CASE ~snap.connected /\ up
    <3>1. screen'[d] = FALSE BY <1>0, <2>4 DEF Deliver, Broadcast
    <3>2. QED BY <2>2, <3>1 DEF Sound, ListIsBacked, ShownIsBacked
  <2>5. CASE ~snap.connected /\ ~up
    <3>1. d \in withheld' BY <1>0, <2>5 DEF Deliver, Broadcast
    <3>2. QED BY <2>2, <3>1 DEF Sound, ListIsBacked, ShownIsBacked, Backed
  <2>6. QED BY <1>0, <2>3, <2>4, <2>5
<1>4. QED BY <1>1, <1>2, <1>3 DEF CacheInv

LEMMA LoseKeeps ==
  ASSUME CacheInv, NEW d \in Drones, NEW snap \in Snapshot,
         got[d] # Nothing => got[d].age >= snap.age,
         states' = [states EXCEPT ![d] = snap], UNCHANGED flying, Lose(d, snap)
  PROVE  CacheInv'
<1>0. snap # Nothing BY Fields
<1>1. FTypeOK'
  <2>1. faults' \in 0 .. MaxFaults BY FleetAssumption DEF CacheInv, FTypeOK, Lose, Fault
  <2>2. QED BY <2>1 DEF CacheInv, FTypeOK, Lose, server, browser
<1>2. ASSUME NEW e \in Drones, e # d PROVE Sound(e)'
  BY <1>2, Untouched DEF CacheInv, FTypeOK, Lose, server, browser
<1>3. Sound(d)'
  <2>1. d \in withheld' /\ states'[d] = snap /\ got'[d] = got[d]
    BY DEF CacheInv, FTypeOK, Lose, server
  <2>2. QED BY <1>0, <2>1 DEF Sound, Synced, ReadIsOlder, ListIsBacked, ShownIsBacked, Backed
<1>4. QED BY <1>1, <1>2, <1>3 DEF CacheInv

LEMMA PublishKeeps ==
  ASSUME CacheInv, NEW d \in Drones, Telemetry(d) \/ OfflineNotice(d)
  PROVE  CacheInv'
<1>1. CASE Telemetry(d)
  <2>1. [connected |-> TRUE, age |-> 0] \in Snapshot BY FleetAssumption DEF Snapshot, Age
  <2>2. got[d] # Nothing => got[d].age >= 0
    <3>1. got[d] # Nothing => got[d] \in Snapshot BY Shapes DEF CacheInv, Entry
    <3>2. got[d] # Nothing => got[d].age \in Nat BY <3>1, Fields
    <3>3. QED BY <3>2
  <2>3. QED BY <1>1, <2>1, <2>2, DeliverKeeps, LoseKeeps DEF Telemetry, Publish
<1>2. CASE OfflineNotice(d)
  <2>1. states[d] \in Snapshot
    BY <1>2, Shapes DEF OfflineNotice, Stale, CacheInv, Entry
  <2>2. [states[d] EXCEPT !.connected = FALSE] \in Snapshot BY <2>1, Fields
  <2>3. [states[d] EXCEPT !.connected = FALSE].age = states[d].age BY <2>1, Fields
  <2>4. got[d] # Nothing => got[d].age >= states[d].age BY DEF CacheInv, Sound, ReadIsOlder
  <2>5. QED BY <1>2, <2>2, <2>3, <2>4, DeliverKeeps, LoseKeeps DEF OfflineNotice, Publish
<1>3. QED BY <1>1, <1>2

-----------------------------------------------------------------------------
(* The sweeper *)

LEMMA SweepKeeps ==
  ASSUME CacheInv, Sweep PROVE CacheInv'
<1>1. FTypeOK'
  <2>1. ASSUME NEW d \in Drones PROVE cache'[d] \in Entry
    <3>1. CASE cache[d] = Nothing BY <2>1, <3>1 DEF Sweep, Expired, Stale, Entry
    <3>2. CASE cache[d] \in Snapshot
      <4>1. [cache[d] EXCEPT !.connected = FALSE] \in Snapshot BY <3>2, Fields
      <4>2. QED BY <2>1, <3>2, <4>1 DEF Sweep, Entry
    <3>3. QED BY <3>1, <3>2, Shapes DEF CacheInv, Entry
  <2>2. cache' \in [Drones -> Entry] BY <2>1 DEF Sweep
  <2>3. screen' \in [Drones -> BOOLEAN \cup {Nothing}] /\ withheld' \subseteq Drones
    BY DEF CacheInv, FTypeOK, Sweep, Broadcast, Expired
  <2>4. QED BY <2>2, <2>3 DEF CacheInv, FTypeOK, Sweep, Entry
<1>2. ASSUME NEW d \in Drones PROVE Sound(d)'
  <2>0. /\ states'[d] = states[d] /\ list'[d] = list[d] /\ got'[d] = got[d]
        /\ d \in withheld => d \in withheld'
        /\ Sound(d)
    BY DEF Sweep, Broadcast, CacheInv
  <2>1. CASE d \in Expired
    <3>1. cache[d] \in Snapshot BY <2>1, Shapes DEF Expired, Stale, CacheInv, Entry
    <3>2. \/ screen'[d] = FALSE /\ up
          \/ d \in withheld'
      BY <2>1 DEF Sweep, Broadcast
    <3>3. Synced(d)'
      <4>1. CASE d \in Evicted
        BY <2>0, <3>1, <4>1, Fields DEF Sweep, Evicted, Sound, Synced
      <4>2. CASE d \notin Evicted
        <5>1. cache'[d] = [cache[d] EXCEPT !.connected = FALSE] BY <2>1, <4>2 DEF Sweep
        <5>2. cache'[d] # Nothing /\ cache'[d].age = cache[d].age /\ cache'[d].connected = FALSE
          BY <3>1, <5>1, Fields
        <5>3. QED BY <2>0, <3>1, <5>2, Fields DEF Sound, Synced
      <4>3. QED BY <4>1, <4>2
    <3>4. QED
      BY <2>0, <3>2, <3>3 DEF Sound, ReadIsOlder, ListIsBacked, ShownIsBacked, Backed
  <2>2. CASE d \notin Expired /\ d \in Evicted
    <3>1. cache[d] \in Snapshot BY <2>2, Shapes DEF Evicted, CacheInv, Entry
    <3>2. ~cache[d].connected
      <4>1. cache[d].age \in Nat /\ cache[d].age > Retention BY <2>2, <3>1, Fields DEF Evicted
      <4>2. cache[d].age > Timeout BY <4>1, FleetAssumption
      <4>3. QED BY <2>2, <3>1, <4>2, Fields DEF Expired, Stale
    <3>3. cache'[d] = Nothing /\ screen'[d] = screen[d] BY <2>2 DEF Sweep, Broadcast, CacheInv, FTypeOK
    <3>4. Synced(d)' BY <2>0, <2>2, <3>1, <3>3, Fields DEF Evicted, Sound, Synced
    <3>5. Backed(d) => Backed(d)' BY <2>0, <3>2 DEF Backed, Online
    <3>6. QED BY <2>0, <3>3, <3>4, <3>5 DEF Sound, ReadIsOlder, ListIsBacked, ShownIsBacked
  <2>3. CASE d \notin Expired /\ d \notin Evicted
    <3>1. cache'[d] = cache[d] /\ screen'[d] = screen[d]
      BY <2>3 DEF Sweep, Broadcast, CacheInv, FTypeOK
    <3>2. QED BY <2>0, <3>1, Untouched
  <2>4. QED BY <2>1, <2>2, <2>3
<1>3. QED BY <1>1, <1>2 DEF CacheInv

-----------------------------------------------------------------------------
(* Readers *)

\* Marking keeps the type, and every drone that is not marked as it is.
LEMMA MarkEffect ==
  ASSUME FTypeOK, NEW D, D \subseteq Drones, MarkStale(D)
  PROVE  /\ cache' \in [Drones -> Entry] /\ withheld' \subseteq Drones
         /\ \A d \in Drones : d \in withheld => d \in withheld'
         /\ \A d \in Drones : cache'[d] = cache[d] \/ d \in withheld'
         /\ \A d \in Drones : cache'[d] = cache[d] \/ Stale(cache[d])
<1> DEFINE marked == {d \in D : Stale(cache[d]) /\ cache[d].connected}
<1>1. /\ cache' = [d \in Drones |-> IF d \in marked
                                   THEN [cache[d] EXCEPT !.connected = FALSE] ELSE cache[d]]
      /\ withheld' = withheld \cup marked
  BY DEF MarkStale
<1>2. ASSUME NEW d \in Drones PROVE cache'[d] \in Entry
  <2>1. CASE d \in marked
    <3>1. cache[d] \in Snapshot BY <2>1, Shapes DEF Stale, Entry
    <3>2. [cache[d] EXCEPT !.connected = FALSE] \in Snapshot BY <3>1, Fields
    <3>3. QED BY <1>1, <2>1, <3>2 DEF Entry
  <2>2. CASE d \notin marked BY <1>1, <2>2, Shapes
  <2>3. QED BY <2>1, <2>2
<1>3. cache' \in [Drones -> Entry] BY <1>1, <1>2
<1>4. marked \subseteq Drones OBVIOUS
<1>5. \A d \in Drones : d \in marked => d \in withheld' /\ Stale(cache[d]) BY <1>1
<1>6. \A d \in Drones : d \notin marked => cache'[d] = cache[d] BY <1>1
<1>7. withheld' \subseteq Drones BY <1>1, <1>4 DEF FTypeOK
<1>8. QED BY <1>1, <1>3, <1>5, <1>6, <1>7

\* A marked drone is withheld, and nothing else changes in the cache: what was
\* sound of the cache and backed stays so.
LEMMA MarkedStaysSynced ==
  ASSUME FTypeOK, NEW d \in Drones, Synced(d), states'[d] = states[d],
         d \in withheld => d \in withheld',
         cache'[d] = cache[d] \/ d \in withheld'
  PROVE  Synced(d)' /\ (Backed(d) => Backed(d)')
BY DEF Synced, Backed, Online

LEMMA ReadDeviceKeeps ==
  ASSUME CacheInv, NEW d \in Drones, ReadDevice(d)
  PROVE  CacheInv'
<1>1. /\ cache' \in [Drones -> Entry] /\ withheld' \subseteq Drones
      /\ \A e \in Drones : e \in withheld => e \in withheld'
      /\ \A e \in Drones : cache'[e] = cache[e] \/ e \in withheld'
  BY MarkEffect DEF ReadDevice, CacheInv
<1>2. FTypeOK' BY <1>1 DEF ReadDevice, CacheInv, FTypeOK, browser, Entry
<1>3. ASSUME NEW e \in Drones PROVE Sound(e)'
  <2>1. Synced(e)' /\ (Backed(e) => Backed(e)')
    BY <1>1, MarkedStaysSynced DEF ReadDevice, CacheInv, Sound
  <2>2. QED
    BY <2>1 DEF ReadDevice, CacheInv, Sound, ReadIsOlder, ListIsBacked, ShownIsBacked, browser
<1>4. QED BY <1>2, <1>3 DEF CacheInv

\* What an answer does to the screen.
LEMMA AnswerShape ==
  ASSUME FTypeOK, NEW l \in [Drones -> BOOLEAN] \cup {None},
         Answer(l) \/ UNCHANGED screen
  PROVE  /\ screen' \in [Drones -> BOOLEAN \cup {Nothing}]
         /\ \A d \in Drones :
              screen'[d] = screen[d] \/
                screen'[d] = (IF l[d] = Nothing \/ screen[d] = Nothing THEN l[d] ELSE screen[d])
<1>1. ASSUME NEW d \in Drones PROVE l[d] \in Flag
  <2>1. CASE l \in [Drones -> BOOLEAN]
    <3>1. l[d] \in BOOLEAN BY <2>1
    <3>2. QED BY <3>1 DEF Flag
  <2>2. CASE l = None BY <2>2 DEF None, Flag
  <2>3. QED BY <2>1, <2>2
<1>2. CASE UNCHANGED screen BY <1>2 DEF FTypeOK
<1>3. CASE Answer(l)
  <2>1. screen' = [d \in Drones |-> IF l[d] = Nothing \/ screen[d] = Nothing THEN l[d] ELSE screen[d]]
    BY <1>3 DEF Answer
  <2>2. ASSUME NEW d \in Drones PROVE screen'[d] \in Flag
    BY <1>1, <2>1, Shapes
  <2>3. screen' \in [Drones -> Flag] BY <2>1, <2>2
  <2>4. QED BY <2>1, <2>3 DEF Flag
<1>4. QED BY <1>2, <1>3

\* Answering with the kept list, or not, while nothing else of a drone changes
\* but what a read has fetched.
LEMMA KeptListAnswered ==
  ASSUME CacheInv, NEW d \in Drones, Answer(list) \/ UNCHANGED screen,
         UNCHANGED <<cache, states, list, withheld>>,
         got'[d] = got[d] \/ got'[d] = Nothing
  PROVE  Sound(d)'
<1>1. screen'[d] = screen[d] \/
        screen'[d] = (IF list[d] = Nothing \/ screen[d] = Nothing THEN list[d] ELSE screen[d])
  BY AnswerShape DEF CacheInv, FTypeOK
<1>2. Backed(d)' <=> Backed(d) BY DEF Backed
<1>3. (list[d] = TRUE => Backed(d)' \/ screen[d] = FALSE) /\ (screen[d] = TRUE => Backed(d)')
  BY <1>2 DEF CacheInv, Sound, ListIsBacked, ShownIsBacked
<1>4. (screen'[d] = TRUE => Backed(d)') /\ (list[d] = TRUE => Backed(d)' \/ screen'[d] = FALSE)
  BY <1>1, <1>3, AnswerIsSound
<1>5. QED BY <1>4 DEF CacheInv, Sound, Synced, ReadIsOlder, ListIsBacked, ShownIsBacked

LEMMA FleetRequestKeeps ==
  ASSUME CacheInv, NEW own \in BOOLEAN, FleetRequest(own)
  PROVE  CacheInv'
<1>1. Answer(list) \/ UNCHANGED screen BY DEF FleetRequest
<1>2. screen' \in [Drones -> BOOLEAN \cup {Nothing}]
  BY <1>1, AnswerShape DEF CacheInv, FTypeOK
<1>3. /\ flight' \in {"none", "read", "merge"} /\ waiting' \in BOOLEAN
      /\ waiting' => flight' # "none"
  <2>1. CASE fresh /\ list # None
    BY <2>1 DEF FleetRequest, Answer, CacheInv, FTypeOK
  <2>2. CASE ~(fresh /\ list # None)
    BY <2>2 DEF FleetRequest, CacheInv, FTypeOK
  <2>3. QED BY <2>1, <2>2
<1>4. FTypeOK' BY <1>2, <1>3 DEF FleetRequest, CacheInv, FTypeOK
<1>5. \A d \in Drones : Sound(d)' BY <1>1, KeptListAnswered DEF FleetRequest
<1>6. QED BY <1>4, <1>5 DEF CacheInv

LEMMA FleetFailKeeps ==
  ASSUME CacheInv, FleetFail PROVE CacheInv'
<1>1. Answer(list) \/ UNCHANGED screen BY DEF FleetFail, Settle
<1>2. screen' \in [Drones -> BOOLEAN \cup {Nothing}]
  BY <1>1, AnswerShape DEF CacheInv, FTypeOK
<1>3. waiting' = FALSE BY DEF FleetFail, Settle, Answer, CacheInv, FTypeOK
<1>4. faults' \in 0 .. MaxFaults BY FleetAssumption DEF FleetFail, Fault, CacheInv, FTypeOK
<1>5. got' \in [Drones -> Snapshot \cup {Nothing}] /\ \A d \in Drones : got'[d] = Nothing
  BY DEF FleetFail, FleetEnds, None
<1>6. FTypeOK' BY <1>2, <1>3, <1>4, <1>5 DEF FleetFail, FleetEnds, CacheInv, FTypeOK
<1>7. \A d \in Drones : Sound(d)' BY <1>1, <1>5, KeptListAnswered DEF FleetFail
<1>8. QED BY <1>6, <1>7 DEF CacheInv

LEMMA FleetReadKeeps ==
  ASSUME CacheInv, FleetRead PROVE CacheInv'
<1>1. got' = states \/ got' = None BY DEF FleetRead, GetAllTelemetryStates
<1>2. faults' \in 0 .. MaxFaults BY FleetAssumption DEF FleetRead, Fault, CacheInv, FTypeOK
<1>3. got' \in [Drones -> Snapshot \cup {Nothing}] BY <1>1 DEF CacheInv, FTypeOK, None
<1>4. known' \subseteq Drones BY DEF FleetRead
<1>5. FTypeOK' BY <1>2, <1>3, <1>4 DEF FleetRead, CacheInv, FTypeOK, browser
<1>6. ASSUME NEW d \in Drones PROVE Sound(d)'
  <2>1. ReadIsOlder(d)'
    <3>1. CASE got'[d] = Nothing BY <3>1 DEF ReadIsOlder
    <3>2. CASE got'[d] # Nothing
      <4>1. got'[d] = states[d] /\ states'[d] = states[d] BY <1>1, <3>2 DEF None, FleetRead
      <4>2. states[d] \in Snapshot BY <3>2, <4>1, Shapes DEF CacheInv, Entry
      <4>3. states[d].age \in Nat BY <4>2, Fields
      <4>4. QED BY <3>2, <4>1, <4>3 DEF ReadIsOlder
    <3>3. QED BY <3>1, <3>2
  <2>2. QED
    BY <2>1 DEF FleetRead, CacheInv, Sound, Synced, ListIsBacked, ShownIsBacked, Backed, browser
<1>7. QED BY <1>5, <1>6 DEF CacheInv

\* A drone that the merged list has as online is backed and not stale: an entry
\* that is not in the cache was evicted, and what was fetched before is older.
LEMMA MergedIsBacked ==
  ASSUME CacheInv, NEW d \in Drones, Online(Merged(d)), ~Stale(Merged(d))
  PROVE  Backed(d) /\ ~Stale(cache[d])
<1>1. CASE cache[d] # Nothing BY <1>1 DEF Merged, Backed
<1>2. CASE cache[d] = Nothing
  <2>1. got[d] # Nothing /\ ~Stale(got[d]) BY <1>2 DEF Merged, Online
  <2>2. states[d] # Nothing /\ got[d].age >= states[d].age
    BY <2>1 DEF CacheInv, Sound, ReadIsOlder
  <2>3. got[d] \in Snapshot /\ states[d] \in Snapshot
    BY <2>1, <2>2, Shapes DEF CacheInv, Entry
  <2>4. got[d].age \in Nat /\ states[d].age \in Nat BY <2>3, Fields
  <2>5. got[d].age <= Timeout BY <2>1, <2>4, FleetAssumption DEF Stale
  <2>6. ~(states[d].age > Retention) BY <2>2, <2>4, <2>5, FleetAssumption
  <2>7. d \in withheld BY <1>2, <2>2, <2>6 DEF CacheInv, Sound, Synced
  <2>8. QED BY <1>2, <2>7 DEF Backed, Stale
<1>3. QED BY <1>1, <1>2

LEMMA FleetMergeKeeps ==
  ASSUME CacheInv, FleetMerge PROVE CacheInv'
<1>0. known \subseteq Drones /\ FTypeOK BY DEF CacheInv, FTypeOK
<1>1. /\ cache' \in [Drones -> Entry] /\ withheld' \subseteq Drones
      /\ \A e \in Drones : e \in withheld => e \in withheld'
      /\ \A e \in Drones : cache'[e] = cache[e] \/ e \in withheld'
  BY <1>0, MarkEffect DEF FleetMerge
<1>2. list' \in [Drones -> BOOLEAN] BY DEF FleetMerge, Online, Stale
<1>3. Answer(list') \/ UNCHANGED screen BY DEF FleetMerge, Settle
<1>4. /\ screen' \in [Drones -> BOOLEAN \cup {Nothing}]
      /\ \A d \in Drones :
            screen'[d] = screen[d] \/
              screen'[d] = (IF list'[d] = Nothing \/ screen[d] = Nothing THEN list'[d] ELSE screen[d])
  BY <1>0, <1>2, <1>3, AnswerShape
<1>5. waiting' = FALSE /\ got' = None /\ known' = {} /\ flight' = "none"
  BY <1>0 DEF FleetMerge, Settle, Answer, FleetEnds, FTypeOK
<1>6. FTypeOK'
  BY <1>0, <1>1, <1>2, <1>4, <1>5 DEF FleetMerge, FTypeOK, Entry, None
<1>7. ASSUME NEW d \in Drones PROVE Sound(d)'
  <2>1. Synced(d)' /\ (Backed(d) => Backed(d)')
    BY <1>0, <1>1, MarkedStaysSynced DEF FleetMerge, CacheInv, Sound
  <2>2. list'[d] = TRUE => Backed(d)'
    <3>1. SUFFICES ASSUME list'[d] = TRUE PROVE Backed(d)' OBVIOUS
    <3>2. Online(Merged(d)) /\ ~Stale(Merged(d)) BY <3>1 DEF FleetMerge
    <3>3. QED BY <2>1, <3>2, MergedIsBacked
  <2>3. screen[d] = TRUE => Backed(d)' BY <2>1 DEF CacheInv, Sound, ShownIsBacked
  <2>4. screen'[d] = TRUE => Backed(d)' BY <1>4, <2>2, <2>3, AnswerIsSound
  <2>5. ReadIsOlder(d)' BY <1>5 DEF ReadIsOlder, None
  <2>6. QED BY <2>1, <2>2, <2>4, <2>5 DEF Sound, ListIsBacked, ShownIsBacked
<1>8. QED BY <1>6, <1>7 DEF CacheInv

-----------------------------------------------------------------------------
(* Restart, socket, drones, time *)

LEMMA RestartKeeps ==
  ASSUME CacheInv, Restart PROVE CacheInv'
<1>1. PICK ok \in BOOLEAN :
        /\ IF ok THEN Fault ELSE faults + 1 < MaxFaults /\ faults' = faults + 2
        /\ cache' = GetAllTelemetryStates(ok)
        /\ withheld' = IF ok THEN withheld ELSE Drones
        /\ FleetEnds
        /\ list' = None /\ fresh' = FALSE /\ waiting' = FALSE /\ up' = FALSE
        /\ UNCHANGED <<flying, states, screen>>
  BY DEF Restart
<1>2. faults' \in 0 .. MaxFaults BY <1>1, FleetAssumption DEF Fault, CacheInv, FTypeOK
<1>3. cache' \in [Drones -> Snapshot \cup {Nothing}] /\ withheld' \subseteq Drones
  BY <1>1 DEF GetAllTelemetryStates, CacheInv, FTypeOK, None
<1>4. FTypeOK'
  BY <1>1, <1>2, <1>3 DEF CacheInv, FTypeOK, FleetEnds, None
<1>5. ASSUME NEW d \in Drones PROVE Sound(d)'
  <2>1. ReadIsOlder(d)' BY <1>1 DEF FleetEnds, None, ReadIsOlder
  <2>2. list'[d] = Nothing BY <1>1 DEF None
  <2>3. ListIsBacked(d)' BY <2>2, FleetAssumption DEF ListIsBacked
  <2>4. CASE ~ok
    <3>1. d \in withheld' BY <1>1, <2>4
    <3>2. QED BY <2>1, <2>3, <3>1 DEF Sound, Synced, ShownIsBacked, Backed
  <2>5. CASE ok
    <3>1. cache' = states /\ states' = states /\ withheld' = withheld /\ screen' = screen
      BY <1>1, <2>5 DEF GetAllTelemetryStates
    <3>2. Synced(d)' BY <3>1 DEF Synced
    <3>3. Backed(d) => Backed(d)'
      <4>1. SUFFICES ASSUME Online(cache[d]), d \notin withheld PROVE Online(states[d])
        BY <3>1 DEF Backed
      <4>2. QED BY <4>1 DEF CacheInv, Sound, Synced, Online
    <3>4. QED BY <2>1, <2>3, <3>1, <3>2, <3>3 DEF CacheInv, Sound, ShownIsBacked
  <2>6. QED BY <2>4, <2>5
<1>6. QED BY <1>4, <1>5 DEF CacheInv

LEMMA OutsideKeeps ==
  ASSUME CacheInv, SocketDrop \/ SocketUp \/ (\E d \in Drones : Fly(d)) \/ UNCHANGED vars
  PROVE  CacheInv'
<1>1. UNCHANGED <<states, server, waiting, screen, withheld>>
  BY DEF SocketDrop, SocketUp, Fly, vars, browser
<1>2. /\ flying' \subseteq Drones /\ up' \in BOOLEAN /\ faults' \in 0 .. MaxFaults
  <2>1. flying \subseteq Drones /\ up \in BOOLEAN /\ faults \in 0 .. MaxFaults
    BY DEF CacheInv, FTypeOK
  <2>2. CASE SocketDrop
    <3>1. faults' \in 0 .. MaxFaults BY <2>1, <2>2, FleetAssumption DEF SocketDrop, Fault
    <3>2. QED BY <2>1, <2>2, <3>1 DEF SocketDrop
  <2>3. CASE SocketUp BY <2>1, <2>3 DEF SocketUp
  <2>4. CASE \E d \in Drones : Fly(d) BY <2>1, <2>4 DEF Fly, browser
  <2>5. CASE UNCHANGED vars BY <2>1, <2>5 DEF vars, browser
  <2>6. QED BY <2>2, <2>3, <2>4, <2>5
<1>3. FTypeOK' BY <1>1, <1>2 DEF CacheInv, FTypeOK, server
<1>4. \A d \in Drones : Sound(d)' BY <1>1, Untouched DEF CacheInv, server
<1>5. QED BY <1>3, <1>4 DEF CacheInv

LEMMA TickKeeps ==
  ASSUME CacheInv, Tick PROVE CacheInv'
<1>1. /\ states' \in [Drones -> Entry] /\ cache' \in [Drones -> Entry] /\ got' \in [Drones -> Entry]
  BY Shapes, OlderKeeps DEF CacheInv, Tick
<1>2. FTypeOK' BY <1>1 DEF CacheInv, FTypeOK, Tick, Entry, browser
<1>3. ASSUME NEW d \in Drones PROVE Sound(d)'
  <2>1. /\ states'[d] = Older(states[d]) /\ cache'[d] = Older(cache[d]) /\ got'[d] = Older(got[d])
        /\ list' = list /\ screen' = screen /\ withheld' = withheld
    BY DEF Tick, browser
  <2>2. states[d] \in Entry /\ cache[d] \in Entry /\ got[d] \in Entry BY Shapes DEF CacheInv
  <2>3. /\ states[d] # Nothing => states[d].age \in Nat
        /\ got[d] # Nothing => got[d].age \in Nat
        /\ Retention \in Nat
    BY <2>2, Fields, FleetAssumption DEF Entry
  <2>4. Synced(d)'
    BY <2>1, <2>2, <2>3, OlderKeeps DEF CacheInv, Sound, Synced
  <2>5. ReadIsOlder(d)'
    BY <2>1, <2>2, <2>3, OlderKeeps DEF CacheInv, Sound, ReadIsOlder
  <2>6. Backed(d)' <=> Backed(d) BY <2>1, <2>2, OlderKeeps DEF Backed, Online
  <2>7. QED BY <2>1, <2>4, <2>5, <2>6 DEF CacheInv, Sound, ListIsBacked, ShownIsBacked
<1>4. QED BY <1>2, <1>3 DEF CacheInv

-----------------------------------------------------------------------------

\* Every reachable state satisfies the whole invariant.
THEOREM CacheInvariant == Spec => []CacheInv
<1>1. Init => CacheInv BY InvHoldsFirst
<1>2. CacheInv /\ [Next]_vars => CacheInv'
  BY PublishKeeps, SweepKeeps, ReadDeviceKeeps, FleetRequestKeeps, FleetReadKeeps, FleetMergeKeeps,
     FleetFailKeeps, RestartKeeps, OutsideKeeps, TickKeeps DEF Next
<1>3. QED BY <1>1, <1>2, PTL DEF Spec

\* The state keeps its shape, and a browser that waits waits for a promise that runs.
THEOREM TypeCorrect == Spec => []FTypeOK
<1>1. CacheInv => FTypeOK BY DEF CacheInv
<1>2. QED BY <1>1, CacheInvariant, PTL

\* A drone shown online is online in the cache, unless its going offline was
\* withheld (TelemetryService, fetchFleetData).
THEOREM ShownStaysBacked == Spec => []OnlineIsBacked
<1>1. CacheInv => OnlineIsBacked
  BY DEF CacheInv, Sound, ShownIsBacked, Backed, OnlineIsBacked
<1>2. QED BY <1>1, CacheInvariant, PTL
=============================================================================
