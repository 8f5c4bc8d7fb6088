------------------------ MODULE VideoRecovery_proofs ------------------------
(***************************************************************************)
(* Proofs about VideoRecovery, for every set of drones and of attempts and *)
(* every number of ticks.                                                  *)
(*                                                                         *)
(* That only the chosen camera runs is inductive once the three ways to it *)
(* are told apart: while a handshake or a fallback is under way there is   *)
(* no player yet, a probe runs beside a player only, and a connection that *)
(* was answered has no player beside it.                                   *)
(***************************************************************************)
EXTENDS VideoRecovery, TLAPS

Open == {"open", "answered", "live"}

\* What holds of every attempt, whatever the user does.
Steady(a) ==
  /\ att[a].task = "probe" => att[a].pc \in {"open", "closed"}
  /\ att[a].task = "probe" /\ att[a].timed = FALSE => att[a].pc = "closed"
  /\ att[a].task # "none" \/ att[a].player # "none" => att[a].of \in Drones
  /\ \A b \in Attempts : att[a].timed = TRUE /\ att[b].timed = TRUE => a = b

\* The globals name what is there.
Named ==
  /\ peer # 0 => att[peer].pc \in Open /\ att[peer].timed = FALSE
  /\ hls # 0 => att[hls].player # "none"

\* What holds of an attempt for a user who lets one thing end before the next.
Chosen(a) ==
  /\ att[a].pc \in Open => att[a].of = active /\ (a = peer \/ att[a].timed = TRUE)
  /\ att[a].player # "none" => att[a].of = active /\ a = hls
  /\ att[a].pc = "live" \/ att[a].player # "none" => att[a].of \in rooms
  /\ att[a].pc = "answered" /\ att[a].timed = FALSE => att[a].of \in rooms
  /\ att[a].task \in {"whep", "info"} =>
       att[a].of = active /\ a = peer /\ att[a].pc = "open" /\ hls = 0
  /\ att[a].timed = TRUE /\ att[a].pc # "closed" =>
       att[a].of = active /\ att[a].of \in rooms /\ hls # 0

Calm ==
  ~hurried =>
    /\ \A a \in Attempts : Chosen(a)
    /\ peer # 0 /\ hls # 0 => att[peer].pc = "open"

CameraInv == RTypeOK /\ (\A a \in Attempts : Steady(a)) /\ Named /\ Calm /\ ProbeIsTimed

LEMMA InvHoldsFirst ==
  ASSUME Init PROVE CameraInv
<1>1. Over \in Attempt BY DEF Over, Attempt
<1>2. 0 \in 0 .. FrozenTicks - 1 /\ 0 \in 0 .. MaxShows BY RecoveryAssumption
<1>3. RTypeOK BY <1>1, <1>2 DEF Init, RTypeOK
<1>4. \A a \in Attempts : Steady(a) BY DEF Init, Steady, Over
<1>5. Named /\ ProbeIsTimed BY DEF Init, Named, ProbeIsTimed
<1>6. Calm BY DEF Init, Calm, Chosen, Over, Open
<1>7. QED BY <1>3, <1>4, <1>5, <1>6 DEF CameraInv

-----------------------------------------------------------------------------
(* Helpers *)

\* Tidying changes only what is dead.
Dead(r) == r.pc \in {"none", "closed"} /\ r.task = "none" /\ r.player = "none" /\ r.timed = FALSE

Same(r, s) == r = s \/ (Dead(r) /\ Dead(s))

LEMMA TidyKeeps ==
  ASSUME NEW f \in [Attempts -> Attempt]
  PROVE  /\ Tidy(f) \in [Attempts -> Attempt]
         /\ \A a \in Attempts : Same(Tidy(f)[a], f[a])
<1>1. Over \in Attempt /\ Dead(Over) BY DEF Over, Attempt, Dead
<1>2. Tidy(f) \in [Attempts -> Attempt] BY <1>1 DEF Tidy
<1>3. ASSUME NEW a \in Attempts PROVE Same(Tidy(f)[a], f[a])
  <2>1. CASE Tidy(f)[a] = f[a] BY <2>1 DEF Same
  <2>2. CASE Tidy(f)[a] # f[a]
    <3>1. /\ f[a].pc \in {"none", "closed"} /\ f[a].task = "none" /\ f[a].player = "none"
          /\ ~f[a].timed /\ Tidy(f)[a] = Over
      BY <2>2 DEF Tidy
    <3>2. f[a].timed = FALSE
      <4>1. f[a] \in Attempt OBVIOUS
      <4>2. QED BY <3>1, <4>1 DEF Attempt
    <3>3. Dead(f[a]) BY <3>1, <3>2 DEF Dead
    <3>4. QED BY <1>1, <3>1, <3>3 DEF Same
  <2>3. QED BY <2>1, <2>2
<1>4. QED BY <1>2, <1>3

\* A step of one attempt leaves the others as they are.
LEMMA OneMoves ==
  ASSUME RTypeOK, NEW a \in Attempts, NEW r \in Attempt,
         att' = [att EXCEPT ![a] = r] \/ att' = Tidy([att EXCEPT ![a] = r])
  PROVE  /\ att' \in [Attempts -> Attempt]
         /\ Same(att'[a], r)
         /\ \A b \in Attempts : b # a => Same(att'[b], att[b])
<1> DEFINE f == [att EXCEPT ![a] = r]
<1>1. f \in [Attempts -> Attempt] /\ f[a] = r /\ \A b \in Attempts : b # a => f[b] = att[b]
  BY DEF RTypeOK
<1>2. CASE att' = f BY <1>1, <1>2 DEF Same
<1>3. CASE att' = Tidy(f)
  <2> HIDE DEF f
  <2>1. att' \in [Attempts -> Attempt] /\ \A b \in Attempts : Same(att'[b], f[b])
    BY <1>1, <1>3, TidyKeeps
  <2>2. QED BY <1>1, <2>1
<1>4. QED BY <1>2, <1>3

LEMMA Shape ==
  ASSUME RTypeOK, NEW a \in Attempts
  PROVE  /\ att[a] \in Attempt
         /\ att[a].of \in Drones \cup {NoDrone}
         /\ att[a].pc \in {"none", "open", "answered", "live", "closed"}
         /\ att[a].task \in {"none", "whep", "info", "probe"}
         /\ att[a].player \in {"none", "loading", "playing"}
         /\ att[a].timed \in BOOLEAN
<1>1. att[a] \in Attempt BY DEF RTypeOK
<1>2. QED BY <1>1 DEF Attempt

\* What the page closes: one connection and one player at most, by their names.
LEMMA CloseKeeps ==
  ASSUME RTypeOK
  PROVE  /\ ClosePeer(DestroyHls(att)) \in [Attempts -> Attempt]
         /\ \A a \in Attempts :
              LET r == ClosePeer(DestroyHls(att))[a]
              IN /\ r.task = att[a].task /\ r.timed = att[a].timed /\ r.of = att[a].of
                 /\ r.pc = IF a = peer THEN "closed" ELSE att[a].pc
                 /\ r.player = IF a = hls THEN "none" ELSE att[a].player
<1> DEFINE f == DestroyHls(att)
           g == ClosePeer(f)
<1>1. att \in [Attempts -> Attempt] /\ 0 \notin Attempts /\ peer \in Attempts \cup {0} /\ hls \in Attempts \cup {0}
  BY RecoveryAssumption DEF RTypeOK
<1>2. f = [a \in Attempts |-> IF a = hls THEN [att[a] EXCEPT !.player = "none"] ELSE att[a]]
  BY <1>1 DEF DestroyHls
<1>3. ASSUME NEW a \in Attempts
      PROVE  /\ f[a] \in Attempt
             /\ f[a].task = att[a].task /\ f[a].timed = att[a].timed /\ f[a].of = att[a].of
             /\ f[a].pc = att[a].pc
             /\ f[a].player = IF a = hls THEN "none" ELSE att[a].player
  <2>1. att[a] \in Attempt BY <1>1
  <2>2. CASE a = hls
    <3>1. f[a] = [att[a] EXCEPT !.player = "none"] BY <1>2, <2>2
    <3>2. QED BY <2>1, <2>2, <3>1 DEF Attempt
  <2>3. CASE a # hls
    <3>1. f[a] = att[a] BY <1>2, <2>3
    <3>2. QED BY <2>1, <2>3, <3>1
  <2>4. QED BY <2>2, <2>3
<1>4. f \in [Attempts -> Attempt] BY <1>2, <1>3
<1>5. g = [a \in Attempts |-> IF a = peer THEN [f[a] EXCEPT !.pc = "closed"] ELSE f[a]]
  BY <1>1, <1>4 DEF ClosePeer
<1>6. ASSUME NEW a \in Attempts
      PROVE  /\ g[a] \in Attempt
             /\ g[a].task = att[a].task /\ g[a].timed = att[a].timed /\ g[a].of = att[a].of
             /\ g[a].pc = IF a = peer THEN "closed" ELSE att[a].pc
             /\ g[a].player = IF a = hls THEN "none" ELSE att[a].player
  <2>1. f[a] \in Attempt BY <1>3
  <2>2. CASE a = peer
    <3>1. g[a] = [f[a] EXCEPT !.pc = "closed"] BY <1>5, <2>2
    <3>2. /\ g[a] \in Attempt /\ g[a].pc = "closed"
          /\ g[a].task = f[a].task /\ g[a].timed = f[a].timed /\ g[a].of = f[a].of
          /\ g[a].player = f[a].player
      BY <2>1, <3>1 DEF Attempt
    <3>3. QED BY <1>3, <2>2, <3>2
  <2>3. CASE a # peer
    <3>1. g[a] = f[a] BY <1>5, <2>3
    <3>2. QED BY <1>3, <2>1, <2>3, <3>1
  <2>4. QED BY <2>2, <2>3
<1>7. g \in [Attempts -> Attempt] BY <1>5, <1>6
<1>8. QED BY <1>6, <1>7
-----------------------------------------------------------------------------
(* The handlers of one attempt *)

\* The globals that a handler of one attempt may set.
Globals(a) ==
  /\ UNCHANGED <<active, peer>> /\ hurried' = hurried /\ rooms \subseteq rooms'
  /\ hls' = hls \/ (hls' = a /\ (~hurried => hls = 0 /\ peer = a))

\* What such a handler keeps, or takes back with the flag of the probe.
Timer(a, r) ==
  \/ probing' = probing /\ r.timed = att[a].timed
  \/ probing' = FALSE /\ r.timed = FALSE
  \/ probing' = FALSE /\ r.timed = att[a].timed

\* What it must make sure of.
Sound(a, r) ==
  /\ r.task = "probe" => r.pc \in {"open", "closed"}
  /\ r.task = "probe" /\ r.timed = FALSE => r.pc = "closed"
  /\ r.task # "none" \/ r.player # "none" => r.of \in Drones
  /\ peer = a => r.pc \in Open
  /\ hls' = a => r.player # "none"
  /\ ~hurried /\ peer = a /\ hls' # 0 => r.pc = "open"

LEMMA OthersKeep ==
  ASSUME CameraInv, NEW a \in Attempts, NEW r \in Attempt,
         att' = [att EXCEPT ![a] = r] \/ att' = Tidy([att EXCEPT ![a] = r]),
         Globals(a), NEW b \in Attempts, b # a
  PROVE  /\ Same(att'[b], att[b])
         /\ att'[b].timed = att[b].timed
         /\ att'[b].task = "probe" => att'[b].pc \in {"open", "closed"}
         /\ att'[b].task = "probe" /\ att'[b].timed = FALSE => att'[b].pc = "closed"
         /\ att'[b].task # "none" \/ att'[b].player # "none" => att'[b].of \in Drones
         /\ ~hurried' => Chosen(b)'
<1>1. RTypeOK /\ Steady(b) /\ (~hurried => Chosen(b)) BY DEF CameraInv, Calm
<1>2. Same(att'[b], att[b]) BY <1>1, OneMoves
<1>3. CASE att'[b] = att[b]
  <2>1. ~hurried' => Chosen(b)'
    <3>1. CASE hls' = hls BY <1>1, <1>3, <3>1 DEF Chosen, Globals
    <3>2. CASE hls' = a /\ (~hurried => hls = 0 /\ peer = a)
      <4>1. b # 0 BY RecoveryAssumption
      <4>2. QED BY <1>1, <1>3, <3>2, <4>1 DEF Chosen, Globals
    <3>3. QED BY <3>1, <3>2 DEF Globals
  <2>2. QED BY <1>1, <1>3, <2>1 DEF Steady, Same
<1>4. CASE Dead(att'[b]) /\ Dead(att[b]) BY <1>1, <1>4 DEF Dead, Chosen, Open, Same
<1>5. QED BY <1>2, <1>3, <1>4 DEF Same

LEMMA OneMovesKeeps ==
  ASSUME CameraInv, NEW a \in Attempts, NEW r \in Attempt,
         att' = [att EXCEPT ![a] = r] \/ att' = Tidy([att EXCEPT ![a] = r]),
         Globals(a), Timer(a, r), Sound(a, r),
         RTypeOK', ~hurried /\ att'[a] = r => Chosen(a)'
  PROVE  CameraInv'
<1>1. RTypeOK BY DEF CameraInv
<1>2. Same(att'[a], r) BY <1>1, OneMoves
<1>3. \A b \in Attempts : b # a =>
         /\ Same(att'[b], att[b])
         /\ att'[b].timed = att[b].timed
         /\ att'[b].task = "probe" => att'[b].pc \in {"open", "closed"}
         /\ att'[b].task = "probe" /\ att'[b].timed = FALSE => att'[b].pc = "closed"
         /\ att'[b].task # "none" \/ att'[b].player # "none" => att'[b].of \in Drones
         /\ ~hurried' => Chosen(b)'
  BY OthersKeep
<1>4. /\ att'[a].timed = r.timed
      /\ att'[a].task = "probe" => att'[a].pc \in {"open", "closed"}
      /\ att'[a].task = "probe" /\ att'[a].timed = FALSE => att'[a].pc = "closed"
      /\ att'[a].task # "none" \/ att'[a].player # "none" => att'[a].of \in Drones
  BY <1>2 DEF Sound, Same, Dead
<1>5. ~hurried' => Chosen(a)'
  <2>1. CASE att'[a] = r BY <2>1 DEF Globals
  <2>2. CASE Dead(att'[a]) BY <2>2 DEF Dead, Chosen, Open
  <2>3. QED BY <1>2, <2>1, <2>2 DEF Same
<1>6. \A b \in Attempts : att'[b].timed = TRUE => att[b].timed = TRUE
  BY <1>3, <1>4 DEF Timer
<1>7. ASSUME NEW b \in Attempts PROVE Steady(b)'
  <2>1. \A c \in Attempts : att'[b].timed = TRUE /\ att'[c].timed = TRUE => b = c
    BY <1>6 DEF CameraInv, Steady
  <2>2. CASE b = a BY <1>4, <2>1, <2>2 DEF Steady
  <2>3. CASE b # a BY <1>3, <2>1, <2>3 DEF Steady
  <2>4. QED BY <2>2, <2>3
<1>8. peer' # 0 => att'[peer'].pc \in Open /\ att'[peer'].timed = FALSE
  <2> SUFFICES ASSUME peer # 0 PROVE att'[peer].pc \in Open /\ att'[peer].timed = FALSE
    BY DEF Globals
  <2>1. peer \in Attempts /\ att[peer].pc \in Open /\ att[peer].timed = FALSE
    BY <1>1 DEF CameraInv, Named, RTypeOK
  <2>2. CASE peer = a
    <3>1. r.pc \in Open /\ r.timed = FALSE BY <2>1, <2>2 DEF Sound, Timer
    <3>2. QED BY <1>2, <2>2, <3>1 DEF Same, Dead, Open
  <2>3. CASE peer # a BY <1>3, <2>1, <2>3 DEF Same, Dead, Open
  <2>4. QED BY <2>2, <2>3
<1>9. hls' # 0 => att'[hls'].player # "none"
  <2>1. CASE hls' = a BY <1>2, <2>1 DEF Sound, Same, Dead
  <2>2. CASE hls' = hls /\ hls # a /\ hls # 0
    <3>1. hls \in Attempts /\ att[hls].player # "none" BY <1>1, <2>2 DEF CameraInv, Named, RTypeOK
    <3>2. QED BY <1>3, <2>2, <3>1 DEF Same, Dead
  <2>3. QED BY <2>1, <2>2 DEF Globals
<1>10. ~hurried' => (peer' # 0 /\ hls' # 0 => att'[peer'].pc = "open")
  <2> SUFFICES ASSUME ~hurried, peer # 0, hls' # 0 PROVE att'[peer].pc = "open"
    BY DEF Globals
  <2>1. peer \in Attempts BY <1>1 DEF RTypeOK
  <2>2. CASE peer = a BY <1>2, <2>2 DEF Sound, Same, Dead
  <2>3. CASE peer # a
    <3>1. hls' = hls BY <2>3 DEF Globals
    <3>2. att[peer].pc = "open" BY <3>1 DEF CameraInv, Calm
    <3>3. QED BY <1>3, <2>1, <2>3, <3>2 DEF Same, Dead
  <2>4. QED BY <2>2, <2>3
<1>11. Named' BY <1>8, <1>9 DEF Named
<1>12. Calm' BY <1>3, <1>5, <1>10 DEF Calm
<1>13. ProbeIsTimed'
  <2>1. CASE probing' = FALSE BY <2>1 DEF ProbeIsTimed
  <2>2. CASE probing' = probing /\ r.timed = att[a].timed
    <3>1. \A b \in Attempts : att'[b].timed = att[b].timed BY <1>3, <1>4, <2>2
    <3>2. QED BY <2>2, <3>1 DEF CameraInv, ProbeIsTimed
  <2>3. QED BY <2>1, <2>2 DEF Timer
<1>14. QED BY <1>7, <1>11, <1>12, <1>13 DEF CameraInv
LEMMA WhepAnswersKeeps ==
  ASSUME CameraInv, NEW a \in Attempts, WhepAnswers(a) PROVE CameraInv'
<1> DEFINE r == [att[a] EXCEPT !.task = "none", !.pc = "answered"]
<1>1. RTypeOK /\ Steady(a) /\ (~hurried => Chosen(a)) /\ Named /\ Calm
  BY DEF CameraInv, Calm
<1>2. att' = [att EXCEPT ![a] = r] BY <1>1 DEF WhepAnswers, RTypeOK
<1>3. /\ r \in Attempt
      /\ r.task = "none" /\ r.pc = "answered" /\ r.player = att[a].player
      /\ r.of = att[a].of /\ r.timed = att[a].timed
  BY <1>1, Shape DEF Attempt
<1> HIDE DEF r
<1>4. att' \in [Attempts -> Attempt] /\ a # 0 /\ (att[a].timed => att[a].timed = TRUE)
  BY <1>1, <1>2, <1>3, Shape, OneMoves, RecoveryAssumption
<1>5. RTypeOK' BY <1>1, <1>4 DEF WhepAnswers, RTypeOK, page, Steady
<1>6. Globals(a) BY <1>1 DEF WhepAnswers, page, Globals, Chosen
<1>7. Timer(a, r) BY <1>3 DEF WhepAnswers, page, Timer
<1>8. Sound(a, r) BY <1>1, <1>3, <1>4 DEF WhepAnswers, page, Sound, Steady, Named, Calm, Chosen, Open
<1>9. ~hurried /\ att'[a] = r => Chosen(a)'
  BY <1>1, <1>3 DEF WhepAnswers, page, Chosen, Open, Steady, RTypeOK
<1>10. QED BY <1>1, <1>2, <1>3, <1>5, <1>6, <1>7, <1>8, <1>9, OneMovesKeeps

LEMMA WhepFailsKeeps ==
  ASSUME CameraInv, NEW a \in Attempts, WhepFails(a) PROVE CameraInv'
<1> DEFINE r == [att[a] EXCEPT !.task = "info"]
<1>1. RTypeOK /\ Steady(a) /\ (~hurried => Chosen(a)) /\ Named /\ Calm
  BY DEF CameraInv, Calm
<1>2. att' = [att EXCEPT ![a] = r] BY <1>1 DEF WhepFails, RTypeOK
<1>3. /\ r \in Attempt
      /\ r.task = "info" /\ r.pc = att[a].pc /\ r.player = att[a].player
      /\ r.of = att[a].of /\ r.timed = att[a].timed
  BY <1>1, Shape DEF Attempt
<1> HIDE DEF r
<1>4. att' \in [Attempts -> Attempt] /\ a # 0 /\ (att[a].timed => att[a].timed = TRUE)
  BY <1>1, <1>2, <1>3, Shape, OneMoves, RecoveryAssumption
<1>5. RTypeOK' BY <1>1, <1>4 DEF WhepFails, RTypeOK, page, Steady
<1>6. Globals(a) BY <1>1 DEF WhepFails, page, Globals, Chosen
<1>7. Timer(a, r) BY <1>3 DEF WhepFails, page, Timer
<1>8. Sound(a, r) BY <1>1, <1>3, <1>4 DEF WhepFails, page, Sound, Steady, Named, Calm, Chosen, Open
<1>9. ~hurried /\ att'[a] = r => Chosen(a)'
  BY <1>1, <1>3 DEF WhepFails, page, Chosen, Open, Steady, RTypeOK
<1>10. QED BY <1>1, <1>2, <1>3, <1>5, <1>6, <1>7, <1>8, <1>9, OneMovesKeeps

LEMMA TrackArrivesKeeps ==
  ASSUME CameraInv, NEW a \in Attempts, TrackArrives(a) PROVE CameraInv'
<1> DEFINE r == [att[a] EXCEPT !.pc = "live"]
<1>1. RTypeOK /\ Steady(a) /\ (~hurried => Chosen(a)) /\ Named /\ Calm
  BY DEF CameraInv, Calm
<1>2. att' = [att EXCEPT ![a] = r] BY <1>1 DEF TrackArrives, RTypeOK
<1>3. /\ r \in Attempt
      /\ r.task = att[a].task /\ r.pc = "live" /\ r.player = att[a].player
      /\ r.of = att[a].of /\ r.timed = att[a].timed
  BY <1>1, Shape DEF Attempt
<1> HIDE DEF r
<1>4. att' \in [Attempts -> Attempt] /\ a # 0 /\ (att[a].timed => att[a].timed = TRUE)
  BY <1>1, <1>2, <1>3, Shape, OneMoves, RecoveryAssumption
<1>5. RTypeOK' BY <1>1, <1>4 DEF TrackArrives, RTypeOK, page, Steady
<1>6. Globals(a) BY <1>1 DEF TrackArrives, page, Globals, Chosen
<1>7. Timer(a, r) BY <1>3 DEF TrackArrives, page, Timer
<1>8. Sound(a, r) BY <1>1, <1>3, <1>4 DEF TrackArrives, page, Sound, Steady, Named, Calm, Chosen, Open
<1>9. ~hurried /\ att'[a] = r => Chosen(a)'
  BY <1>1, <1>3 DEF TrackArrives, page, Chosen, Open, Steady, RTypeOK
<1>10. QED BY <1>1, <1>2, <1>3, <1>5, <1>6, <1>7, <1>8, <1>9, OneMovesKeeps

LEMMA InfoAnswersKeeps ==
  ASSUME CameraInv, NEW a \in Attempts, InfoAnswers(a) PROVE CameraInv'
<1> DEFINE r == [att[a] EXCEPT !.task = "none", !.player = "loading"]
<1>1. RTypeOK /\ Steady(a) /\ (~hurried => Chosen(a)) /\ Named /\ Calm
  BY DEF CameraInv, Calm
<1>2. att' = [att EXCEPT ![a] = r] BY <1>1 DEF InfoAnswers, RTypeOK
<1>3. /\ r \in Attempt
      /\ r.task = "none" /\ r.pc = att[a].pc /\ r.player = "loading"
      /\ r.of = att[a].of /\ r.timed = att[a].timed
  BY <1>1, Shape DEF Attempt
<1> HIDE DEF r
<1>4. att' \in [Attempts -> Attempt] /\ a # 0 /\ (att[a].timed => att[a].timed = TRUE)
  BY <1>1, <1>2, <1>3, Shape, OneMoves, RecoveryAssumption
<1>5. RTypeOK' BY <1>1, <1>4 DEF InfoAnswers, RTypeOK, page, Steady
<1>6. Globals(a) BY <1>1 DEF InfoAnswers, page, Globals, Chosen
<1>7. Timer(a, r) BY <1>3 DEF InfoAnswers, page, Timer
<1>8. Sound(a, r) BY <1>1, <1>3, <1>4 DEF InfoAnswers, page, Sound, Steady, Named, Calm, Chosen, Open
<1>9. ~hurried /\ att'[a] = r => Chosen(a)'
  BY <1>1, <1>3 DEF InfoAnswers, page, Chosen, Open, Steady, RTypeOK
<1>10. QED BY <1>1, <1>2, <1>3, <1>5, <1>6, <1>7, <1>8, <1>9, OneMovesKeeps

LEMMA InfoFailsKeeps ==
  ASSUME CameraInv, NEW a \in Attempts, InfoFails(a) PROVE CameraInv'
<1> DEFINE r == [att[a] EXCEPT !.task = "none"]
<1>1. RTypeOK /\ Steady(a) /\ (~hurried => Chosen(a)) /\ Named /\ Calm
  BY DEF CameraInv, Calm
<1>2. att' = Tidy([att EXCEPT ![a] = r]) BY <1>1 DEF InfoFails, RTypeOK
<1>3. /\ r \in Attempt
      /\ r.task = "none" /\ r.pc = att[a].pc /\ r.player = att[a].player
      /\ r.of = att[a].of /\ r.timed = att[a].timed
  BY <1>1, Shape DEF Attempt
<1> HIDE DEF r
<1>4. att' \in [Attempts -> Attempt] /\ a # 0 /\ (att[a].timed => att[a].timed = TRUE)
  BY <1>1, <1>2, <1>3, Shape, OneMoves, RecoveryAssumption
<1>5. RTypeOK' BY <1>1, <1>4 DEF InfoFails, RTypeOK, page, Steady
<1>6. Globals(a) BY <1>1 DEF InfoFails, page, Globals, Chosen
<1>7. Timer(a, r) BY <1>3 DEF InfoFails, page, Timer
<1>8. Sound(a, r) BY <1>1, <1>3, <1>4 DEF InfoFails, page, Sound, Steady, Named, Calm, Chosen, Open
<1>9. ~hurried /\ att'[a] = r => Chosen(a)'
  BY <1>1, <1>3 DEF InfoFails, page, Chosen, Open, Steady, RTypeOK
<1>10. QED BY <1>1, <1>2, <1>3, <1>5, <1>6, <1>7, <1>8, <1>9, OneMovesKeeps

LEMMA ManifestParsedKeeps ==
  ASSUME CameraInv, NEW a \in Attempts, ManifestParsed(a) PROVE CameraInv'
<1> DEFINE r == [att[a] EXCEPT !.player = "playing"]
<1>1. RTypeOK /\ Steady(a) /\ (~hurried => Chosen(a)) /\ Named /\ Calm
  BY DEF CameraInv, Calm
<1>2. att' = [att EXCEPT ![a] = r] BY <1>1 DEF ManifestParsed, RTypeOK
<1>3. /\ r \in Attempt
      /\ r.task = att[a].task /\ r.pc = att[a].pc /\ r.player = "playing"
      /\ r.of = att[a].of /\ r.timed = att[a].timed
  BY <1>1, Shape DEF Attempt
<1> HIDE DEF r
<1>4. att' \in [Attempts -> Attempt] /\ a # 0 /\ (att[a].timed => att[a].timed = TRUE)
  BY <1>1, <1>2, <1>3, Shape, OneMoves, RecoveryAssumption
<1>5. RTypeOK' BY <1>1, <1>4 DEF ManifestParsed, RTypeOK, page, Steady
<1>6. Globals(a) BY <1>1 DEF ManifestParsed, page, Globals, Chosen
<1>7. Timer(a, r) BY <1>3 DEF ManifestParsed, page, Timer
<1>8. Sound(a, r) BY <1>1, <1>3, <1>4 DEF ManifestParsed, page, Sound, Steady, Named, Calm, Chosen, Open
<1>9. ~hurried /\ att'[a] = r => Chosen(a)'
  BY <1>1, <1>3 DEF ManifestParsed, page, Chosen, Open, Steady, RTypeOK
<1>10. QED BY <1>1, <1>2, <1>3, <1>5, <1>6, <1>7, <1>8, <1>9, OneMovesKeeps

LEMMA ProbeAnswersKeeps ==
  ASSUME CameraInv, NEW a \in Attempts, ProbeAnswers(a) PROVE CameraInv'
<1> DEFINE r == [att[a] EXCEPT !.task = "none", !.pc = "answered"]
<1>1. RTypeOK /\ Steady(a) /\ (~hurried => Chosen(a)) /\ Named /\ Calm
  BY DEF CameraInv, Calm
<1>2. att' = [att EXCEPT ![a] = r] BY <1>1 DEF ProbeAnswers, RTypeOK
<1>3. /\ r \in Attempt
      /\ r.task = "none" /\ r.pc = "answered" /\ r.player = att[a].player
      /\ r.of = att[a].of /\ r.timed = att[a].timed
  BY <1>1, Shape DEF Attempt
<1> HIDE DEF r
<1>4. att' \in [Attempts -> Attempt] /\ a # 0 /\ (att[a].timed => att[a].timed = TRUE)
  BY <1>1, <1>2, <1>3, Shape, OneMoves, RecoveryAssumption
<1>5. RTypeOK' BY <1>1, <1>4 DEF ProbeAnswers, RTypeOK, page, Steady
<1>6. Globals(a) BY <1>1 DEF ProbeAnswers, page, Globals, Chosen
<1>7. Timer(a, r) BY <1>3 DEF ProbeAnswers, page, Timer
<1>8. Sound(a, r) BY <1>1, <1>3, <1>4 DEF ProbeAnswers, page, Sound, Steady, Named, Calm, Chosen, Open
<1>9. ~hurried /\ att'[a] = r => Chosen(a)'
  BY <1>1, <1>3 DEF ProbeAnswers, page, Chosen, Open, Steady, RTypeOK
<1>10. QED BY <1>1, <1>2, <1>3, <1>5, <1>6, <1>7, <1>8, <1>9, OneMovesKeeps

LEMMA ProbeTimesOutKeeps ==
  ASSUME CameraInv, NEW a \in Attempts, ProbeTimesOut(a) PROVE CameraInv'
<1> DEFINE r == [att[a] EXCEPT !.timed = FALSE, !.pc = "closed"]
<1>1. RTypeOK /\ Steady(a) /\ (~hurried => Chosen(a)) /\ Named /\ Calm
  BY DEF CameraInv, Calm
<1>2. att' = Tidy([att EXCEPT ![a] = r]) BY <1>1 DEF ProbeTimesOut, RTypeOK
<1>3. /\ r \in Attempt
      /\ r.task = att[a].task /\ r.pc = "closed" /\ r.player = att[a].player
      /\ r.of = att[a].of /\ r.timed = FALSE
  BY <1>1, Shape DEF Attempt
<1> HIDE DEF r
<1>4. att' \in [Attempts -> Attempt] /\ a # 0 /\ (att[a].timed => att[a].timed = TRUE)
  BY <1>1, <1>2, <1>3, Shape, OneMoves, RecoveryAssumption
<1>5. RTypeOK' BY <1>1, <1>4 DEF ProbeTimesOut, RTypeOK, page, Steady
<1>6. Globals(a) BY <1>1 DEF ProbeTimesOut, page, Globals, Chosen
<1>7. Timer(a, r) BY <1>3 DEF ProbeTimesOut, page, Timer
<1>8. Sound(a, r) BY <1>1, <1>3, <1>4 DEF ProbeTimesOut, page, Sound, Steady, Named, Calm, Chosen, Open
<1>9. ~hurried /\ att'[a] = r => Chosen(a)'
  BY <1>1, <1>3 DEF ProbeTimesOut, page, Chosen, Open, Steady, RTypeOK
<1>10. QED BY <1>1, <1>2, <1>3, <1>5, <1>6, <1>7, <1>8, <1>9, OneMovesKeeps

LEMMA ProbeFailsKeeps ==
  ASSUME CameraInv, NEW a \in Attempts, ProbeFails(a) PROVE CameraInv'
<1>1. RTypeOK /\ Steady(a) /\ (~hurried => Chosen(a)) /\ Named /\ Calm
  BY DEF CameraInv, Calm
<1>2. PICK pc \in {att[a].pc, "closed"} : att' = Tidy([att EXCEPT ![a].task = "none", ![a].pc = pc])
  BY DEF ProbeFails
<1> DEFINE r == [att[a] EXCEPT !.task = "none", !.pc = pc]
<1>3. att' = Tidy([att EXCEPT ![a] = r]) BY <1>1, <1>2 DEF RTypeOK
<1>4. /\ r \in Attempt
      /\ r.task = "none" /\ r.pc = pc /\ r.player = att[a].player
      /\ r.of = att[a].of /\ r.timed = att[a].timed
  BY <1>1, <1>2, Shape DEF Attempt
<1> HIDE DEF r
<1>5. att' \in [Attempts -> Attempt] /\ a # 0 BY <1>1, <1>3, <1>4, OneMoves, RecoveryAssumption
<1>6. RTypeOK' BY <1>1, <1>5 DEF ProbeFails, RTypeOK
<1>7. peer # a /\ UNCHANGED <<active, peer, hls, rooms, hurried>>
  BY <1>1, <1>5 DEF ProbeFails, Steady, Named, Open
<1>8. Globals(a) BY <1>7 DEF Globals
<1>9. Timer(a, r) BY <1>4 DEF ProbeFails, Timer
<1>10. Sound(a, r) BY <1>1, <1>4, <1>5, <1>7 DEF Sound, Steady, Named
<1>11. ~hurried /\ att'[a] = r => Chosen(a)'
  BY <1>1, <1>2, <1>4, <1>7 DEF Chosen, Open
<1>12. QED BY <1>3, <1>4, <1>6, <1>8, <1>9, <1>10, <1>11, OneMovesKeeps

-----------------------------------------------------------------------------
(* Starting, closing and swapping *)

\* What is left of an attempt that the page has closed.
LEMMA ClosedKeeps ==
  ASSUME CameraInv
  PROVE  /\ ClosedAttempts \in [Attempts -> Attempt]
         /\ \A b \in Attempts :
              LET r == ClosedAttempts[b]
              IN /\ r.task = att[b].task /\ r.timed = att[b].timed
                 /\ r.task = "probe" => r.pc \in {"open", "closed"}
                 /\ r.task = "probe" /\ r.timed = FALSE => r.pc = "closed"
                 /\ r.task # "none" \/ r.player # "none" => r.of \in Drones
                 /\ r.timed = TRUE => r.pc \in {att[b].pc, "closed"}
                 /\ r.pc \notin {"none", "closed"} => b # peer /\ r.pc = att[b].pc
                 /\ r.player # "none" => b # hls /\ r.player = att[b].player
<1> DEFINE g == ClosePeer(DestroyHls(att))
<1>1. RTypeOK BY DEF CameraInv
<1>2. /\ g \in [Attempts -> Attempt]
      /\ \A b \in Attempts :
           /\ g[b].task = att[b].task /\ g[b].timed = att[b].timed /\ g[b].of = att[b].of
           /\ g[b].pc = IF b = peer THEN "closed" ELSE att[b].pc
           /\ g[b].player = IF b = hls THEN "none" ELSE att[b].player
  BY <1>1, CloseKeeps
<1> HIDE DEF g
<1>3. Tidy(g) \in [Attempts -> Attempt] /\ \A b \in Attempts : Same(Tidy(g)[b], g[b])
  BY <1>2, TidyKeeps
<1>4. ClosedAttempts = Tidy(g) BY DEF ClosedAttempts, g
<1>5. ASSUME NEW b \in Attempts
      PROVE  LET r == ClosedAttempts[b]
             IN /\ r.task = att[b].task /\ r.timed = att[b].timed
                /\ r.task = "probe" => r.pc \in {"open", "closed"}
                /\ r.task = "probe" /\ r.timed = FALSE => r.pc = "closed"
                /\ r.task # "none" \/ r.player # "none" => r.of \in Drones
                /\ r.timed = TRUE => r.pc \in {att[b].pc, "closed"}
                /\ r.pc \notin {"none", "closed"} => b # peer /\ r.pc = att[b].pc
                /\ r.player # "none" => b # hls /\ r.player = att[b].player
  <2>1. Steady(b) BY DEF CameraInv
  <2>2. Same(ClosedAttempts[b], g[b]) BY <1>3, <1>4
  <2>3. CASE ClosedAttempts[b] = g[b] BY <1>2, <2>1, <2>3 DEF Steady
  <2>4. CASE Dead(ClosedAttempts[b]) /\ Dead(g[b]) BY <1>2, <2>4 DEF Dead
  <2>5. QED BY <2>2, <2>3, <2>4 DEF Same
<1>6. QED BY <1>3, <1>4, <1>5

\* If nothing was under way, the page was all there was.
LEMMA ClosedIsQuiet ==
  ASSUME CameraInv, ~hurried, ~Busy, NEW b \in Attempts
  PROVE  /\ ClosedAttempts[b].pc \notin Open /\ ClosedAttempts[b].player = "none"
         /\ ClosedAttempts[b].task \notin {"whep", "info"}
         /\ ClosedAttempts[b].timed = TRUE => ClosedAttempts[b].pc = "closed"
<1>1. Chosen(b) BY DEF CameraInv, Calm
<1>2. /\ att[b].task \notin {"whep", "info"}
      /\ ~(att[b].timed = TRUE /\ att[b].pc # "closed")
  BY DEF Busy
<1>3. LET r == ClosedAttempts[b]
      IN /\ r.task = att[b].task /\ r.timed = att[b].timed
         /\ r.timed = TRUE => r.pc \in {att[b].pc, "closed"}
         /\ r.pc \notin {"none", "closed"} => b # peer /\ r.pc = att[b].pc
         /\ r.player # "none" => b # hls /\ r.player = att[b].player
  BY ClosedKeeps
<1>4. ClosedAttempts[b].player = "none" BY <1>1, <1>3 DEF Chosen
<1>5. ClosedAttempts[b].pc \notin Open
  <2> SUFFICES ASSUME ClosedAttempts[b].pc \in Open PROVE FALSE OBVIOUS
  <2>1. b # peer /\ att[b].pc = ClosedAttempts[b].pc BY <1>3 DEF Open
  <2>2. att[b].timed = TRUE /\ att[b].pc # "closed" BY <1>1, <2>1 DEF Chosen, Open
  <2>3. QED BY <1>2, <2>2
<1>6. RTypeOK BY DEF CameraInv
<1>7. ClosedAttempts[b].pc \in {"none", "open", "answered", "live", "closed"}
  BY ClosedKeeps DEF Attempt
<1>8. QED BY <1>2, <1>3, <1>4, <1>5, <1>7 DEF Open

LEMMA StartKeeps ==
  ASSUME CameraInv, NEW d \in Drones, StartFpvVideoStream(d),
         UNCHANGED shows, hurried' \in BOOLEAN, ~hurried' => ~hurried /\ ~Busy
  PROVE  CameraInv'
<1>1. RTypeOK BY DEF CameraInv
<1>2. PICK a \in Attempts :
        /\ ClosedAttempts[a] = Over
        /\ att' = [ClosedAttempts EXCEPT ![a] = [Over EXCEPT !.of = d, !.pc = "open", !.task = "whep"]]
        /\ peer' = a
  BY DEF StartFpvVideoStream, Free
<1>3. active' = d /\ rooms' = rooms \ {d} /\ hls' = 0 /\ probing' = FALSE
  BY DEF StartFpvVideoStream, CloseRest
<1> DEFINE r == [Over EXCEPT !.of = d, !.pc = "open", !.task = "whep"]
<1>4. /\ r \in Attempt /\ r.of = d /\ r.pc = "open" /\ r.task = "whep"
      /\ r.player = "none" /\ r.timed = FALSE
  BY DEF Over, Attempt
<1>5. ClosedAttempts \in [Attempts -> Attempt] BY ClosedKeeps
<1> HIDE DEF r
<1>6. /\ att' \in [Attempts -> Attempt] /\ att'[a] = r
      /\ \A b \in Attempts : b # a => att'[b] = ClosedAttempts[b]
  BY <1>2, <1>4, <1>5 DEF r
<1>7. 0 \in 0 .. FrozenTicks - 1 /\ a # 0 BY RecoveryAssumption
<1>8. RTypeOK'
  BY <1>1, <1>2, <1>3, <1>6, <1>7 DEF StartFpvVideoStream, CloseRest, RTypeOK
<1>9. ASSUME NEW b \in Attempts PROVE Steady(b)'
  <2>1. \A c \in Attempts : att'[c].timed = TRUE => att[c].timed = TRUE
    BY <1>4, <1>6, ClosedKeeps
  <2>2. \A c \in Attempts : att'[b].timed = TRUE /\ att'[c].timed = TRUE => b = c
    BY <2>1 DEF CameraInv, Steady
  <2>3. CASE b = a BY <1>4, <1>6, <2>2, <2>3 DEF Steady
  <2>4. CASE b # a
    <3>1. /\ att'[b].task = "probe" => att'[b].pc \in {"open", "closed"}
          /\ att'[b].task = "probe" /\ att'[b].timed = FALSE => att'[b].pc = "closed"
          /\ att'[b].task # "none" \/ att'[b].player # "none" => att'[b].of \in Drones
      BY <1>6, <2>4, ClosedKeeps
    <3>2. QED BY <2>2, <3>1 DEF Steady
  <2>5. QED BY <2>3, <2>4
<1>10. Named' BY <1>2, <1>3, <1>4, <1>6 DEF Named, Open
<1>11. ASSUME ~hurried', NEW b \in Attempts PROVE Chosen(b)'
  <2>1. CASE b = a BY <1>2, <1>3, <1>4, <1>6, <2>1 DEF Chosen, Open
  <2>2. CASE b # a
    <3>1. /\ att'[b].pc \notin Open /\ att'[b].player = "none"
          /\ att'[b].task \notin {"whep", "info"}
          /\ att'[b].timed = TRUE => att'[b].pc = "closed"
      BY <1>6, <1>11, <2>2, ClosedIsQuiet
    <3>2. QED BY <3>1 DEF Chosen, Open
  <2>3. QED BY <2>1, <2>2
<1>12. Calm' BY <1>3, <1>11 DEF Calm
<1>13. ProbeIsTimed' BY <1>3 DEF ProbeIsTimed
<1>14. QED BY <1>8, <1>9, <1>10, <1>12, <1>13 DEF CameraInv
LEMMA CloseFpvKeeps ==
  ASSUME CameraInv, CloseFpvVideoStream PROVE CameraInv'
<1>1. RTypeOK BY DEF CameraInv
<1>2. /\ att' = ClosedAttempts /\ active' = NoDrone /\ peer' = 0 /\ hls' = 0
      /\ rooms' \subseteq rooms /\ probing' = FALSE
  BY DEF CloseFpvVideoStream, CloseRest
<1>3. hurried' \in BOOLEAN /\ (~hurried' => ~hurried /\ ~Busy)
  BY DEF CloseFpvVideoStream
<1>4. 0 \in 0 .. FrozenTicks - 1 BY RecoveryAssumption
<1>5. att' \in [Attempts -> Attempt] BY <1>2, ClosedKeeps
<1>6. RTypeOK' BY <1>1, <1>2, <1>3, <1>4, <1>5 DEF CloseFpvVideoStream, CloseRest, RTypeOK
<1>7. ASSUME NEW b \in Attempts PROVE Steady(b)'
  <2>1. \A c \in Attempts : att'[c].timed = TRUE => att[c].timed = TRUE
    BY <1>2, ClosedKeeps
  <2>2. \A c \in Attempts : att'[b].timed = TRUE /\ att'[c].timed = TRUE => b = c
    BY <2>1 DEF CameraInv, Steady
  <2>3. /\ att'[b].task = "probe" => att'[b].pc \in {"open", "closed"}
        /\ att'[b].task = "probe" /\ att'[b].timed = FALSE => att'[b].pc = "closed"
        /\ att'[b].task # "none" \/ att'[b].player # "none" => att'[b].of \in Drones
    BY <1>2, ClosedKeeps
  <2>4. QED BY <2>2, <2>3 DEF Steady
<1>8. Named' /\ ProbeIsTimed' BY <1>2 DEF Named, ProbeIsTimed
<1>9. ASSUME ~hurried', NEW b \in Attempts PROVE Chosen(b)'
  <2>1. /\ att'[b].pc \notin Open /\ att'[b].player = "none"
        /\ att'[b].task \notin {"whep", "info"}
        /\ att'[b].timed = TRUE => att'[b].pc = "closed"
    BY <1>2, <1>3, <1>9, ClosedIsQuiet
  <2>2. QED BY <2>1 DEF Chosen, Open
<1>10. Calm' BY <1>2, <1>9 DEF Calm
<1>11. QED BY <1>6, <1>7, <1>8, <1>10 DEF CameraInv

LEMMA PictureKeeps ==
  ASSUME CameraInv, RTypeOK',
         UNCHANGED <<att, active, peer, hls, probing, rooms, hurried>>
  PROVE  CameraInv'
<1>1. \A b \in Attempts : Steady(b)' BY DEF CameraInv, Steady
<1>2. Named' BY DEF CameraInv, Named
<1>3. Calm' BY DEF CameraInv, Calm, Chosen
<1>4. ProbeIsTimed' BY DEF CameraInv, ProbeIsTimed
<1>5. QED BY <1>1, <1>2, <1>3, <1>4 DEF CameraInv

LEMMA ProbeTickKeeps ==
  ASSUME CameraInv, ProbeTick PROVE CameraInv'
<1>1. RTypeOK /\ Named BY DEF CameraInv
<1> DEFINE r == [of |-> interval, pc |-> "open", task |-> "probe", player |-> "none", timed |-> TRUE]
<1>2. PICK a \in Attempts : att[a] = Over /\ att' = [att EXCEPT ![a] = r]
  BY DEF ProbeTick, Free
<1>3. interval \in Drones /\ active = interval /\ hls # 0 /\ hls \in Attempts
  BY <1>1 DEF ProbeTick, RTypeOK
<1>4. UNCHANGED <<active, peer, hls, rooms, hurried>> /\ probing' = TRUE BY DEF ProbeTick
<1>5. /\ r \in Attempt /\ r.of = active /\ r.pc = "open" /\ r.task = "probe"
      /\ r.player = "none" /\ r.timed = TRUE
  BY <1>3 DEF Attempt
<1>6. r.of \in Drones BY <1>3
<1> HIDE DEF r
<1>7. /\ att' \in [Attempts -> Attempt] /\ att'[a] = r
      /\ \A b \in Attempts : b # a => att'[b] = att[b]
  BY <1>1, <1>2, <1>5 DEF RTypeOK
<1>8. RTypeOK' BY <1>1, <1>7 DEF ProbeTick, RTypeOK
<1>9. a # 0 /\ a # hls /\ a # peer
  BY <1>1, <1>2, <1>3, RecoveryAssumption DEF Named, Over, Open
<1>10. \A b \in Attempts : att[b].timed # TRUE BY DEF ProbeTick
<1>11. ASSUME NEW b \in Attempts PROVE Steady(b)'
  <2>1. \A c \in Attempts : att'[c].timed = TRUE => c = a BY <1>7, <1>10
  <2>2. Steady(b) BY DEF CameraInv
  <2>3. CASE b = a BY <1>5, <1>6, <1>7, <2>1, <2>3 DEF Steady
  <2>4. CASE b # a BY <1>7, <2>1, <2>2, <2>4 DEF Steady
  <2>5. QED BY <2>3, <2>4
<1>12. peer' # 0 => att'[peer'].pc \in Open /\ att'[peer'].timed = FALSE
  BY <1>1, <1>4, <1>7, <1>9 DEF Named, RTypeOK
<1>13. hls' # 0 => att'[hls'].player # "none" BY <1>1, <1>3, <1>4, <1>7, <1>9 DEF Named
<1>14. ASSUME ~hurried', NEW b \in Attempts PROVE Chosen(b)'
  <2>1. Chosen(b) /\ Chosen(hls) BY <1>3, <1>4, <1>14 DEF CameraInv, Calm
  <2>2. active \in rooms BY <1>1, <1>3, <2>1 DEF Chosen, Named
  <2>3. CASE b = a BY <1>3, <1>4, <1>5, <1>7, <2>2, <2>3 DEF Chosen, Open
  <2>4. CASE b # a BY <1>4, <1>7, <2>1, <2>4 DEF Chosen
  <2>5. QED BY <2>3, <2>4
<1>15. ~hurried' => (peer' # 0 /\ hls' # 0 => att'[peer'].pc = "open")
  BY <1>1, <1>4, <1>7, <1>9 DEF CameraInv, Calm, RTypeOK
<1>16. Calm' BY <1>14, <1>15 DEF Calm
<1>17. Named' BY <1>12, <1>13 DEF Named
<1>18. ProbeIsTimed'
  <2>1. att'[a].timed BY <1>5, <1>7
  <2>2. QED BY <2>1 DEF ProbeIsTimed
<1>19. QED BY <1>8, <1>11, <1>16, <1>17, <1>18 DEF CameraInv

\* The probe takes over: the old connection and the player end with it.
LEMMA HotSwapKeeps ==
  ASSUME CameraInv, NEW a \in Attempts, HotSwap(a) PROVE CameraInv'
<1> DEFINE g == ClosePeer(DestroyHls(att))
           f == [g EXCEPT ![a].pc = "live", ![a].timed = FALSE]
<1>1. RTypeOK /\ Steady(a) /\ Named BY DEF CameraInv
<1>2. att[a].timed = TRUE /\ att[a].pc = "answered" /\ a # 0
  BY <1>1, Shape, RecoveryAssumption DEF HotSwap
<1>3. a # peer /\ att[a].task # "probe" BY <1>1, <1>2 DEF Named, Steady
<1>4. /\ g \in [Attempts -> Attempt]
      /\ \A b \in Attempts :
           /\ g[b].task = att[b].task /\ g[b].timed = att[b].timed /\ g[b].of = att[b].of
           /\ g[b].pc = IF b = peer THEN "closed" ELSE att[b].pc
           /\ g[b].player = IF b = hls THEN "none" ELSE att[b].player
  BY <1>1, CloseKeeps
<1> HIDE DEF g
<1>5. g[a] \in Attempt BY <1>4
<1>6. f = [g EXCEPT ![a] = [g[a] EXCEPT !.pc = "live", !.timed = FALSE]] BY <1>4
<1>7. /\ [g[a] EXCEPT !.pc = "live", !.timed = FALSE] \in Attempt
      /\ f[a].pc = "live" /\ f[a].timed = FALSE /\ f[a].task = g[a].task
      /\ f[a].of = g[a].of /\ f[a].player = g[a].player
  BY <1>4, <1>5, <1>6 DEF Attempt
<1>8. f \in [Attempts -> Attempt] /\ \A b \in Attempts : b # a => f[b] = g[b]
  BY <1>4, <1>6, <1>7
<1>9. att' = Tidy(f) BY DEF HotSwap, g
<1> HIDE DEF f
<1>10. att' \in [Attempts -> Attempt] /\ \A b \in Attempts : Same(att'[b], f[b])
  BY <1>8, <1>9, TidyKeeps
<1>11. att'[a] = f[a] BY <1>7, <1>10 DEF Same, Dead
<1>12. /\ UNCHANGED <<active, rooms, hurried>> /\ peer' = a /\ hls' = 0 /\ probing' = FALSE
  BY DEF HotSwap
<1>13. RTypeOK' BY <1>1, <1>10 DEF HotSwap, RTypeOK
<1>14. \A b \in Attempts : att[b].timed = TRUE => b = a
  BY <1>2 DEF CameraInv, Steady
<1>15. \A b \in Attempts : att'[b].timed # TRUE
  <2> SUFFICES ASSUME NEW b \in Attempts PROVE att'[b].timed # TRUE OBVIOUS
  <2>1. CASE b = a BY <1>7, <1>11, <2>1
  <2>2. CASE b # a
    <3>1. g[b].timed # TRUE BY <1>4, <1>14, <2>2
    <3>2. CASE att'[b] = g[b] BY <3>1, <3>2
    <3>3. CASE Dead(att'[b]) BY <3>3 DEF Dead
    <3>4. QED BY <1>8, <1>10, <2>2, <3>2, <3>3 DEF Same
  <2>3. QED BY <2>1, <2>2
<1>16. ASSUME NEW b \in Attempts PROVE Steady(b)'
  <2>1. Steady(b) BY DEF CameraInv
  <2>2. CASE b = a BY <1>1, <1>3, <1>4, <1>7, <1>11, <1>15, <2>2 DEF Steady
  <2>3. CASE b # a
    <3>1. CASE Dead(att'[b]) BY <1>15, <3>1 DEF Steady, Dead
    <3>2. CASE att'[b] = g[b] BY <1>4, <1>15, <2>1, <3>2 DEF Steady
    <3>3. QED BY <1>8, <1>10, <2>3, <3>1, <3>2 DEF Same
  <2>4. QED BY <2>2, <2>3
<1>17. Named' BY <1>7, <1>11, <1>12 DEF Named, Open
<1>18. ASSUME ~hurried', NEW b \in Attempts PROVE Chosen(b)'
  <2>1. Chosen(b) /\ Chosen(a) BY <1>12, <1>18 DEF CameraInv, Calm
  <2>2. att[a].of = active /\ att[a].of \in rooms /\ hls # 0 BY <1>2, <2>1 DEF Chosen
  <2>3. att[b].task \notin {"whep", "info"} BY <2>1, <2>2 DEF Chosen
  <2>4. g[b].player = "none" BY <1>4, <2>1 DEF Chosen
  <2>5. CASE b = a
    BY <1>4, <1>7, <1>11, <1>12, <2>2, <2>3, <2>4, <2>5 DEF Chosen, Open
  <2>6. CASE b # a
    <3>1. g[b].pc \notin Open BY <1>4, <1>14, <2>1, <2>6 DEF Chosen, Open
    <3>2. CASE Dead(att'[b]) BY <1>15, <3>2 DEF Chosen, Dead, Open
    <3>3. CASE att'[b] = g[b] BY <1>4, <1>15, <2>3, <2>4, <3>1, <3>3 DEF Chosen, Open
    <3>4. QED BY <1>8, <1>10, <2>6, <3>2, <3>3 DEF Same
  <2>7. QED BY <2>5, <2>6
<1>19. Calm' BY <1>12, <1>18 DEF Calm
<1>20. ProbeIsTimed' BY <1>12 DEF ProbeIsTimed
<1>21. QED BY <1>13, <1>16, <1>17, <1>19, <1>20 DEF CameraInv

\* The picture of a live connection is all there is, so that its restart hurries nobody.
LEMMA TickFrozenKeeps ==
  ASSUME CameraInv, TickFrozen PROVE CameraInv'
<1>1. RTypeOK BY DEF CameraInv
<1>2. UNCHANGED <<shows, hurried>> BY DEF TickFrozen
<1>3. CASE ticks + 1 < FrozenTicks
  <2>1. UNCHANGED <<att, active, peer, hls, interval, probing, stats, seen, rooms, frozen>>
        /\ ticks' = ticks + 1
    BY <1>3 DEF TickFrozen
  <2>2. ticks' \in 0 .. FrozenTicks - 1 BY <1>1, <1>3, <2>1, RecoveryAssumption DEF RTypeOK
  <2>3. RTypeOK' BY <1>1, <1>2, <2>1, <2>2 DEF RTypeOK
  <2>4. QED BY <1>2, <2>1, <2>3, PictureKeeps
<1>4. CASE ~(ticks + 1 < FrozenTicks) /\ active = NoDrone
  <2>1. UNCHANGED <<att, active, peer, hls, interval, probing, stats, seen, rooms, frozen>>
        /\ ticks' = 0
    BY <1>4 DEF TickFrozen, HandleWebRtcFrozenRecovery
  <2>2. ticks' \in 0 .. FrozenTicks - 1 BY <2>1, RecoveryAssumption
  <2>3. RTypeOK' BY <1>1, <1>2, <2>1, <2>2 DEF RTypeOK
  <2>4. QED BY <1>2, <2>1, <2>3, PictureKeeps
<1>5. CASE ~(ticks + 1 < FrozenTicks) /\ active # NoDrone
  <2>1. StartFpvVideoStream(active) BY <1>5 DEF TickFrozen, HandleWebRtcFrozenRecovery
  <2>2. active \in Drones BY <1>1, <1>5 DEF RTypeOK
  <2>3. peer \in Attempts /\ att[peer].pc = "live" /\ peer # 0
    BY <1>1 DEF TickFrozen, Connected, RTypeOK
  <2>4. ~hurried => ~Busy
    <3> SUFFICES ASSUME ~hurried, NEW b \in Attempts,
                        att[b].task \in {"whep", "info"} \/ (att[b].timed /\ att[b].pc # "closed")
                 PROVE  FALSE
      BY DEF Busy
    <3>1. Chosen(b) /\ hls = 0 BY <2>3 DEF CameraInv, Calm
    <3>2. att[b].timed => att[b].timed = TRUE BY <1>1, Shape
    <3>3. QED BY <2>3, <3>1, <3>2 DEF Chosen
  <2>5. hurried' \in BOOLEAN BY <1>1, <1>2 DEF RTypeOK
  <2>6. QED BY <1>2, <2>1, <2>2, <2>4, <2>5, StartKeeps
<1>6. QED BY <1>3, <1>4, <1>5

-----------------------------------------------------------------------------
(* The theorems *)

LEMMA InvIsKept ==
  ASSUME CameraInv, [Next]_vars PROVE CameraInv'
<1>1. RTypeOK BY DEF CameraInv
<1>2. ASSUME NEW d \in Drones, Start(d) PROVE CameraInv'
  <2>1. StartFpvVideoStream(d) /\ UNCHANGED shows BY <1>2 DEF Start
  <2>2. hurried' \in BOOLEAN /\ (~hurried' => ~hurried /\ ~Busy) BY <1>2 DEF Start
  <2>3. QED BY <2>1, <2>2, StartKeeps
<1>3. CASE CloseFpvVideoStream BY <1>3, CloseFpvKeeps
<1>4. CASE TabShown
  <2>1. shows' \in 0 .. MaxShows BY <1>1, <1>4, RecoveryAssumption DEF TabShown, RTypeOK
  <2>2. ticks' \in 0 .. FrozenTicks - 1 BY <1>4, RecoveryAssumption DEF TabShown
  <2>3. RTypeOK' BY <1>1, <1>4, <2>1, <2>2 DEF TabShown, RTypeOK
  <2>4. QED BY <1>4, <2>3, PictureKeeps DEF TabShown
<1>5. CASE ProbeTick BY <1>5, ProbeTickKeeps
<1>6. CASE TickFrozen BY <1>6, TickFrozenKeeps
<1>7. CASE TickMoving
  <2>1. ticks' \in 0 .. FrozenTicks - 1 BY <1>7, RecoveryAssumption DEF TickMoving
  <2>2. RTypeOK' BY <1>1, <1>7, <2>1 DEF TickMoving, RTypeOK
  <2>3. QED BY <1>7, <2>2, PictureKeeps DEF TickMoving
<1>8. CASE PictureStops \/ PictureGoesOn
  <2>1. RTypeOK' BY <1>1, <1>8 DEF PictureStops, PictureGoesOn, page, RTypeOK
  <2>2. UNCHANGED <<att, active, peer, hls, probing, rooms, hurried>>
    BY <1>8 DEF PictureStops, PictureGoesOn, page
  <2>3. QED BY <2>1, <2>2, PictureKeeps
<1>9. ASSUME NEW a \in Attempts,
             ProbeTimesOut(a) \/ ManifestParsed(a) \/ WhepAnswers(a) \/ WhepFails(a)
             \/ TrackArrives(a) \/ InfoAnswers(a) \/ InfoFails(a) \/ ProbeAnswers(a)
             \/ ProbeFails(a) \/ HotSwap(a)
      PROVE  CameraInv'
  BY <1>9, ProbeTimesOutKeeps, ManifestParsedKeeps, WhepAnswersKeeps, WhepFailsKeeps,
     TrackArrivesKeeps, InfoAnswersKeeps, InfoFailsKeeps, ProbeAnswersKeeps,
     ProbeFailsKeeps, HotSwapKeeps
<1>10. CASE UNCHANGED vars
  <2>1. RTypeOK' BY <1>1, <1>10 DEF vars, page, RTypeOK
  <2>2. QED BY <1>10, <2>1, PictureKeeps DEF vars, page
<1>11. QED
  BY <1>2, <1>3, <1>4, <1>5, <1>6, <1>7, <1>8, <1>9, <1>10 DEF Next, User, Page, Network

\* The invariant of the camera holds in every state.
THEOREM CameraInvariant == Spec => []CameraInv
<1>1. Init => CameraInv BY InvHoldsFirst
<1>2. CameraInv /\ [Next]_vars => CameraInv' BY InvIsKept
<1>3. QED BY <1>1, <1>2, PTL DEF Spec

\* The state keeps its shape: no call of startFpvVideoStream leaves a count of
\* frozen ticks, a connection or a player outside it.
THEOREM TypeCorrect == Spec => []RTypeOK
<1>1. CameraInv => RTypeOK BY DEF CameraInv
<1>2. QED BY <1>1, CameraInvariant, PTL

\* isProbingWebRtc never sticks: whatever comes of the requests of a probe, its
\* six seconds still run when the flag is up.
THEOREM ProbeStaysTimed == Spec => []ProbeIsTimed
<1>1. CameraInv => ProbeIsTimed BY DEF CameraInv
<1>2. QED BY <1>1, CameraInvariant, PTL

\* As long as the user lets one thing end before the next, startFpvVideoStream,
\* the fallback and the probe leave nothing running beside the active drone.
THEOREM OnlyChosenStaysRunning == Spec => []OnlyChosenRuns
<1>1. CameraInv => OnlyChosenRuns
  <2> SUFFICES ASSUME CameraInv, ~hurried, NEW a \in Attempts
               PROVE  /\ att[a].pc \in {"open", "answered", "live"} =>
                           att[a].of = active /\ (a = peer \/ att[a].timed)
                      /\ att[a].player # "none" => att[a].of = active /\ a = hls
                      /\ (att[a].pc = "live") \/ att[a].player # "none" => att[a].of \in rooms
    BY DEF OnlyChosenRuns
  <2>1. Chosen(a) BY DEF CameraInv, Calm
  <2>2. QED BY <2>1 DEF Chosen, Open
<1>2. QED BY <1>1, CameraInvariant, PTL
=============================================================================
