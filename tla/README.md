# TLA+ models of the drone provisioning service

This directory specifies the parts of the repository whose correctness depends
on interleavings, failures and restarts, checks them with TLC on small
instances and proves some of the results with TLAPS. It is written for a
reader who has the repository at hand; paths are relative to its root, and
`fm/` stands for `drone-fleet-manager/src/`.

## The system

Drones boot, register over HTTP with the NestJS service *drone-fleet-manager*,
which gives each one a WireGuard key and a VPN address, and then send MAVLink
over the tunnel to the Go *telemetry-ingestion-service*. That service publishes
into Redis; the fleet manager relays to dashboards (Socket.IO) and to the C++
*pilot-bridge*, which hands MAVLink to a ground control station. Video runs
through MediaMTX. Node handlers are interrupted only at an `await`; several
handlers, the Redis callbacks, the event handlers of ssh2 and the Go service
run against each other through the shared stores.

| Component (code) | State | Operations | What must hold | Module |
|---|---|---|---|---|
| Provisioning (`fm/provisioning`) | handlers between two awaits; boot lists | `registerDevice` (new, rotation, refusal), `onModuleInit`, kernel synchronisation | no address or key reaches two drones; rollback and boot repair | `Provisioning` |
| IP pool (`fm/ip-pool`) | none (reads the table) | `allocateIp` | what it returns can be stored | `DeviceRegistry` |
| WireGuard (`fm/wireguard`) | peers in the kernel | add, remove, list peers; keys | the kernel routes what the table records | `DeviceRegistry` |
| Device registry (`fm/device`, `prisma/schema.prisma`) | the `Device` table, two unique columns | find, create, update, adopt kernel peers, bind identities | records keep their identity | `DeviceRegistry`, `IdentityBinding` |
| Redis client (`fm/redis`) | `drone:ip_map`, `drone:focus_set` | map, focus, heartbeats | the map agrees with the table | `DeviceRegistry`, `FocusRelay` |
| Dashboard API (`fm/dashboard`) | none | `createManualDevice`, reads | entering a drone loses no other | `IdentityBinding` |
| Onboard agent (`scripts/onboard-agent.sh` of the fleet manager) | `wg0.conf` | register, retry, OTA | ends with a configuration of its own | `Provisioning` |
| Address resolver (Go, `internal/resolver`) | local cache | `Resolve` | packets are attributed to their sender | `IdentityBinding` |
| Telemetry service (`fm/telemetry/telemetry.service.ts`) | discovered names, snapshot cache, the shared promise of readers | discovery, warm-up, heartbeat sweep, reads | telemetry takes no identity away; an outage is announced | `IdentityBinding` (discovery), `FleetCache` |
| Telemetry gateway | rooms, focused drones, owner cache | subscribe, unsubscribe, disconnect, broadcast | focus follows the viewers; telemetry goes to its owner | `FocusRelay`, `OwnerCache` |
| MAVLink relay gateway | pilots per drone, marked channels | handshake, disconnect, subscribe on demand | channels and focus follow the pilots | `FocusRelay` |
| Web SSH (`fm/web-ssh`) | map from socket to session | connect, input, close; ssh2 events | no session is lost or left open | `WebSsh` |
| Authentication and claims (`fm/auth`) | owners of drones | `claimDrone`; login | a drone has one owner | `OwnerCache` (claims) |
| Telemetry ingestion (Go: server, aggregator, filter, decoder, publisher) | snapshots, last sent, queue, focus map | receive, publish, flush, heartbeat check | the latest state wins, silence is noticed | `Ingestion` |
| Pilot Bridge, MAVLink side (C++) | socket, back-off timer, ground stations | connect, reconnect, relay | reconnects while on, is quiet after a logout | `PilotBridge` |
| Pilot Bridge, video side (C++) | WHEP session, offer flag | start, stop, callbacks of libdatachannel | an answer is of its own offer, no session stalls | `VideoRelay` |
| Pilot Bridge, windows and login (C++) | token, chosen drone | login, logout, list, buttons | buttons start and stop the same things | `PilotBridge` |
| Dashboard, video (JavaScript) and rooms of `VideoGateway` | connection, player, probe, watchdog | open, close, fall back, probe, recover | what was chosen runs, and nothing else | `VideoRecovery` |
| Dashboard, fleet list and socket (JavaScript) | fleet list of a browser | fetch, subscribe, apply messages | does not show a silent drone as online | `FleetCache` |
| Video proxy (`fm/video`), telemetry controller | none | reads, proxies | - | only as choices of their answers |
| Adaptive streaming (`scripts/drone_stream_adaptive.sh`) | encoder level | measure, step | - | not modelled |

What is hard here: a read, several awaits, then a write (registration,
binding, ownership checks); two stores written one after the other with a
rollback between (kernel and table, table and `drone:ip_map`); crashes of the
server or of its host between any two steps; agents that retry what was
already done; Redis callbacks that arrive after the next event; late events of
a connection that was replaced; caches whose entries outlive what they were
read from; goroutines that publish about one drone independently; browser code
that goes on after an `await` when the user has chosen something else. `PROJECT.json` lists these hazards at their
lines with the properties that would catch them.

## The modules

`DeviceRegistry` holds the shared stores and their operations: the table with
both unique indexes (`IpAdmitted`, `IdAdmitted`), cryptokey routing as a
function from address to key (adding a peer at an address takes the address
from any other peer, as the kernel does), the pool, and `drone:ip_map`. An
address is its last octet; a key is a number, generated in increasing order.

`Provisioning` extends it. A request is a process with a program counter, and
one action stands for the code between two awaits that do I/O: `AllocateIp`,
`GenerateKeypair`, `RemoveOldPeer`, `AddNewPeer`, `CreateDevice` /
`UpdateDevice`, `UndoPeer`, `RestoreOldPeer`, `MapIp`, `Reply`. Each may fail
as the code's `catch` branches provide (`FailsEarly`, `AddNewPeerFails`,
`StoreRefused`, `StoreFails`), each agent may lose the connection and call
again while the old request still runs, and a `Crash` of the process, or of
the host with the kernel's peers, may come anywhere, also during the boot
(`Boot`, `RestorePeer`, `ReadKernel`, `SyncPeer`, `Listen`). A request with a
wrong token changes nothing and is left out. `Revoke` is an operator's edit of
the table, which keeps the address or drops it.

`AddressLease` is the abstract promise: an address is leased to one device at
a time, a device has at most one, and no address passes from one to another in
one step. `LeaseSpec` in `Provisioning` is its specification under the mapping
that reads the leases off the table. A new row grants; a row locked for a
kernel peer grants to the temporary name; an operator who drops an address
releases; everything else stutters.

`IdentityBinding` extends `Provisioning` with `bindOrUpdateDeviceIdentity`,
whose callers are telemetry discovery and `createManualDevice`, and with the
resolver's cache. Discovery and the binding it starts are one action: between
the packet and the handler only the resolved name and the address travel. The
resolver answers from its cache until the entry expires, then from the map,
and makes up `DRONE-IP-...` when the map has no entry or Redis fails.

`FocusRelay` is the two gateways that share `drone:focus_set`, the marks of
subscribed raw channels and the two Redis connections. An action is a handler
up to its next await; a command is answered in order per connection. `loop`
tags a command with the socket whose `handleDisconnect` loop awaits it. The
handler of a socket that closes during its ownership lookup still goes on: the
`join` of a closed Socket.IO socket does nothing, so the drone enters
`drone:focus_set` with an empty room, which the auxiliary `orphaned` records
until somebody takes it out. A loop that is in progress over the set of focused
drones meets what is added to it.
`Opens` says which socket asks for which drone, `Prompt` names drones about
which Redis answers a subscription before the next pilot comes or goes.

`WebSsh` is the terminal: requests, lookups and the events of the ssh2 client.
Every event acts on the entry of its socket, whatever session that entry names
by then; that is what the code does and what the properties are about. ssh2
and the drone are external. The two lookups of `createSshSession` are one
wait. `Patient` names users who wait for one terminal to end before they ask
for the next; they may close the page at any time.

`Ingestion` is the Go service. Its goroutines meet in the aggregator, in the
bounded channel and in Redis. `Frame` is one pass of the receive loop
(`UpdateState`, `ShouldPublish`, `PublishTelemetry`): what the others do
between its three locks commutes with it. The heartbeat check has two
actions, since it lists the silent drones under the lock and publishes them
afterwards (`CheckHeartbeats`, `PublishNotice`). `FlushBatch` takes a batch out
of the channel and runs its pipeline, which may fail; `Stop` is a crash or
SIGTERM. A snapshot is the connection, the critical fields as one `mode` and
the rest as one `pos` in units of the deadband; times are ages that count up
to the largest one that the code compares with.

`FleetCache` goes on where `Ingestion` ends: the snapshot cache of the
telemetry service, its warm-up, the sweeper (`Sweep`), the readers of the REST
API that share one promise (`FleetRequest`, `FleetRead`, `FleetMerge`,
`FleetFail`) and what one administrator's browser shows. Messages reach a
subscriber at most once. An object of the cache is shared: a reader that finds
it stale marks it in place, as the code does. `withheld` notes drones of which
something was lost; the properties say exactly what the code owes the others.

`OwnerCache` is `claimDrone`, which reads, tests and writes, against the cache
of owners with which `broadcastTelemetry` chooses a room. `PilotBridge` extends
`VideoRelay`: Qt's main thread, with QWebSocket as Qt documents it, and the
worker thread of libdatachannel, whose callback tests two flags and then sets
and queues without a lock (`passed` is the position between). The attempts are
counted up to where `1000 * (1 << attempts)` no longer fits an `int`. The
auxiliary `lingers` records that the socket was being connected when the bridge
was stopped.

`VideoRecovery` is the camera of the dashboard. A call of
`startFpvVideoStream`, or a probe, is an attempt with its connection, the
request it awaits and the player it ends in; the page's globals name at most
one of each, and an attempt goes on whether a global names it or not.
`hurried` marks a user who acted while something was under way that
`closeFpvVideoStream` does not know of. `updateFpvStats` awaits `getStats()` and
is one action all the same: a close or a restart in between resets the
counters, and the frame count of the old connection that is written after it
is replaced by the next tick, which cannot take it for a frozen picture of the
new one.

The `MC...` modules give the constants their values, and the `..._proofs`
modules hold the proofs; `TelemetryGateway_proofs` those of `FocusRelay` and of
`OwnerCache`, `IdentityBinding_proofs` goes on from `Provisioning_proofs`.
Operators whose comment begins with "Mutant" are variants of a definition with
a plausible mistake; `PROJECT.json` pairs each with the property that must then
fail, and no specification uses them.

## The runs

| Run | Instance | Shows |
|---|---|---|
| `prov_races` | 2 drones, 2 handlers, 3 addresses of which one static, 2 calls each, 1 fault, 1 crash | `TypeOK`; a key has one address everywhere (`OneAddressPerKey`); a drone that was answered has the address of its own record (`DeliveredAddressIsOwn`); while no command fails, the pool offers a routed address only under a revoked record, or while a handler has routed it and not yet stored or taken it back (`OfferedIsUnrouted`); without a fault or crash every drone gets a configuration (`EveryDroneProvisioned`) |
| `prov_solo` | 1 handler, 3 calls, 1 fault or 2 crashes | rollback and boot leave the kernel as the table says (`TunnelsMatchTable`) |
| `prov_lease` | 2 addresses for 2 drones and a temporary record, 2 handlers, revocations of both kinds, 1 crash | `LeaseSpec`: the table implements `AddressLease`, also when the pool runs out |
| `prov_first_boot` | 2 drones register at once | violation of `ProvisionedIsReachable` |
| `bind_all` | 2 drones, 1 request, 1 binding at a time out of 2, one of them by hand, 1 crash | `BTypeOK`, with the record that each binding is about to change; `MapMatchesTable` and `MapNamesItsHolder` between handlers while nobody enters drones by hand and nothing fails; `KeyNotShared` also when they do, as nobody revokes; telemetry takes no identity away (`TelemetryKeepsIdentity`) |
| `focus_all` | 3 dashboards and 2 pilots on 3 drones, 2 commands in flight per connection, 1 refused command about the drone that is both watched and flown | `TypeOK`; a drone in the focus set has a viewer, unless a dashboard closed during its lookup (`FocusHasViewer`); `FocusFollowsPilots`; `SubscriptionFollowsPilots` |
| `ssh_all` | 2 sockets (one patient), 3 connections, 1 request per wait | `TypeOK`, `MappedIsLive`; a patient user loses no connection (`PatientIsMapped`), and what was connected while the socket was open ends after it closes, at any moment (`LeavingReleases`) |
| `ingest_all` | 1 drone, 2 contents of a frame, queue and batch of 2, 1 failing pipeline or end of the process, 1 change | `ITypeOK`; what the filter remembers is stored (`SentIsStored`); no online snapshot overtakes a notice (`OutageOnItsWay`); Redis and both channels follow a drone that goes on or stops (`StoreFollowsDrone`) |
| `fleet_all` | 1 drone, 2 faults | `FTypeOK`, `OnlineIsBacked`; a silent drone stops being shown online (`OutageIsShown`); readers are answered (`ReadersAreAnswered`) |
| `owner_all` | 2 pilots, 2 claims and 2 queries at a time, 1 failing query | `OTypeOK`, `OwnerAlone`, `OwnerIsServed` |
| `bridge_all` | 2 drones, 1 ground station, 2 video sessions, 2 lost connections | `PTypeOK`, `BridgeIsAlive`; after a logout nothing is on and the socket is closed or closing, but for one that was being connected (`LoggedOutIsQuiet`); `AnswerIsOwn`, `NoSilentStall` |
| `recovery_all` | 2 drones, 3 attempts at a time, frozen after 3 ticks, 1 return to the tab | `RTypeOK`, `OnlyChosenRuns`, `ProbeIsTimed`, `FrozenIsRecovered` |

**Bounds.** Two drones and two handlers are the least with which every race in
the code exists: two drones on one address, two requests of one drone, a
request against a revocation or a binding. Two calls per agent give a first
registration and a rotation that repeats it; `prov_solo` has three, so that a
rotation is repeated after its rollback. `MaxRow` and `MaxKey` exceed what the
other bounds can use, except in that a crash may make the boot lock an
address; three dashboards are the least with which the loop of
`handleDisconnect` passes a drone by, and each socket is used once because a
client that comes back is a new one. Three SSH connections let a late event of
the first meet the third. Where the bounds end a behaviour (agents that stop
calling, sockets that are spent), `CHECK_DEADLOCK FALSE` says so. Symmetry is
used in `prov_solo`, `bridge_all` and `focus_all` (whose two administrators open
the same drone), which check no temporal property.

A queue of two items is the least in which an item is overtaken, a batch holds
two items of one drone, and the queue is full; with one failing pipeline each
loss that the code allows happens. The drones do not meet in the ingestion
service but in its queue, where another drone's item only takes room, so one
drone shows what two would; the proofs are for any number. In `fleet_all` two
faults let a message be lost and the server restart, in either order (two
drones with one fault were checked for the safety properties once, 2.7 million
states). `MaxAttempts` is 0 in `bridge_all`: the second lost connection is
already one whose delay does not fit, so both sides of the bound are reached;
two sessions let a late callback and a late reply of the first meet the
second. Three attempts are an old one, its successor and a probe.

**Fairness.** `FairSpec` of `Provisioning` has weak fairness of every handler
and of the boot, which Node's event loop and systemd's restart give, and of an
agent that has no configuration, which `onboard-agent.sh` gives by its retry
loop and its systemd unit. No failure is ever obliged: `EveryDroneProvisioned`
assumes there is none. Its bound on calls equals the number of drones: two
first registrations that collide on an address leave one of them refused, and
the next call of that one succeeds. `FairSpec` of `WebSsh` has weak fairness of
the lookups and of the `close` event of a client that was ended, which ssh2
emits when its socket closes; nothing obliges a drone or a user to act.
`Ingestion` and `FleetCache` oblige goroutines, timers and promises, which the
Go runtime and Node schedule, and the passing of time. Pipelines must not fail
for ever (`WF` of `FlushBatch(TRUE)`), and a drone whose link is up goes on
sending messages that are decoded: strong fairness, since a link may come and
go. `OwnerCache` obliges the five-second timer, the queries and the telemetry
that asks for owners, `VideoRecovery` its two timers only. `PilotBridge` has no
fairness: what would be liveness there, that the bridge comes back, is stated
as the invariant `BridgeIsAlive`, that something is always there to bring it
back.

## Where the code and its documents disagree

One has a run that ends in a counterexample (`PROJECT.json`, `findings`, quotes
the promise): two first registrations are given one address, and the rollback
of the second leaves the first, which was answered with success, without a
tunnel (`prov_first_boot`).

The others below are what the code does, and so what the modules do. They have
no run of their own; the properties are stated so that they say precisely what
still holds.

*Registry.* The pool hands out the address of a revoked record that keeps it;
the unique index refuses it, for every new drone. A rotation in flight makes a
device active that was revoked meanwhile. Entering a drone at an address
deletes the record that holds it, also a real drone's. Telemetry under a
temporary name that was made up when Redis failed renames the record of a real
drone (`TelemetryKeepsIdentity` assumes no failing lookup).

*Focus and terminals.* `handleDisconnect` compares the sockets left in a room
with one after the leaving socket is out of it, so that one of two dashboards
takes the focus away; a dashboard does the same to a pilot of the other
gateway. A pilot who reconnects before the unsubscription is answered, or
leaves before the subscription is, leaves the mark and the subscription apart
(`Prompt`). A pilot who leaves during the ownership lookup is counted for good,
and a dashboard that closes during its lookup leaves the drone in the focus set
with an empty room (`orphaned`). The late `close` of a replaced SSH client
deletes the session that replaced it. A browser that closes during the lookups
of `createSshSession` leaves a connection that nobody closes but the drone
(`LeavingReleases` speaks of those made before the close).

*Ingestion and fleet.* On SIGTERM, `Close` cancels the context before the
remaining items are flushed with it, so that nothing is sent (`Stop`; the
comments at `internal/publisher/redis.go` 167, 271 and 358 promise a flush).
The one-second limit of the lite channel is applied within a batch and may
swallow an offline notice there; the notice also refreshes the drone's
heartbeat (line 199). If an offline notice is lost and a reader marks the
shared object before the sweeper comes, the outage is never broadcast
(`telemetry.service.ts` 375 and 415 against 112). A warm-up that fails leaves
the cache empty, and drones that browsers show online then are never swept
(`withheld`).

*Owners.* Two claims that both read before either writes are both told that
they succeeded (`lost`). The owner cache is never invalidated:
`setDeviceOwnerCache` has no caller, so that telemetry of a drone that was
deleted and found again goes to its former owner.

*Pilot Bridge.* After about 22 attempts the back-off overflows an `int`
(`WebSocketClient.cpp` 148; `WebSocketClient.h` promises to reconnect). A reply
of `fetchDevices` that comes after the logout starts the bridge with an empty
token (`late`). `disconnectFromServer` does not close a socket that is
connecting: after a logout it opens, joins with the former user's token and
stays until it drops (`lingers`). A refresh while flying resets the list to its first drone. An
error of the WHEP exchange leaves the relay running without another try. A
rejected token is tried again every second. A reply, or a queued offer, of an
old session is applied to the new connection (`hurried` of `VideoRelay`).

*Camera.* `startFpvVideoStream` sets the active drone before it closes the old
one, so that the room which it leaves is the new drone's and the old one's is
never left. Closing or switching during the handshake makes the closed
connection throw, and the HLS fallback starts for a drone nobody watches; its
player overwrites the other without destroying it; `watchLiveVideoForDrone`
starts a stream twice; `closeFpvVideoStream` does not know of a probe, which
then swaps the old drone's picture in (all under `hurried`). A picture that is
frozen before its first frame, or a connection that fails, is never recovered.
Logging out stops neither the camera nor the refresh of the list
(`public/js/core/auth.js` 34 to 40).

## What is proved

All constants are arbitrary within the named `ASSUME`s of the modules: any
number of drones, requests, addresses, calls, faults and crashes.

`Provisioning_proofs`:

- `TypeCorrect`: `Spec => []TypeOK`. `TypeOK` is not inductive: a rotation that
  allocates would need the type of an address it might not have. `Shape` adds
  what a handler has set by each position, and that an active record has an
  address, so that a rotation never allocates one.
- `KeysCarryOneAddress`: `Spec => []OneAddressPerKey`. The strengthening
  `KeyInv` says of every place where a key is found with an address
  (`Bound`) that the key was generated before, that a key of a static
  peer goes with its own address, and that the key has one address. It is
  inductive together with `TypeOK` and `Shape`: a step either binds nothing
  new, or copies a pair, or binds the fresh key to one address, or brings the
  static peers back.
- `TableImplementsLeases`: `Spec => LeaseSpec`, the whole refinement, initial
  states and steps. It rests on `TableInv`: the unique indexes on the address
  and on the identity hold, rows to come are empty, the record that a rotation
  under way has read still is its device's and has the address that was read or
  none, rotations of one record read the same address, and a temporary record
  locks its own address or none. Without the parts about rotations a late
  `UpdateDevice` could write an address over another one, which would be two
  steps of the abstraction at once. `StepTable` sorts every step into
  those that leave identities and addresses alone (`SameTable`), those that
  give a free address to a record without one (`GainStep`) and those that take
  one away (`Loses`); `SameLeases`, `GainGrants` and `LossReleases` map each to
  a stutter, a `Grant` or a `Release`.
- `DeliveredStaysOwn`: `Spec => []DeliveredAddressIsOwn`, assuming that
  `RevokeModes` has no `"drop"`: no operator takes the address out of a record.
  With it the property does not hold, and should not: the address of a
  retired drone is free again while that drone still has its old file. The
  strengthening `DeliverInv` adds the handlers that have stored the record and
  have not replied.
- `OfferedStaysUnrouted`: `Spec => []OfferedIsUnrouted`, under the same
  assumption. `RouteInv` adds the boot, during which an address that the kernel
  routes has a record or is on the boot's list; and that no handler runs while
  the server boots. That a rollback takes away its own route and no other is
  `KeyInv`. What an address that is offered and routed may then have is a record
  that the pool does not count, which is a revoked one, or a handler.
- `TunnelsStayMatched`: `Spec => [](faults <= 1 => TunnelsMatchTable)`, assuming
  a single handler: calls come one after the other. Of two rotations of one
  device the key stored last need not be the one routed last; with two failures
  both the new and the old peer of a rotation may be missing. Any crashes and
  revocations are allowed. `SoloInv` says that the address of a handler is its
  own, that what is stored is routed, and that an active record is rolled back
  after a failure only, so that the rollback itself cannot fail; `TunnelInv`
  that an active record's peer is in the kernel, on the boot's list or being
  replaced by the handler. That no command takes another record's peer along is
  `KeyInv` again (`OtherPeersStay`).

`IdentityBinding_proofs`:

- `BTypeCorrect`: `BSpec => []BTypeOK`. `BTypeOK` includes `BindersHave`, what a
  binding has set by each of its positions: an address, the record that it
  moves or renames, the one that it deletes. With `HandlersHave`, the same of
  the registrations, it is inductive.
- `MapStaysMatched`, `MapStaysTrue` (`MapMatchesTable`, `MapNamesItsHolder`) and
  `IdentityIsKept` (the action property `TelemetryKeepsIdentity`), assuming that
  no operator drops an address, from `CalmInv`: as long as nothing failed and
  nobody entered a drone by hand, every name in the map or in the resolver's
  cache is recorded at that address, or is a temporary name whose record the
  boot has made. So every binding finds the record that it asks for
  and ends there (`BindersInert`), and the step is one of `Provisioning`
  (`OnlyProvisioning`), whose invariants then carry over. What remains is the
  order of table and map: who stores a record maps it before it replies
  (`MapCovers`, `MappedAtReply`), and a static peer's address has its temporary
  record before the server listens (`StaticLocked`).
- `KeysStayApart`: `BSpec => []KeyNotShared`, assuming that nobody revokes, as
  the run does. Entered drones count here, so a binding may move or delete any
  record at any time, and none of the invariants of `Provisioning` that name
  records survives. `Apart` has what does: unique addresses, one address per
  key in the kernel, and that a key about to be stored is in no record
  (`PendingNew`). The hard part is the boot, which reads keys from the kernel
  into the table: a move leaves the kernel's route at the old address. It
  restores all peers of the table first, and `RestoreInv` says of every key
  that it is still on the list or routed to its record's address only, so that
  what the synchronisation reads is there already or is nobody's (`SyncInv`).
  A revoked record is not restored: moved and revoked, its key would be read
  back under its old address, so the theorem is false with revocations.

`WebSsh_proofs`:

- `TypeCorrect` and `MappedStaysLive`: `Spec => []MappedIsLive`, inductive with
  the types and the fact that every connection ever made has an owner. The
  lemmas `EndedEnds`, `UnmapKeeps` and `StartKeeps` say what closing and making
  a connection change; the step lemma cites them once per action.
- `PatientStaysMapped`: `Spec => []PatientIsMapped`. Not inductive, since a
  late event of an old connection clears the entry of the new one. `PatientInv`
  adds that a patient user has at most one connection that is not closed, at
  most one request waiting, and never both. The lemma `Quieter` covers all
  steps that make no connection; the rest are the three actions that do.

`Ingestion_proofs`:

- `OutageStaysOnItsWay` and `SentStaysStored`, from one invariant `IngestInv`.
  Both follow the newest item of a drone: it is in the heartbeat goroutine's
  hands, or the last of its drone in the queue, or in Redis with none queued.
  The newest item is described by its position (`Last`).
  `FlushBatchKeeps` has the three cases of a batch: no item of the drone, its
  newest item moves up, its newest item is in it.
- `IngestTypeCorrect`: `Spec => []ITypeOK`. That what a flush writes are
  snapshots of the batch needs the last and the first position of a set of
  positions, which `CHOOSE` names in the model (`Newest`, `Oldest`). Their
  existence would be an induction; `LastPosition` takes it instead from a
  minimal element of a well-founded order, the sets of positions beyond each
  one ordered by inclusion, which the library proves without an operator
  parameter.

`FleetCache_proofs`:

- `TypeCorrect` and `ShownStaysBacked`: `Spec => []OnlineIsBacked`. What a
  browser shows is backed only if nothing older can reach it again, so
  `CacheInv` adds the kept list, the states that a read under way has fetched,
  and the agreement of cache and `drone:states` up to evictions.

`TelemetryGateway_proofs`:

- `RelayTypeCorrect`, `FocusIsWatched`, `FocusIsOfPilots` and
  `SubscriptionIsOfPilots`, from one invariant `RelayInv` of `FocusRelay`. The
  three properties are about quiet moments and say nothing while commands wait
  for Redis. `WillHave` is what a set is going to be once they are answered:
  the last command that waits about a drone decides, and the set where there is
  none. `RelayInv` says of that what the properties say of the sets, adds the
  rooms that an interrupted loop of `handleDisconnect` has yet to leave, and
  that the mark of a channel agrees with the pilots that are counted. Sending a
  command and answering one are lemmas on sequences, cited by every handler. A
  dashboard that closed during its lookup counts as watching through
  `orphaned`, which lasts until a command takes the drone out (`TakeOutDecides`).
- `OwnerTypeCorrect` and `OwnerStaysAlone`. `OwnerAlone` says nothing of what is
  still on its way; `ReadsAreCurrent` adds that everything ever read, by a
  claim or a query, is nobody or the owner of now.

`PilotBridge_proofs`:

- `TypeCorrect`, `BridgeStaysAlive`, `LogoutIsQuiet`, `AnswersAreOwn` and
  `RelayNeverStalls`. Two arguments side by side: `OwnOffers`, that all that is
  under way is of the current session, with the properties of the relay; and
  that the socket is wanted exactly while the bridge is on, so that each of its
  ends leaves a timer or nobody who waits for one; a bridge that is off has a
  socket that is closed, closing or lingers (`LinkInv`). What the bridge does to the
  relay is one of four steps (`VideoEffect`), which the relay's lemmas cover
  once.

`VideoRecovery_proofs`:

- `TypeCorrect`, `ProbeStaysTimed` and `OnlyChosenStaysRunning`.
  `OnlyChosenRuns` is not inductive: a handshake that fails later starts a
  player. `CameraInv` tells the ways to a picture apart: while a handshake or a
  fallback is under way there is no player, a probe runs beside a player only
  and is alone, and a connection that was answered has no player beside it.
  `OneMovesKeeps` covers the handlers of one attempt, `StartKeeps` every call
  of `startFpvVideoStream`, also the watchdog's: a live connection is all there
  is, so its restart hurries nobody.

Only model-checked: the liveness properties (`EveryDroneProvisioned`,
`LeavingReleases`, `StoreFollowsDrone`, `OutageIsShown`, `ReadersAreAnswered`,
`OwnerIsServed`, `FrozenIsRecovered`): liveness under fairness is out of the
prover's reach. `ProvisionedIsReachable` is false, as `prov_first_boot` shows.
Every other property of the runs is stated by a theorem.

## What is not modelled

Contents of messages, keys and configuration files; token checks, registration
of users and logins (stateless cryptography over one insert); log lines;
`lastSeen` and `hardwareModel`; forwarding of MAVLink bytes, keys typed in a
terminal and video packets, which change no state; the read-only routes; the
raw MAVLink stream of the ingestion service, which has a buffer of its own; the
pruner of `droneChannels`, which only logs.

The telemetry controller, the video service and its controller pass requests on
and keep nothing: their answers are choices in `FleetCache`, `VideoRecovery`
and `VideoRelay`. The rest of `onboard-agent.sh` (OTA, fast boot, `wg-quick`)
acts on the drone's own files, one run at a time; `drone_stream_adaptive.sh` is
one process with one level between a first and a last. Tables, maps, the HUD
and dialogs of the dashboard are presentation.

## Plan

Done: `DeviceRegistry`, `Provisioning` with its abstraction `AddressLease`,
`IdentityBinding`, `FocusRelay`, `WebSsh`, `Ingestion`, `FleetCache`,
`OwnerCache`, `PilotBridge` with `VideoRelay`, `VideoRecovery`, and the proofs
above. Left, in this order:

1. An abstract specification of `Ingestion` followed by `FleetCache` - a
   register per drone that readers see in order - and the composition of the
   two, which are checked one after the other now.
2. The files of the onboard agent, if its OTA path gets a second process.
