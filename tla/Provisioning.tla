---------------------------- MODULE Provisioning ----------------------------
(***************************************************************************)
(* Zero-touch provisioning: POST /provisioning/register as                 *)
(* ProvisioningService runs it, the boot synchronisation of its            *)
(* onModuleInit, and the drones' onboard agents that call it.              *)
(*                                                                         *)
(* Every request is a process.  Node runs it without interruption up to    *)
(* the next await, so an action is what happens between two awaits that    *)
(* do I/O: one query, one `wg` command, one Redis write.  Requests of      *)
(* several drones interleave, and so do several requests of one drone      *)
(* when its agent lost the connection and tries again.                     *)
(*                                                                         *)
(* A command or a query may fail (the budget is MaxFaults), the server or  *)
(* its host may crash at any point (MaxCrashes).  A request with a wrong   *)
(* token changes nothing and is left out.                                  *)
(***************************************************************************)
EXTENDS DeviceRegistry

CONSTANTS
  Requests,    \* handlers that may be in flight together
  NoRequest,
  MaxTries,    \* bound: requests one drone's agent sends
  MaxFaults,   \* bound: commands and queries that fail
  MaxCrashes,  \* bound: crashes of the server or its host
  RevokeModes  \* what an operator's revocation does with vpnIp: "keep", "drop"

ASSUME ProvisioningAssumption ==
  /\ NoRequest \notin Requests
  /\ MaxTries \in Nat
  /\ MaxFaults \in Nat
  /\ MaxCrashes \in Nat
  /\ RevokeModes \subseteq {"keep", "drop"}

VARIABLES
  req,     \* req[r]: the local variables and the position of handler r
  phase,   \* the server process: "down", "restore", "sync" or "up"
  todo,    \* the peers the current boot phase still has to treat
  waits,   \* waits[d]: the request whose answer d's agent waits for
  conf,    \* conf[d]: the key and address in d's /etc/wireguard/wg0.conf
  tries,   \* tries[d]: requests d's agent has sent
  faults, crashes

serverVars == <<req, phase, todo>>
agentVars == <<waits, conf, tries>>
budgetVars == <<faults, crashes>>
vars == <<registryVars, serverVars, agentVars, budgetVars>>

Pc == {"idle", "allocate", "generate", "removeOld", "add", "restoreOld",
       "store", "undo", "map", "reply", "failed"}

Handler ==
  [pc  : Pc,
   dev : Devices \cup {NoDevice},    \* dto.deviceId
   row : Rows \cup {NoRow},          \* existingDevice.id
   ip  : Ips \cup {NoIp},            \* vpnIp
   old : Keys \cup {NoKey, ManualKey}, \* oldPublicKey
   key : Keys \cup {NoKey},          \* keypair
   id  : DeviceIds \cup {NoDevice}]  \* deviceId of the record Prisma returned

IdleHandler ==
  [pc |-> "idle", dev |-> NoDevice, row |-> NoRow, ip |-> NoIp,
   old |-> NoKey, key |-> NoKey, id |-> NoDevice]

Binding == [key : Keys, ip : Ips]
NoConf == [key |-> NoKey, ip |-> NoIp]

TypeOK ==
  /\ RegistryTypeOK
  /\ req \in [Requests -> Handler]
  /\ phase \in {"down", "restore", "sync", "up"}
  /\ todo \in SUBSET Binding
  /\ waits \in [Devices -> Requests \cup {NoRequest}]
  /\ conf \in [Devices -> Binding \cup {NoConf}]
  /\ tries \in [Devices -> 0 .. MaxTries]
  /\ faults \in 0 .. MaxFaults
  /\ crashes \in 0 .. MaxCrashes

\* A new installation: an empty table, the peers of wg0.conf in the kernel,
\* and a server that is about to boot.
Init ==
  /\ RegistryInit
  /\ req = [r \in Requests |-> IdleHandler]
  /\ phase = "down"
  /\ todo = {}
  /\ waits = [d \in Devices |-> NoRequest]
  /\ conf = [d \in Devices |-> NoConf]
  /\ tries = [d \in Devices |-> 0]
  /\ faults = 0
  /\ crashes = 0

Fault == faults < MaxFaults /\ faults' = faults + 1
IsRotation(r) == req[r].row # NoRow
At(r, pc) == req[r].pc = pc
Goto(r, pc) == req' = [req EXCEPT ![r].pc = pc]

-----------------------------------------------------------------------------
(* One request *)

\* A new device: allocate an address first.
StartNew(r, d) ==
  /\ RowsOfId(d) = {}
  /\ req' = [req EXCEPT ![r] = [IdleHandler EXCEPT !.pc = "allocate", !.dev = d]]

\* Mutant: a rotation allocates an address of its own.
RotationStartAfresh(row) == "allocate"

\* existingDevice.vpnIp || allocateIp()
RotationStart(row) == IF db[row].ip = NoIp THEN "allocate" ELSE "generate"

\* A known device that is not revoked: rotate its key, on the address it has.
StartRotation(r, d) ==
  \E row \in RowsOfId(d) :
    /\ db[row].status # "REVOKED"
    /\ req' = [req EXCEPT ![r] =
         [IdleHandler EXCEPT !.pc = RotationStart(row), !.dev = d,
                             !.row = row, !.ip = db[row].ip, !.old = db[row].key]]

\* A revoked device is refused with a conflict.
StartRefused(r, d) ==
  /\ \E row \in RowsOfId(d) : db[row].status = "REVOKED"
  /\ req' = [req EXCEPT ![r] = [IdleHandler EXCEPT !.pc = "failed", !.dev = d]]

\* An agent that waits for nothing calls the API; registerDevice looks the
\* device up.
RegisterDevice(r, d) ==
  /\ phase = "up"
  /\ At(r, "idle")
  /\ waits[d] = NoRequest
  /\ tries[d] < MaxTries
  /\ StartNew(r, d) \/ StartRotation(r, d) \/ StartRefused(r, d)
  /\ waits' = [waits EXCEPT ![d] = r]
  /\ tries' = [tries EXCEPT ![d] = @ + 1]
  /\ UNCHANGED <<registryVars, phase, todo, conf, budgetVars>>

\* allocateIp
AllocateIp(r) ==
  /\ At(r, "allocate")
  /\ \/ \E ip \in FreeIps :
          /\ SmallestFree(ip)
          /\ req' = [req EXCEPT ![r].pc = "generate", ![r].ip = ip]
     \/ FreeIps = {} /\ Goto(r, "failed")
  /\ UNCHANGED <<registryVars, phase, todo, agentVars, budgetVars>>

\* generateKeypair; a rotation goes on to remove the old peer.
GenerateKeypair(r) ==
  /\ At(r, "generate")
  /\ nextKey \in Keys
  /\ req' = [req EXCEPT ![r].pc = IF IsRotation(r) THEN "removeOld" ELSE "add",
                        ![r].key = nextKey]
  /\ nextKey' = nextKey + 1
  /\ UNCHANGED <<db, nextRow, route, ipMap, phase, todo, agentVars, budgetVars>>

\* The query of allocateIp or the `wg genkey` of generateKeypair fails, before
\* anything was changed.
FailsEarly(r) ==
  /\ req[r].pc \in {"allocate", "generate"}
  /\ Fault
  /\ Goto(r, "failed")
  /\ UNCHANGED <<registryVars, phase, todo, agentVars, crashes>>

\* removePeer(oldPublicKey), which swallows a failure of the command.
RemoveOldPeer(r) ==
  /\ At(r, "removeOld")
  /\ Goto(r, "add")
  /\ \/ RemovePeer(req[r].old) /\ UNCHANGED faults
     \/ Fault /\ UNCHANGED route
  /\ UNCHANGED <<db, nextRow, nextKey, ipMap, phase, todo, agentVars, crashes>>

\* addPeer(keypair.publicKey, vpnIp)
AddNewPeer(r) ==
  /\ At(r, "add")
  /\ AddPeer(req[r].key, req[r].ip)
  /\ Goto(r, "store")
  /\ UNCHANGED <<db, nextRow, nextKey, ipMap, phase, todo, agentVars, budgetVars>>

\* A failed rotation puts the old peer back.
AddNewPeerFails(r) ==
  /\ At(r, "add")
  /\ Fault
  /\ Goto(r, IF IsRotation(r) THEN "restoreOld" ELSE "failed")
  /\ UNCHANGED <<registryVars, phase, todo, agentVars, crashes>>

\* createDevice, when neither unique index refuses the row.
CreateDevice(r) ==
  /\ At(r, "store") /\ ~IsRotation(r)
  /\ CanCreate(req[r].dev, req[r].ip)
  /\ CreateRow(req[r].dev, req[r].ip, req[r].key)
  /\ req' = [req EXCEPT ![r].pc = "map", ![r].id = req[r].dev]
  /\ UNCHANGED <<route, nextKey, ipMap, phase, todo, agentVars, budgetVars>>

\* updateDevice, when the row is still there and vpnIp stays unique.
UpdateDevice(r) ==
  /\ At(r, "store") /\ IsRotation(r)
  /\ CanUpdate(req[r].row, req[r].ip)
  /\ UpdateRow(req[r].row, req[r].ip, req[r].key)
  /\ req' = [req EXCEPT ![r].pc = "map", ![r].id = db[req[r].row].id]
  /\ UNCHANGED <<route, nextKey, ipMap, phase, todo, agentVars, budgetVars>>

\* Prisma refuses the write.
StoreRefused(r) ==
  IF IsRotation(r) THEN ~CanUpdate(req[r].row, req[r].ip)
                   ELSE ~CanCreate(req[r].dev, req[r].ip)

\* Mutant: a refused write goes unnoticed.
StoreFailsUnnoticed(r) ==
  /\ At(r, "store")
  /\ Goto(r, "map")
  /\ StoreRefused(r)
  /\ UNCHANGED <<registryVars, phase, todo, agentVars, budgetVars>>

\* The write is refused, or the database fails: on to the rollback.
StoreFails(r) ==
  /\ At(r, "store")
  /\ Goto(r, "undo")
  /\ \/ StoreRefused(r) /\ UNCHANGED faults
     \/ Fault
  /\ UNCHANGED <<registryVars, phase, todo, agentVars, crashes>>

\* Mutant: the rollback of a rotation stops at the new peer.
UndoPeerOnly(r) ==
  /\ At(r, "undo")
  /\ Goto(r, "failed")
  /\ RemovePeer(req[r].key)
  /\ UNCHANGED <<db, nextRow, nextKey, ipMap, phase, todo, agentVars, budgetVars>>

\* Rollback: removePeer(keypair.publicKey), which swallows a failure.
UndoPeer(r) ==
  /\ At(r, "undo")
  /\ Goto(r, IF IsRotation(r) THEN "restoreOld" ELSE "failed")
  /\ \/ RemovePeer(req[r].key) /\ UNCHANGED faults
     \/ Fault /\ UNCHANGED route
  /\ UNCHANGED <<db, nextRow, nextKey, ipMap, phase, todo, agentVars, crashes>>

\* Rollback of a rotation: addPeer(oldPublicKey, vpnIp).catch(() => {})
RestoreOldPeer(r) ==
  /\ At(r, "restoreOld")
  /\ Goto(r, "failed")
  /\ \/ AddPeer(req[r].old, req[r].ip) /\ UNCHANGED faults
     \/ Fault /\ UNCHANGED route
  /\ UNCHANGED <<db, nextRow, nextKey, ipMap, phase, todo, agentVars, crashes>>

\* Mutant: createDevice and updateDevice leave the map alone.
MapIpSkipped(r) ==
  At(r, "map") /\ Goto(r, "reply")
    /\ UNCHANGED <<registryVars, phase, todo, agentVars, budgetVars>>

\* mapIpToDevice at the end of createDevice and updateDevice; a Redis error
\* is swallowed.
MapIp(r) ==
  /\ At(r, "map")
  /\ Goto(r, "reply")
  /\ \/ MapIpToDevice(req[r].ip, req[r].id) /\ UNCHANGED faults
     \/ Fault /\ UNCHANGED ipMap
  /\ UNCHANGED <<db, nextRow, route, nextKey, phase, todo, agentVars, crashes>>

\* The agent that still waits for this answer writes its wg0.conf.
Reply(r) ==
  LET d == req[r].dev
      heard == waits[d] = r
  IN  /\ At(r, "reply")
      /\ req' = [req EXCEPT ![r] = IdleHandler]
      /\ conf' = IF heard
                   THEN [conf EXCEPT ![d] = [key |-> req[r].key, ip |-> req[r].ip]]
                   ELSE conf
      /\ waits' = IF heard THEN [waits EXCEPT ![d] = NoRequest] ELSE waits
      /\ UNCHANGED <<registryVars, phase, todo, tries, budgetVars>>

\* An HTTP error: the agent, if it still waits, will call again.
ReplyError(r) ==
  LET d == req[r].dev
  IN  /\ At(r, "failed")
      /\ req' = [req EXCEPT ![r] = IdleHandler]
      /\ waits' = IF waits[d] = r THEN [waits EXCEPT ![d] = NoRequest] ELSE waits
      /\ UNCHANGED <<registryVars, phase, todo, conf, tries, budgetVars>>

Handle(r) ==
  \/ AllocateIp(r) \/ GenerateKeypair(r) \/ RemoveOldPeer(r)
  \/ AddNewPeer(r) \/ CreateDevice(r) \/ UpdateDevice(r) \/ StoreFails(r)
  \/ UndoPeer(r) \/ RestoreOldPeer(r) \/ MapIp(r)
  \/ Reply(r) \/ ReplyError(r)

-----------------------------------------------------------------------------
(* The agents, the operator and the failures *)

\* curl fails under the agent (connection lost): the handler goes on alone.
LoseConnection(d) ==
  /\ waits[d] # NoRequest
  /\ Fault
  /\ waits' = [waits EXCEPT ![d] = NoRequest]
  /\ UNCHANGED <<registryVars, serverVars, conf, tries, crashes>>

\* An operator revokes a device in the database.  No handler does.
Revoke(row, mode) ==
  /\ db[row].status = "ACTIVE"
  /\ db' = [db EXCEPT ![row].status = "REVOKED",
                      ![row].ip = IF mode = "drop" THEN NoIp ELSE @]
  /\ UNCHANGED <<nextRow, route, nextKey, ipMap, serverVars, agentVars, budgetVars>>

\* The server process dies, with every request in flight.  When the host
\* dies the kernel's peers go with it, down to those of wg0.conf.
Crash(host) ==
  /\ phase # "down"
  /\ crashes < MaxCrashes
  /\ crashes' = crashes + 1
  /\ req' = [r \in Requests |-> IdleHandler]
  /\ phase' = "down"
  /\ todo' = {}
  /\ waits' = [d \in Devices |-> NoRequest]
  /\ route' = IF host THEN StaticRoute ELSE route
  /\ UNCHANGED <<db, nextRow, nextKey, ipMap, conf, tries, faults>>

-----------------------------------------------------------------------------
(* Boot *)

\* The identity of the active device that has ip.
ActiveIds(ip) == {db[r].id : r \in {q \in ActiveRows : db[q].ip = ip}}

\* Mutant: the test for a real WireGuard key is inverted.
PeersToRestoreInverted ==
  {[key |-> db[r].key, ip |-> db[r].ip] : r \in {q \in ActiveRows : ~IsRealKey(db[q].key)}}

PeersToRestore ==
  {[key |-> db[r].key, ip |-> db[r].ip] : r \in {q \in ActiveRows : IsRealKey(db[q].key)}}

\* DeviceService.onModuleInit maps the active addresses into Redis, and
\* ProvisioningService.onModuleInit reads the active devices, of which the
\* ones with a real key are restored.  Redis may miss writes.
Boot ==
  /\ phase = "down"
  /\ ipMap' \in [Ips -> DeviceIds \cup {NoDevice}]
  /\ \A ip \in Ips : ipMap'[ip] \in ActiveIds(ip) \cup {ipMap[ip]}
  /\ \/ /\ \A ip \in Ips : ActiveIds(ip) # {} => ipMap'[ip] \in ActiveIds(ip)
        /\ UNCHANGED faults
     \/ Fault
  /\ todo' = PeersToRestore
  /\ phase' = "restore"
  /\ UNCHANGED <<db, nextRow, route, nextKey, req, agentVars, crashes>>

\* The database does not answer: the error is logged, nothing is restored.
BootFails ==
  /\ phase = "down"
  /\ Fault
  /\ phase' = "restore"
  /\ UNCHANGED <<registryVars, req, todo, agentVars, crashes>>

\* addPeer of one active device; a failure is logged and skipped.
RestorePeer(b) ==
  /\ phase = "restore"
  /\ todo' = todo \ {b}
  /\ \/ AddPeer(b.key, b.ip) /\ UNCHANGED faults
     \/ Fault /\ UNCHANGED route
  /\ UNCHANGED <<db, nextRow, nextKey, ipMap, req, phase, agentVars, crashes>>

\* Mutant: only the peers that the table knows are synchronised.
KernelPeersKnown ==
  {b \in Binding : route[b.ip] = b.key /\ \E row \in ActiveRows : db[row].key = b.key}

KernelPeers == {b \in Binding : route[b.ip] = b.key}

\* getLivePeerStats reads the kernel's peers; when that fails there are none.
ReadKernel ==
  /\ phase = "restore" /\ todo = {}
  /\ phase' = "sync"
  /\ \/ todo' = KernelPeers /\ UNCHANGED faults
     \/ Fault /\ todo' = {}
  /\ UNCHANGED <<registryVars, req, agentVars, crashes>>

\* syncManualKernelPeer, the address has a record: it takes the kernel's key.
AdoptKey(b, row) ==
  /\ Holds(row, b.ip)
  /\ IF db[row].key = b.key
       THEN UNCHANGED <<db, nextRow, ipMap>>
       ELSE UpdateRow(row, b.ip, b.key) /\ MapIpToDevice(b.ip, db[row].id)

\* syncManualKernelPeer, no record has the address: a temporary one locks it.
LockAddress(b) ==
  /\ RowsOfIp(b.ip) = {}
  /\ MapIpToDevice(b.ip, TempId(b.ip))
  /\ \/ \E row \in RowsOfId(TempId(b.ip)) : UpdateRow(row, b.ip, b.key)
     \/ RowsOfId(TempId(b.ip)) = {} /\ CreateRow(TempId(b.ip), b.ip, b.key)

\* One kernel peer; nothing else runs before the server listens, so the
\* queries of one peer are one action.  An error is logged and skipped.
SyncPeer(b) ==
  /\ phase = "sync"
  /\ todo' = todo \ {b}
  /\ \/ (\E row \in Rows : AdoptKey(b, row)) /\ UNCHANGED faults
     \/ LockAddress(b) /\ UNCHANGED faults
     \/ Fault /\ UNCHANGED <<db, nextRow, ipMap>>
  /\ UNCHANGED <<route, nextKey, req, phase, agentVars, crashes>>

\* The server listens.
Listen ==
  /\ phase = "sync" /\ todo = {}
  /\ phase' = "up"
  /\ UNCHANGED <<registryVars, req, todo, agentVars, budgetVars>>

BootStep ==
  \/ Boot \/ BootFails \/ ReadKernel \/ Listen
  \/ \E b \in todo : RestorePeer(b) \/ SyncPeer(b)

-----------------------------------------------------------------------------

\* A step of the running system.
Step ==
  \/ \E r \in Requests, d \in Devices : RegisterDevice(r, d)
  \/ \E r \in Requests :
       Handle(r) \/ FailsEarly(r) \/ AddNewPeerFails(r)
  \/ \E d \in Devices : LoseConnection(d)
  \/ \E row \in Rows, mode \in RevokeModes : Revoke(row, mode)
  \/ BootStep

Next == Step \/ \E host \in BOOLEAN : Crash(host)

Spec == Init /\ [][Next]_vars

\* An agent without a configuration keeps calling (systemd restarts it).
Unprovisioned(d) == conf[d] = NoConf

\* Node runs every handler on and finishes every boot; a drone that has no
\* configuration keeps calling.  Nothing obliges a failure.
FairSpec ==
  /\ Spec
  /\ WF_vars(BootStep)
  /\ \A r \in Requests : WF_vars(Handle(r))
  /\ \A d \in Devices :
       WF_vars(Unprovisioned(d) /\ \E r \in Requests : RegisterDevice(r, d))

-----------------------------------------------------------------------------
(* Properties *)

\* The server listens and no request is in flight.
Settled == phase = "up" /\ \A r \in Requests : At(r, "idle")

\* The leases that the table records.
LeaseOf(ip) ==
  IF RowsOfIp(ip) = {} THEN NoDevice
  ELSE db[CHOOSE row \in Rows : Holds(row, ip)].id

Lease == INSTANCE AddressLease
  WITH Addresses <- Ips, Ids <- DeviceIds, lease <- [ip \in Ips |-> LeaseOf(ip)]

\* The Device table implements the leases: requests that race, fail or are
\* cut off, crashes and boots never move an address from one device to
\* another, nor give a device a second one.
LeaseSpec == Lease!Spec

\* Every place that pairs a key with an address: the kernel, the table, the
\* handlers, the boot's list and the drones' wg0.conf.
Bindings ==
  {[key |-> route[ip], ip |-> ip] : ip \in Ips}
    \cup {[key |-> db[row].key, ip |-> db[row].ip] : row \in Rows}
    \cup {[key |-> req[r].key, ip |-> req[r].ip] : r \in Requests}
    \cup {[key |-> req[r].old, ip |-> req[r].ip] : r \in Requests}
    \cup {conf[d] : d \in Devices}
    \cup todo

\* A WireGuard key stands for one address wherever it is found - in the
\* kernel, in the table, in a request, in a drone's file - whatever requests
\* race, fail, are rolled back, or are cut off by a crash and a boot.  A key
\* never carries a drone over to the address of another one.
OneAddressPerKey ==
  \A a, b \in Bindings :
    a.key = b.key /\ IsRealKey(a.key) /\ a.ip # NoIp /\ b.ip # NoIp => a.ip = b.ip

\* A drone that was answered holds the address that the table records for
\* it, so no two drones ever configure the same address.
DeliveredAddressIsOwn ==
  \A d \in Devices : conf[d] # NoConf =>
    \E row \in RowsOfId(d) : db[row].ip = conf[d].ip

\* While no command fails, an address that the pool of a listening server offers
\* is one that the kernel does not route, with two exceptions: the pool does not
\* count a record that is revoked, and a handler routes its address before it
\* stores the record, and takes the route back after it was refused - during
\* which the next request is offered the same address.  A peer that a crash left
\* in the kernel is no exception: the boot locks its address before it listens.
OfferedIsUnrouted ==
  phase = "up" /\ faults = 0 =>
    \A ip \in FreeIps : route[ip] # NoKey =>
      \/ \E row \in RowsOfIp(ip) : db[row].status = "REVOKED"
      \/ \E r \in Requests : req[r].key = route[ip] /\ req[r].pc \in {"store", "undo"}

\* Between requests that came one at a time, the kernel routes every active
\* device's address to the key that the table records: a rotation that failed
\* half way was rolled back, and a boot repaired what crashes cut off, unless
\* the boot itself met a failure.
TunnelsMatchTable ==
  Settled /\ (faults = 0 \/ crashes = 0) => \A row \in ActiveRows :
    IsRealKey(db[row].key) => route[db[row].ip] = db[row].key

\* Between requests, a drone that was answered and waits for nothing is
\* reachable with the key and the address it was given.
ProvisionedIsReachable ==
  Settled /\ crashes = 0 =>
    \A d \in Devices : conf[d] # NoConf => route[conf[d].ip] = conf[d].key

\* Unless a command fails or the server crashes, every drone gets its
\* configuration in the end, however the drones' calls refuse each other.
EveryDroneProvisioned ==
  [](faults = 0 /\ crashes = 0) => \A d \in Devices : <>(conf[d] # NoConf)

=============================================================================
