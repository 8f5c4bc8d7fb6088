-------------------------- MODULE IdentityBinding ---------------------------
(***************************************************************************)
(* DeviceService.bindOrUpdateDeviceIdentity beside provisioning: the       *)
(* handler that ties a deviceId to an address, on behalf of                *)
(*                                                                         *)
(*   - telemetry.  The Go service names the sender of a packet by its      *)
(*     address, from drone:ip_map through IPResolver's cache or, when the  *)
(*     map does not answer, with the fallback DRONE-IP-...;                *)
(*     TelemetryService then records each name it has not seen yet;        *)
(*   - an operator who enters a device and an address on the dashboard     *)
(*     (createManualDevice).                                               *)
(*                                                                         *)
(* A handler reads, then writes, with an await between: requests, other    *)
(* bindings and crashes come in between.                                   *)
(***************************************************************************)
EXTENDS Provisioning

CONSTANTS
  Binders,      \* bindings that may be in flight together
  AdminInputs,  \* what operators enter: records [id, ip]
  MaxBinds,     \* bound: bindings ever started
  MaxEntered    \* bound: of them, the ones entered by operators

ASSUME BindingAssumption ==
  /\ AdminInputs \subseteq [id : Devices, ip : Ips]
  /\ MaxBinds \in Nat
  /\ MaxEntered \in Nat

VARIABLES
  bind,       \* bind[b]: the local variables and the position of binding b
  resolved,   \* resolved[ip]: IPResolver's localCache, or NoDevice
  discovered, \* TelemetryService.autoDiscoveredDevices
  binds,      \* bindings started so far
  entered     \* of them, the ones entered by operators

countVars == <<binds, entered>>
bindVars == <<bind, resolved, discovered, countVars>>
bvars == <<vars, bindVars>>

Binder ==
  [pc  : {"idle", "byId", "conflict", "delete", "move", "byIp", "rename", "create", "map"},
   id  : DeviceIds \cup {NoDevice},  \* realDeviceId
   ip  : Ips \cup {NoIp},            \* vpnIp
   own : Rows \cup {NoRow},          \* existingById.id, or existingByIp.id
   foe : Rows \cup {NoRow}]          \* conflictDevice.id

IdleBinder == [pc |-> "idle", id |-> NoDevice, ip |-> NoIp, own |-> NoRow, foe |-> NoRow]

\* What a binding has by each of its positions: its address from its start
\* on, the record that it found by name or by address, and the one to delete.
BinderHas(h) ==
  /\ h.pc # "idle" => h.ip \in Ips
  /\ h.pc \in {"conflict", "delete", "move", "rename"} => h.own \in Rows
  /\ h.pc = "delete" => h.foe \in Rows

BindersHave == \A b \in Binders : BinderHas(bind[b])

\* Every variable has its type, and no binding is about to move, rename or
\* delete without the record that bindOrUpdateDeviceIdentity looked up for it.
BTypeOK ==
  /\ TypeOK
  /\ bind \in [Binders -> Binder]
  /\ resolved \in [Ips -> DeviceIds \cup {NoDevice}]
  /\ discovered \subseteq DeviceIds
  /\ binds \in 0 .. MaxBinds
  /\ entered \in 0 .. MaxEntered
  /\ BindersHave

BInit ==
  /\ Init
  /\ bind = [b \in Binders |-> IdleBinder]
  /\ resolved = [ip \in Ips |-> NoDevice]
  /\ discovered = {}
  /\ binds = 0
  /\ entered = 0

BAt(b, pc) == bind[b].pc = pc
BGoto(b, pc) == bind' = [bind EXCEPT ![b].pc = pc]
Done(b) == bind' = [bind EXCEPT ![b] = IdleBinder]

-----------------------------------------------------------------------------
(* Where bindings come from *)

Start(b, id, ip) ==
  /\ phase = "up"
  /\ BAt(b, "idle")
  /\ binds < MaxBinds
  /\ binds' = binds + 1
  /\ bind' = [bind EXCEPT ![b] = [IdleBinder EXCEPT !.pc = "byId", !.id = id, !.ip = ip]]

\* Packets come from ip: whoever holds the private key of its peer, by hand
\* or from a wg0.conf that was delivered, sends them.
Sends(ip) ==
  /\ route[ip] # NoKey
  /\ \/ route[ip] = StaticRoute[ip]
     \/ \E d \in Devices : conf[d] = [key |-> route[ip], ip |-> ip]

\* IPResolver.Resolve: the cache has no entry for ip any more; the map names
\* the device, or does not (a Redis error reads the same).
Resolve(ip) ==
  /\ Sends(ip)
  /\ \/ resolved' = [resolved EXCEPT ![ip] = IF ipMap[ip] = NoDevice THEN TempId(ip)
                                                                    ELSE ipMap[ip]]
        /\ UNCHANGED faults
     \/ resolved' = [resolved EXCEPT ![ip] = TempId(ip)] /\ Fault
  /\ UNCHANGED <<registryVars, serverVars, agentVars, crashes, bind, discovered, countVars>>

\* Telemetry from ip, under the name the resolver has, that the server sees
\* for the first time.
Discover(b, ip) ==
  /\ Sends(ip)
  /\ resolved[ip] # NoDevice
  /\ resolved[ip] \notin discovered
  /\ discovered' = discovered \cup {resolved[ip]}
  /\ Start(b, resolved[ip], ip)
  /\ UNCHANGED <<vars, resolved, entered>>

\* The sweeper forgets a drone that was silent for MAX_CACHE_RETENTION_MS.
Forget(id) ==
  /\ id \in discovered
  /\ discovered' = discovered \ {id}
  /\ UNCHANGED <<vars, bind, resolved, countVars>>

\* createManualDevice
EnterManually(b, input) ==
  /\ entered < MaxEntered
  /\ entered' = entered + 1
  /\ Start(b, input.id, input.ip)
  /\ UNCHANGED <<vars, resolved, discovered>>

-----------------------------------------------------------------------------
(* One binding *)

\* findByDeviceId: known at this address, known elsewhere, or unknown.
FindById(b) ==
  /\ BAt(b, "byId")
  /\ \/ \E row \in RowsOfId(bind[b].id) :
          IF db[row].ip = bind[b].ip
            THEN Done(b)
            ELSE bind' = [bind EXCEPT ![b].pc = "conflict", ![b].own = row]
     \/ RowsOfId(bind[b].id) = {} /\ BGoto(b, "byIp")
  /\ UNCHANGED <<vars, resolved, discovered, countVars>>

\* findByVpnIp, for a known device that was seen at another address.
FindConflict(b) ==
  /\ BAt(b, "conflict")
  /\ \/ \E row \in RowsOfIp(bind[b].ip) \ {bind[b].own} :
          bind' = [bind EXCEPT ![b].pc = "delete", ![b].foe = row]
     \/ RowsOfIp(bind[b].ip) \subseteq {bind[b].own} /\ BGoto(b, "move")
  /\ UNCHANGED <<vars, resolved, discovered, countVars>>

\* prisma.device.delete of the record that has the address; it throws when
\* the record is gone.
DeleteConflict(b) ==
  /\ BAt(b, "delete")
  /\ IF Live(bind[b].foe)
       THEN db' = [db EXCEPT ![bind[b].foe] = EmptyRow] /\ BGoto(b, "move")
       ELSE UNCHANGED db /\ Done(b)
  /\ UNCHANGED <<nextRow, route, nextKey, ipMap, serverVars, agentVars, budgetVars,
                 resolved, discovered, countVars>>

\* updateDevice to the new address; it throws when Prisma refuses.
MoveDevice(b) ==
  LET row == bind[b].own
  IN  /\ BAt(b, "move")
      /\ IF CanUpdate(row, bind[b].ip)
           THEN /\ UpdateRow(row, bind[b].ip, db[row].key)
                /\ bind' = [bind EXCEPT ![b].pc = "map", ![b].id = db[row].id]
           ELSE UNCHANGED <<db, nextRow>> /\ Done(b)
      /\ UNCHANGED <<route, nextKey, ipMap, serverVars, agentVars, budgetVars,
                     resolved, discovered, countVars>>

\* findByVpnIp, for an unknown device.
FindByIp(b) ==
  /\ BAt(b, "byIp")
  /\ \/ \E row \in RowsOfIp(bind[b].ip) :
          bind' = [bind EXCEPT ![b].pc = "rename", ![b].own = row]
     \/ RowsOfIp(bind[b].ip) = {} /\ BGoto(b, "create")
  /\ UNCHANGED <<vars, resolved, discovered, countVars>>

\* The record that has the address takes the new name; Prisma throws when the
\* record is gone or the name is taken.
RenameDevice(b) ==
  LET row == bind[b].own
  IN  /\ BAt(b, "rename")
      /\ IF Live(row) /\ IdAdmitted(row, bind[b].id)
           THEN /\ db' = [db EXCEPT ![row].id = bind[b].id, ![row].status = "ACTIVE"]
                /\ BGoto(b, "map")
           ELSE UNCHANGED db /\ Done(b)
      /\ UNCHANGED <<nextRow, route, nextKey, ipMap, serverVars, agentVars, budgetVars,
                     resolved, discovered, countVars>>

\* createDevice without a WireGuard key.
CreateDiscovered(b) ==
  /\ BAt(b, "create")
  /\ IF CanCreate(bind[b].id, bind[b].ip)
       THEN CreateRow(bind[b].id, bind[b].ip, ManualKey) /\ BGoto(b, "map")
       ELSE UNCHANGED <<db, nextRow>> /\ Done(b)
  /\ UNCHANGED <<route, nextKey, ipMap, serverVars, agentVars, budgetVars,
                 resolved, discovered, countVars>>

\* mapIpToDevice; a Redis error is swallowed.
MapBoundId(b) ==
  /\ BAt(b, "map")
  /\ Done(b)
  /\ \/ MapIpToDevice(bind[b].ip, bind[b].id) /\ UNCHANGED faults
     \/ Fault /\ UNCHANGED ipMap
  /\ UNCHANGED <<db, nextRow, route, nextKey, serverVars, agentVars, crashes,
                 resolved, discovered, countVars>>

BindStep(b) ==
  \/ FindById(b) \/ FindConflict(b) \/ DeleteConflict(b) \/ MoveDevice(b)
  \/ FindByIp(b) \/ RenameDevice(b) \/ CreateDiscovered(b) \/ MapBoundId(b)

-----------------------------------------------------------------------------

\* The server dies with its bindings and its set of names; the Go service
\* keeps its cache unless the host dies too.
BCrash(host) ==
  /\ Crash(host)
  /\ bind' = [b \in Binders |-> IdleBinder]
  /\ discovered' = {}
  /\ resolved' = IF host THEN [ip \in Ips |-> NoDevice] ELSE resolved
  /\ UNCHANGED countVars

BNext ==
  \/ Step /\ UNCHANGED bindVars
  \/ \E host \in BOOLEAN : BCrash(host)
  \/ \E ip \in Ips : Resolve(ip)
  \/ \E b \in Binders, ip \in Ips : Discover(b, ip)
  \/ \E id \in DeviceIds : Forget(id)
  \/ \E b \in Binders, input \in AdminInputs : EnterManually(b, input)
  \/ \E b \in Binders : BindStep(b)

BSpec == BInit /\ [][BNext]_bvars

-----------------------------------------------------------------------------
(* Properties *)

BSettled == Settled /\ \A b \in Binders : BAt(b, "idle")
IsReal(id) == id \in Devices

\* As long as no operator enters a drone by hand, and no lookup fails, the
\* record of a drone under its hardware identity keeps that identity: what
\* telemetry renames, or deletes to make room, is a temporary record.
TelemetryKeepsIdentity ==
  [][entered' = 0 /\ faults' = 0 =>
       \A row \in Rows : IsReal(db[row].id) => db'[row].id = db[row].id]_bvars

\* Between handlers, as long as no write was lost, the map that names the
\* sender of every packet agrees with the table.
MapMatchesTable ==
  BSettled /\ faults = 0 /\ entered = 0 =>
    \A row \in ActiveRows : ipMap[db[row].ip] = db[row].id

\* Between handlers, as long as no write was lost, no name that the resolver
\* would look up belongs to a drone whose record is at another address.
MapNamesItsHolder ==
  BSettled /\ faults = 0 /\ entered = 0 =>
    \A ip \in Ips : IsReal(ipMap[ip]) =>
      \E row \in RowsOfId(ipMap[ip]) : db[row].ip = ip

\* As long as no command failed and nobody revokes (RevokeModes = {}), no two
\* records share a WireGuard key, whatever is entered, moved or deleted, and
\* wherever a boot finds the kernel and the table.  A boot restores the peers
\* of active records only: with revocations it may read the key of a revoked
\* and moved record back under its old address.
KeyNotShared ==
  faults = 0 => \A p, q \in Rows :
    p # q /\ IsRealKey(db[p].key) => db[p].key # db[q].key
=============================================================================
