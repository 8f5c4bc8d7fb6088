------------------------- MODULE Provisioning_proofs -------------------------
(***************************************************************************)
(* Proofs about Provisioning, for every set of devices and of requests,    *)
(* every pool and every bound: its types, that a key stands for one        *)
(* address, that the Device table implements AddressLease, that a drone    *)
(* that was answered keeps the address of its own record, that the pool    *)
(* offers an address that the kernel routes in two cases only, and, of     *)
(* registrations that come one at a time, that the kernel has the peers of *)
(* the active records.                                                     *)
(*                                                                         *)
(* All but the first two rest on TableInv: the unique indexes hold, a      *)
(* rotation that is under way names a record of its own device, which has  *)
(* lost its address at most, and a temporary record locks its own address  *)
(* or none.  A step then leaves every record's identity and address alone, *)
(* or gives an address that no record has to a record that has none, or is *)
(* an operator's revocation.                                               *)
(***************************************************************************)
EXTENDS Provisioning, TLAPS

USE RegistryAssumption, ProvisioningAssumption DEF Ips, Rows, Keys, NoIp, NoKey, NoRow, ManualKey

-----------------------------------------------------------------------------
(* What the registry's operations return *)

\* Routing an address to a peer, or removing a peer, leaves a peer table.
LEMMA PeerType ==
  ASSUME RegistryTypeOK, NEW k \in Keys \cup {NoKey, ManualKey}, NEW i,
         AddPeer(k, i) \/ RemovePeer(k)
  PROVE  route' \in [Ips -> Keys \cup {NoKey}]
<1>1. CASE IsRealKey(k)
  <2>1. k \in Keys BY <1>1 DEF IsRealKey
  <2>2. QED BY <1>1, <2>1 DEF AddPeer, RemovePeer, RouteWith, RouteWithout, RegistryTypeOK
<1>2. CASE ~IsRealKey(k)
  BY <1>2 DEF AddPeer, RemovePeer, RegistryTypeOK
<1>3. QED BY <1>1, <1>2

\* Inserting a row leaves a table.
LEMMA CreateRowType ==
  ASSUME RegistryTypeOK, NEW id \in DeviceIds \cup {NoDevice}, NEW ip \in Ips \cup {NoIp},
         NEW key \in Keys \cup {NoKey, ManualKey}, CreateRow(id, ip, key)
  PROVE  db' \in [Rows -> Row] /\ nextRow' \in 1 .. MaxRow + 1
<1>1. [status |-> "ACTIVE", id |-> id, ip |-> ip, key |-> key] \in Row
  BY DEF Row
<1>2. QED BY <1>1 DEF RegistryTypeOK, CreateRow

\* Updating a row leaves a table.
LEMMA UpdateRowType ==
  ASSUME RegistryTypeOK, NEW row \in Rows, NEW ip \in Ips \cup {NoIp},
         NEW key \in Keys \cup {NoKey, ManualKey}, UpdateRow(row, ip, key)
  PROVE  db' \in [Rows -> Row] /\ nextRow' \in 1 .. MaxRow + 1
<1>1. [db[row] EXCEPT !.status = "ACTIVE", !.ip = ip, !.key = key] \in Row
  <2>1. db[row] \in Row BY DEF RegistryTypeOK
  <2>2. QED BY <2>1 DEF Row
<1>2. QED BY <1>1 DEF RegistryTypeOK, UpdateRow

\* Mapping an address leaves a map.
LEMMA MapType ==
  ASSUME RegistryTypeOK, NEW ip, NEW id \in DeviceIds \cup {NoDevice},
         MapIpToDevice(ip, id)
  PROVE  ipMap' \in [Ips -> DeviceIds \cup {NoDevice}]
BY DEF RegistryTypeOK, MapIpToDevice

-----------------------------------------------------------------------------
(* Type correctness *)

\* What a handler has set by each of its positions: an address from its
\* allocation on, a key from its generation on.
HandlerHas(h) ==
  /\ h.pc \notin {"idle", "allocate", "failed"} => h.ip \in Ips
  /\ h.pc \in {"removeOld", "add", "store", "undo", "map", "reply"} => h.key \in Keys
  /\ h.pc \in {"idle", "allocate", "generate"} => h.key = NoKey
  /\ h.pc = "idle" \/ h.dev \in Devices

HandlersHave == \A r \in Requests : HandlerHas(req[r])

\* Only a new device allocates an address.
HandlerShape(h) ==
  /\ HandlerHas(h)
  /\ h.pc = "allocate" => h.row = NoRow /\ h.old = NoKey

\* Every active record has an address, so a rotation never allocates one.
Shape ==
  /\ \A r \in Requests : HandlerShape(req[r])
  /\ \A row \in Rows : db[row].status = "ACTIVE" => db[row].ip \in Ips

\* Moving a handler to a position leaves a table of handlers.
LEMMA GotoType ==
  ASSUME TypeOK, NEW r \in Requests, NEW pc \in Pc, Goto(r, pc)
  PROVE  req' \in [Requests -> Handler]
<1>1. req[r] \in Handler BY DEF TypeOK
<1>2. [req[r] EXCEPT !.pc = pc] \in Handler BY <1>1 DEF Handler
<1>3. QED BY <1>2 DEF TypeOK, Goto

\* The state before the first boot has its types.
LEMMA InitType == Init => TypeOK /\ Shape
<1>1. SUFFICES ASSUME Init PROVE TypeOK /\ Shape OBVIOUS
<1>2. RegistryTypeOK
  <2>1. EmptyRow \in Row BY DEF EmptyRow, Row
  <2>2. StaticRoute \in [Ips -> Keys \cup {NoKey}] BY DEF StaticRoute
  <2>3. QED BY <1>1, <2>1, <2>2 DEF Init, RegistryInit, RegistryTypeOK
<1>3. IdleHandler \in Handler BY DEF IdleHandler, Handler, Pc
<1>4. TypeOK BY <1>1, <1>2, <1>3 DEF Init, TypeOK
<1>5. Shape
  BY <1>1 DEF Init, RegistryInit, Shape, HandlerShape, HandlerHas, IdleHandler, EmptyRow
<1>6. QED BY <1>4, <1>5

\* A handler's steps keep the types.
LEMMA HandlerStepType ==
  ASSUME TypeOK, HandlersHave, NEW r \in Requests,
         Handle(r) \/ FailsEarly(r) \/ AddNewPeerFails(r)
  PROVE  TypeOK'
<1> USE DEF TypeOK, Fault, registryVars, agentVars, budgetVars
<1>0. /\ RegistryTypeOK
      /\ req[r] \in Handler
      /\ HandlerHas(req[r])
  BY DEF HandlersHave
<1>f. req[r].old \in Keys \cup {NoKey, ManualKey} /\ req[r].key \in Keys \cup {NoKey, ManualKey}
      /\ req[r].ip \in Ips \cup {NoIp}
  BY <1>0 DEF Handler
<1>1. CASE AllocateIp(r)
  <2>1. CASE FreeIps = {} /\ Goto(r, "failed")
    <3>1. req' \in [Requests -> Handler] BY <2>1, GotoType DEF Pc
    <3>2. QED BY <1>1, <3>1 DEF AllocateIp, RegistryTypeOK
  <2>2. CASE \E ip \in FreeIps : req' = [req EXCEPT ![r].pc = "generate", ![r].ip = ip]
    <3>1. PICK ip \in Ips : req' = [req EXCEPT ![r].pc = "generate", ![r].ip = ip]
      BY <2>2 DEF FreeIps
    <3>2. [req[r] EXCEPT !.pc = "generate", !.ip = ip] \in Handler
      BY <1>0 DEF Handler, Pc
    <3>3. req' \in [Requests -> Handler] BY <3>1, <3>2
    <3>4. QED BY <1>1, <3>3 DEF AllocateIp, RegistryTypeOK
  <2>3. QED BY <1>1, <2>1, <2>2 DEF AllocateIp
<1>2. CASE GenerateKeypair(r)
  <2>1. [req[r] EXCEPT !.pc = IF IsRotation(r) THEN "removeOld" ELSE "add", !.key = nextKey]
          \in Handler
    BY <1>0, <1>2 DEF Handler, Pc, GenerateKeypair
  <2>2. req' \in [Requests -> Handler] BY <1>2, <2>1 DEF GenerateKeypair
  <2>3. nextKey' \in EndIp + 1 .. MaxKey + 1
    BY <1>0, <1>2 DEF GenerateKeypair, RegistryTypeOK
  <2>4. QED BY <1>2, <2>2, <2>3 DEF GenerateKeypair, RegistryTypeOK
<1>3. CASE RemoveOldPeer(r)
  <2>1. req' \in [Requests -> Handler] BY <1>3, GotoType DEF RemoveOldPeer, Pc
  <2>2. route' \in [Ips -> Keys \cup {NoKey}]
    BY <1>0, <1>f, <1>3, PeerType DEF RemoveOldPeer, RegistryTypeOK
  <2>3. QED BY <1>3, <2>1, <2>2 DEF RemoveOldPeer, RegistryTypeOK
<1>4. CASE AddNewPeer(r)
  <2>1. req' \in [Requests -> Handler] BY <1>4, GotoType DEF AddNewPeer, Pc
  <2>2. route' \in [Ips -> Keys \cup {NoKey}]
    BY <1>0, <1>f, <1>4, PeerType DEF AddNewPeer
  <2>3. QED BY <1>4, <2>1, <2>2 DEF AddNewPeer, RegistryTypeOK
<1>5. CASE CreateDevice(r)
  <2>1. [req[r] EXCEPT !.pc = "map", !.id = req[r].dev] \in Handler
    BY <1>0 DEF Handler, Pc, DeviceIds
  <2>2. req' \in [Requests -> Handler] BY <1>5, <2>1 DEF CreateDevice
  <2>3. db' \in [Rows -> Row] /\ nextRow' \in 1 .. MaxRow + 1
    <3>1. req[r].dev \in DeviceIds \cup {NoDevice} BY <1>0 DEF Handler, DeviceIds
    <3>2. QED BY <1>0, <1>f, <1>5, <3>1, CreateRowType DEF CreateDevice
  <2>4. QED BY <1>5, <2>2, <2>3 DEF CreateDevice, RegistryTypeOK
<1>6. CASE UpdateDevice(r)
  <2>1. req[r].row \in Rows BY <1>0, <1>6 DEF UpdateDevice, IsRotation, Handler
  <2>2. db[req[r].row].id \in DeviceIds \cup {NoDevice}
    BY <1>0, <2>1 DEF RegistryTypeOK, Row
  <2>3. [req[r] EXCEPT !.pc = "map", !.id = db[req[r].row].id] \in Handler
    BY <1>0, <2>2 DEF Handler, Pc
  <2>4. req' \in [Requests -> Handler] BY <1>6, <2>3 DEF UpdateDevice
  <2>5. db' \in [Rows -> Row] /\ nextRow' \in 1 .. MaxRow + 1
    BY <1>0, <1>f, <1>6, <2>1, UpdateRowType DEF UpdateDevice
  <2>6. QED BY <1>6, <2>4, <2>5 DEF UpdateDevice, RegistryTypeOK
<1>7. CASE StoreFails(r)
  <2>1. req' \in [Requests -> Handler] BY <1>7, GotoType DEF StoreFails, Pc
  <2>2. QED BY <1>7, <2>1 DEF StoreFails, RegistryTypeOK
<1>8. CASE UndoPeer(r)
  <2>1. req' \in [Requests -> Handler] BY <1>8, GotoType DEF UndoPeer, Pc
  <2>2. route' \in [Ips -> Keys \cup {NoKey}]
    BY <1>0, <1>f, <1>8, PeerType DEF UndoPeer, RegistryTypeOK
  <2>3. QED BY <1>8, <2>1, <2>2 DEF UndoPeer, RegistryTypeOK
<1>9. CASE RestoreOldPeer(r)
  <2>1. req' \in [Requests -> Handler] BY <1>9, GotoType DEF RestoreOldPeer, Pc
  <2>2. route' \in [Ips -> Keys \cup {NoKey}]
    BY <1>0, <1>f, <1>9, PeerType DEF RestoreOldPeer, RegistryTypeOK
  <2>3. QED BY <1>9, <2>1, <2>2 DEF RestoreOldPeer, RegistryTypeOK
<1>10. CASE MapIp(r)
  <2>1. req' \in [Requests -> Handler] BY <1>10, GotoType DEF MapIp, Pc
  <2>2. req[r].id \in DeviceIds \cup {NoDevice} BY <1>0 DEF Handler
  <2>3. ipMap' \in [Ips -> DeviceIds \cup {NoDevice}]
    BY <1>0, <1>10, <2>2, MapType DEF MapIp, RegistryTypeOK
  <2>4. QED BY <1>10, <2>1, <2>3 DEF MapIp, RegistryTypeOK
<1>11. CASE Reply(r)
  <2>1. IdleHandler \in Handler BY DEF IdleHandler, Handler, Pc
  <2>2. [key |-> req[r].key, ip |-> req[r].ip] \in Binding
    BY <1>0, <1>11 DEF Reply, At, HandlerHas, Binding
  <2>3. QED BY <1>11, <2>1, <2>2 DEF Reply, RegistryTypeOK
<1>12. CASE ReplyError(r)
  <2>1. IdleHandler \in Handler BY DEF IdleHandler, Handler, Pc
  <2>2. QED BY <1>12, <2>1 DEF ReplyError, RegistryTypeOK
<1>13. CASE FailsEarly(r)
  <2>1. req' \in [Requests -> Handler] BY <1>13, GotoType DEF FailsEarly, Pc
  <2>2. QED BY <1>13, <2>1 DEF FailsEarly, RegistryTypeOK
<1>14. CASE AddNewPeerFails(r)
  <2>1. req' \in [Requests -> Handler] BY <1>14, GotoType DEF AddNewPeerFails, Pc
  <2>2. QED BY <1>14, <2>1 DEF AddNewPeerFails, RegistryTypeOK
<1>15. QED BY <1>1, <1>2, <1>3, <1>4, <1>5, <1>6, <1>7, <1>8, <1>9, <1>10, <1>11, <1>12,
             <1>13, <1>14 DEF Handle

\* The agents' and the operator's steps keep the types.
LEMMA AgentStepType ==
  ASSUME TypeOK, HandlersHave,
         \/ \E r \in Requests, d \in Devices : RegisterDevice(r, d)
         \/ \E d \in Devices : LoseConnection(d)
         \/ \E row \in Rows, mode \in RevokeModes : Revoke(row, mode)
         \/ \E host \in BOOLEAN : Crash(host)
  PROVE  TypeOK'
<1> USE DEF TypeOK, Fault, registryVars, serverVars, agentVars, budgetVars
<1>1. ASSUME NEW r \in Requests, NEW d \in Devices, RegisterDevice(r, d)
      PROVE  TypeOK'
  <2>1. req' \in [Requests -> Handler]
    <3>1. CASE StartNew(r, d)
      <4>1. [IdleHandler EXCEPT !.pc = "allocate", !.dev = d] \in Handler
        BY DEF IdleHandler, Handler, Pc
      <4>2. QED BY <3>1, <4>1 DEF StartNew
    <3>2. CASE StartRotation(r, d)
      <4>1. PICK row \in Rows :
              req' = [req EXCEPT ![r] =
                [IdleHandler EXCEPT !.pc = RotationStart(row), !.dev = d,
                                    !.row = row, !.ip = db[row].ip, !.old = db[row].key]]
        BY <3>2 DEF StartRotation, RowsOfId
      <4>2. db[row] \in Row BY DEF RegistryTypeOK
      <4>3. [IdleHandler EXCEPT !.pc = RotationStart(row), !.dev = d,
                                !.row = row, !.ip = db[row].ip, !.old = db[row].key]
              \in Handler
        BY <4>2 DEF IdleHandler, Handler, Pc, Row, RotationStart
      <4>4. QED BY <4>1, <4>3
    <3>3. CASE StartRefused(r, d)
      <4>1. [IdleHandler EXCEPT !.pc = "failed", !.dev = d] \in Handler
        BY DEF IdleHandler, Handler, Pc
      <4>2. QED BY <3>3, <4>1 DEF StartRefused
    <3>4. QED BY <1>1, <3>1, <3>2, <3>3 DEF RegisterDevice
  <2>2. tries' \in [Devices -> 0 .. MaxTries] BY <1>1 DEF RegisterDevice
  <2>3. QED BY <1>1, <2>1, <2>2 DEF RegisterDevice, RegistryTypeOK
<1>2. ASSUME NEW d \in Devices, LoseConnection(d) PROVE TypeOK'
  BY <1>2 DEF LoseConnection, RegistryTypeOK
<1>3. ASSUME NEW row \in Rows, NEW mode \in RevokeModes, Revoke(row, mode) PROVE TypeOK'
  <2>1. db[row] \in Row BY DEF RegistryTypeOK
  <2>2. [db[row] EXCEPT !.status = "REVOKED", !.ip = IF mode = "drop" THEN NoIp ELSE @] \in Row
    BY <2>1 DEF Row
  <2>3. db' \in [Rows -> Row] BY <1>3, <2>2 DEF Revoke, RegistryTypeOK
  <2>4. QED BY <1>3, <2>3 DEF Revoke, RegistryTypeOK
<1>4. ASSUME NEW host \in BOOLEAN, Crash(host) PROVE TypeOK'
  <2>1. IdleHandler \in Handler BY DEF IdleHandler, Handler, Pc
  <2>2. StaticRoute \in [Ips -> Keys \cup {NoKey}] BY DEF StaticRoute
  <2>3. QED BY <1>4, <2>1, <2>2 DEF Crash, RegistryTypeOK
<1>5. QED BY <1>1, <1>2, <1>3, <1>4

\* The identity of a temporary record is an identity.
LEMMA TempIdType == \A ip \in Ips : TempId(ip) \in DeviceIds
BY DEF DeviceIds

\* The steps of a boot keep the types.
LEMMA BootStepType ==
  ASSUME TypeOK, HandlersHave, BootStep
  PROVE  TypeOK'
<1> USE DEF TypeOK, Fault, registryVars, agentVars, budgetVars
<1>1. CASE Boot
  <2>1. PeersToRestore \in SUBSET Binding
    <3>1. SUFFICES ASSUME NEW row \in ActiveRows, IsRealKey(db[row].key)
                   PROVE  [key |-> db[row].key, ip |-> db[row].ip] \in Binding
      BY DEF PeersToRestore
    <3>2. db[row] \in Row BY DEF ActiveRows, RegistryTypeOK
    <3>3. db[row].key \in Keys BY <3>1, <3>2 DEF Row, IsRealKey
    <3>4. db[row].ip \in Ips BY <3>2 DEF ActiveRows, Row
    <3>5. QED BY <3>3, <3>4 DEF Binding
  <2>2. QED BY <1>1, <2>1 DEF Boot, RegistryTypeOK
<1>2. CASE BootFails
  BY <1>2 DEF BootFails, RegistryTypeOK
<1>3. CASE ReadKernel
  <2>1. KernelPeers \in SUBSET Binding BY DEF KernelPeers
  <2>2. todo' \in SUBSET Binding BY <1>3, <2>1 DEF ReadKernel
  <2>3. QED BY <1>3, <2>2 DEF ReadKernel, RegistryTypeOK
<1>4. CASE Listen
  BY <1>4 DEF Listen, RegistryTypeOK
<1>5. ASSUME NEW b \in todo, RestorePeer(b) PROVE TypeOK'
  <2>1. b.key \in Keys BY DEF Binding
  <2>2. route' \in [Ips -> Keys \cup {NoKey}]
    BY <1>5, <2>1, PeerType DEF RestorePeer, RegistryTypeOK
  <2>3. QED BY <1>5, <2>2 DEF RestorePeer, RegistryTypeOK
<1>6. ASSUME NEW b \in todo, SyncPeer(b) PROVE TypeOK'
  <2>0. b.key \in Keys /\ b.ip \in Ips BY DEF Binding
  <2> DEFINE Typed == /\ db' \in [Rows -> Row]
                      /\ nextRow' \in 1 .. MaxRow + 1
                      /\ ipMap' \in [Ips -> DeviceIds \cup {NoDevice}]
  <2>1. Typed
    <3>1. ASSUME NEW row \in Rows, AdoptKey(b, row) PROVE Typed
      <4>1. db[row].id \in DeviceIds \cup {NoDevice} BY DEF RegistryTypeOK, Row
      <4>2. QED BY <2>0, <3>1, <4>1, UpdateRowType, MapType DEF AdoptKey, RegistryTypeOK
    <3>2. CASE LockAddress(b)
      <4>1. TempId(b.ip) \in DeviceIds BY <2>0, TempIdType
      <4>2. ipMap' \in [Ips -> DeviceIds \cup {NoDevice}]
        BY <3>2, <4>1, MapType DEF LockAddress
      <4>3. db' \in [Rows -> Row] /\ nextRow' \in 1 .. MaxRow + 1
        BY <2>0, <3>2, <4>1, CreateRowType, UpdateRowType DEF LockAddress, RowsOfId
      <4>4. QED BY <4>2, <4>3
    <3>3. CASE UNCHANGED <<db, nextRow, ipMap>>
      BY <3>3 DEF RegistryTypeOK
    <3>4. QED BY <1>6, <3>1, <3>2, <3>3 DEF SyncPeer
  <2>2. QED BY <1>6, <2>1 DEF SyncPeer, RegistryTypeOK
<1>7. QED BY <1>1, <1>2, <1>3, <1>4, <1>5, <1>6 DEF BootStep

\* A handler has what its position needs after every step.
LEMMA HandlersHaveKept ==
  ASSUME TypeOK, HandlersHave, Next
  PROVE  HandlersHave'
<1>0. req \in [Requests -> Handler] /\ RegistryTypeOK BY DEF TypeOK
<1>1. ASSUME NEW r \in Requests, Handle(r) \/ FailsEarly(r) \/ AddNewPeerFails(r)
      PROVE  HandlersHave'
  <2>0. req[r] \in Handler /\ HandlerHas(req[r]) BY <1>0 DEF HandlersHave
  <2>1. \A q \in Requests \ {r} : req'[q] = req[q]
    BY <1>0, <1>1 DEF Handle, AllocateIp, GenerateKeypair, RemoveOldPeer, AddNewPeer,
      CreateDevice, UpdateDevice, StoreFails, UndoPeer, RestoreOldPeer, MapIp, Reply,
      ReplyError, FailsEarly, AddNewPeerFails, Goto
  <2>2. HandlerHas(req'[r])
    <3>1. CASE AllocateIp(r) \/ GenerateKeypair(r)
      BY <1>0, <2>0, <3>1 DEF AllocateIp, GenerateKeypair, Goto, At, FreeIps, HandlerHas, Handler
    <3>2. CASE \/ RemoveOldPeer(r) \/ AddNewPeer(r) \/ StoreFails(r) \/ UndoPeer(r)
               \/ RestoreOldPeer(r) \/ MapIp(r) \/ FailsEarly(r) \/ AddNewPeerFails(r)
      BY <1>0, <2>0, <3>2 DEF RemoveOldPeer, AddNewPeer, StoreFails, UndoPeer, RestoreOldPeer,
        MapIp, FailsEarly, AddNewPeerFails, Goto, At, HandlerHas, Handler
    <3>3. CASE CreateDevice(r) \/ UpdateDevice(r)
      BY <1>0, <2>0, <3>3 DEF CreateDevice, UpdateDevice, At, HandlerHas, Handler
    <3>4. CASE Reply(r) \/ ReplyError(r)
      BY <1>0, <3>4 DEF Reply, ReplyError, IdleHandler, HandlerHas
    <3>5. QED BY <1>1, <3>1, <3>2, <3>3, <3>4 DEF Handle
  <2>3. QED BY <2>1, <2>2 DEF HandlersHave
<1>2. ASSUME NEW r \in Requests, NEW d \in Devices, RegisterDevice(r, d)
      PROVE  HandlersHave'
  <2>1. \A q \in Requests \ {r} : req'[q] = req[q]
    BY <1>0, <1>2 DEF RegisterDevice, StartNew, StartRotation, StartRefused
  <2>2. HandlerHas(req'[r])
    <3>1. CASE StartNew(r, d)
      BY <1>0, <3>1 DEF StartNew, IdleHandler, HandlerHas
    <3>2. CASE StartRefused(r, d)
      BY <1>0, <3>2 DEF StartRefused, IdleHandler, HandlerHas
    <3>3. CASE StartRotation(r, d)
      <4>1. PICK row \in RowsOfId(d) :
              req' = [req EXCEPT ![r] =
                [IdleHandler EXCEPT !.pc = RotationStart(row), !.dev = d,
                                    !.row = row, !.ip = db[row].ip, !.old = db[row].key]]
        BY <3>3 DEF StartRotation
      <4>2. db[row].ip \in Ips \cup {NoIp} BY <1>0 DEF RowsOfId, RegistryTypeOK, Row
      <4>3. QED BY <1>0, <4>1, <4>2 DEF RotationStart, IdleHandler, HandlerHas
    <3>4. QED BY <1>2, <3>1, <3>2, <3>3 DEF RegisterDevice
  <2>3. QED BY <2>1, <2>2 DEF HandlersHave
<1>3. ASSUME NEW host \in BOOLEAN, Crash(host) PROVE HandlersHave'
  BY <1>3 DEF Crash, HandlersHave, HandlerHas, IdleHandler
<1>4. CASE UNCHANGED req BY <1>4 DEF HandlersHave
<1>5. QED
  BY <1>1, <1>2, <1>3, <1>4 DEF Next, Step, LoseConnection, Revoke, BootStep, Boot, BootFails,
    ReadKernel, Listen, RestorePeer, SyncPeer, serverVars

\* Types are inductive with what the handlers have.
LEMMA TypesKept == TypeOK /\ HandlersHave /\ [Next]_vars => TypeOK' /\ HandlersHave'
<1> SUFFICES ASSUME TypeOK, HandlersHave, [Next]_vars PROVE TypeOK' /\ HandlersHave'
  OBVIOUS
<1>1. CASE Next
  BY <1>1, HandlerStepType, AgentStepType, BootStepType, HandlersHaveKept DEF Next, Step
<1>2. CASE UNCHANGED vars
  BY <1>2 DEF vars, registryVars, serverVars, agentVars, budgetVars, TypeOK, HandlersHave,
              RegistryTypeOK
<1>3. QED BY <1>1, <1>2

\* A handler's steps keep the shape of the handlers and of the table.
LEMMA HandlerStepShape ==
  ASSUME TypeOK, Shape, HandlersHave', NEW r \in Requests,
         Handle(r) \/ FailsEarly(r) \/ AddNewPeerFails(r)
  PROVE  Shape'
<1> USE DEF registryVars, agentVars, budgetVars
<1>0. /\ RegistryTypeOK
      /\ req \in [Requests -> Handler]
      /\ req[r] \in Handler
      /\ HandlerShape(req[r])
  BY DEF Shape, TypeOK
<1>1. \A q \in Requests : HandlerShape(req'[q])
  <2>1. \A q \in Requests \ {r} : req'[q] = req[q]
    BY <1>0 DEF Handle, AllocateIp, GenerateKeypair, RemoveOldPeer, AddNewPeer, CreateDevice,
          UpdateDevice, StoreFails, UndoPeer, RestoreOldPeer, MapIp, Reply, ReplyError,
          FailsEarly, AddNewPeerFails, Goto
  <2>2. req'[r].pc # "allocate"
    BY <1>0 DEF Handle, AllocateIp, GenerateKeypair, RemoveOldPeer, AddNewPeer, CreateDevice,
          UpdateDevice, StoreFails, UndoPeer, RestoreOldPeer, MapIp, Reply, ReplyError,
          FailsEarly, AddNewPeerFails, Goto, IdleHandler, Handler
  <2>3. QED BY <2>1, <2>2 DEF HandlersHave, HandlerShape, Shape
<1>2. \A row \in Rows : db'[row].status = "ACTIVE" => db'[row].ip \in Ips
  <2>1. CASE CreateDevice(r)
    BY <1>0, <2>1 DEF CreateDevice, CreateRow, At, HandlerShape, HandlerHas, Shape, RegistryTypeOK
  <2>2. CASE UpdateDevice(r)
    BY <1>0, <2>2 DEF UpdateDevice, UpdateRow, At, HandlerShape, HandlerHas, Shape,
      RegistryTypeOK, Row
  <2>3. CASE UNCHANGED db
    BY <2>3 DEF Shape
  <2>4. QED
    BY <2>1, <2>2, <2>3 DEF Handle, AllocateIp, GenerateKeypair, RemoveOldPeer, AddNewPeer,
          StoreFails, UndoPeer, RestoreOldPeer, MapIp, Reply, ReplyError,
          FailsEarly, AddNewPeerFails
<1>3. QED BY <1>1, <1>2 DEF Shape

\* Every other step keeps the shape of the handlers and of the table.
LEMMA EnvironmentStepShape ==
  ASSUME TypeOK, Shape, HandlersHave',
         \/ \E r \in Requests, d \in Devices : RegisterDevice(r, d)
         \/ \E d \in Devices : LoseConnection(d)
         \/ \E row \in Rows, mode \in RevokeModes : Revoke(row, mode)
         \/ \E host \in BOOLEAN : Crash(host)
         \/ BootStep
  PROVE  Shape'
<1> USE DEF registryVars, serverVars, agentVars, budgetVars
<1>0. /\ RegistryTypeOK
      /\ req \in [Requests -> Handler]
  BY DEF TypeOK
<1>1. ASSUME NEW r \in Requests, NEW d \in Devices, RegisterDevice(r, d)
      PROVE  Shape'
  <2>1. \A q \in Requests \ {r} : req'[q] = req[q]
    BY <1>0, <1>1 DEF RegisterDevice, StartNew, StartRotation, StartRefused
  <2>2. req'[r].pc = "allocate" => req'[r].row = NoRow /\ req'[r].old = NoKey
    <3>1. CASE StartNew(r, d) \/ StartRefused(r, d)
      BY <1>0, <3>1 DEF StartNew, StartRefused, IdleHandler
    <3>2. CASE StartRotation(r, d)
      <4>1. PICK row \in RowsOfId(d) :
              /\ db[row].status # "REVOKED"
              /\ req' = [req EXCEPT ![r] =
                   [IdleHandler EXCEPT !.pc = RotationStart(row), !.dev = d,
                                       !.row = row, !.ip = db[row].ip, !.old = db[row].key]]
        BY <3>2 DEF StartRotation
      <4>2. db[row].ip \in Ips
        BY <1>0, <4>1 DEF RowsOfId, Live, RegistryTypeOK, Row, Shape
      <4>3. QED BY <1>0, <4>1, <4>2 DEF RotationStart, IdleHandler
    <3>3. QED BY <1>1, <3>1, <3>2 DEF RegisterDevice
  <2>3. UNCHANGED db BY <1>1 DEF RegisterDevice
  <2>4. QED BY <2>1, <2>2, <2>3 DEF Shape, HandlersHave, HandlerShape
<1>2. ASSUME NEW d \in Devices, LoseConnection(d) PROVE Shape'
  BY <1>2 DEF LoseConnection, Shape
<1>3. ASSUME NEW row \in Rows, NEW mode \in RevokeModes, Revoke(row, mode) PROVE Shape'
  <2>1. UNCHANGED req BY <1>3 DEF Revoke
  <2>2. \A q \in Rows : db'[q].status = "ACTIVE" => db'[q].ip \in Ips
    BY <1>0, <1>3 DEF Revoke, Shape, RegistryTypeOK, Row
  <2>3. QED BY <2>1, <2>2 DEF Shape
<1>4. ASSUME NEW host \in BOOLEAN, Crash(host) PROVE Shape'
  BY <1>4 DEF Crash, Shape, HandlerShape, HandlerHas, IdleHandler
<1>5. CASE Boot \/ BootFails \/ ReadKernel \/ Listen
  BY <1>5 DEF Boot, BootFails, ReadKernel, Listen, Shape
<1>6. ASSUME NEW b \in todo, RestorePeer(b) PROVE Shape'
  BY <1>6 DEF RestorePeer, Shape
<1>7. ASSUME NEW b \in todo, SyncPeer(b) PROVE Shape'
  <2>1. UNCHANGED req BY <1>7 DEF SyncPeer
  <2>2. b.ip \in Ips BY DEF TypeOK, Binding
  <2>3. \A q \in Rows : db'[q].status = "ACTIVE" => db'[q].ip \in Ips
    <3>1. ASSUME NEW row \in Rows, UpdateRow(row, b.ip, b.key) PROVE <2>3
      BY <1>0, <2>2, <3>1 DEF UpdateRow, Shape, RegistryTypeOK, Row
    <3>2. CASE CreateRow(TempId(b.ip), b.ip, b.key)
      BY <1>0, <2>2, <3>2 DEF CreateRow, Shape, RegistryTypeOK, Row
    <3>3. CASE UNCHANGED db
      BY <3>3 DEF Shape
    <3>4. QED BY <1>7, <3>1, <3>2, <3>3 DEF SyncPeer, AdoptKey, LockAddress, RowsOfId
  <2>4. QED BY <2>1, <2>3 DEF Shape
<1>8. QED BY <1>1, <1>2, <1>3, <1>4, <1>5, <1>6, <1>7 DEF BootStep

\* Types and shape are inductive.
LEMMA TypeStep == TypeOK /\ Shape /\ [Next]_vars => TypeOK' /\ Shape'
<1>1. SUFFICES ASSUME TypeOK, Shape, [Next]_vars PROVE TypeOK' /\ Shape'
  OBVIOUS
<1>2. HandlersHave BY <1>1 DEF Shape, HandlerShape, HandlersHave
<1>3. TypeOK' /\ HandlersHave' BY <1>1, <1>2, TypesKept
<1>4. CASE Next
  BY <1>1, <1>3, <1>4, HandlerStepShape, EnvironmentStepShape DEF Next, Step
<1>5. CASE UNCHANGED vars
  <2>1. Shape' BY <1>1, <1>5 DEF vars, registryVars, serverVars, Shape, HandlerShape, HandlerHas
  <2>2. QED BY <1>3, <2>1
<1>6. QED BY <1>1, <1>3, <1>4, <1>5

\* Types and shape hold in every execution.
LEMMA TypeInvariant == Spec => [](TypeOK /\ Shape)
<1>1. Init => TypeOK /\ Shape BY InitType
<1>2. TypeOK /\ Shape /\ [Next]_vars => TypeOK' /\ Shape' BY TypeStep
<1>3. QED BY <1>1, <1>2, PTL DEF Spec

\* Every variable keeps its type in every execution: no request, failure or
\* crash leaves the pool's range, a half-written record or a broken handler.
THEOREM TypeCorrect == Spec => []TypeOK
<1>1. TypeOK /\ Shape => TypeOK OBVIOUS
<1>2. QED BY <1>1, TypeInvariant, PTL

-----------------------------------------------------------------------------
(* A key stands for one address *)

\* Key k is found with address i: in the kernel, in the table, in a handler,
\* in a drone's wg0.conf or in the boot's list.
Bound(k, i) ==
  \/ i \in Ips /\ route[i] = k
  \/ \E row \in Rows : db[row].key = k /\ db[row].ip = i
  \/ \E r \in Requests : (req[r].key = k \/ req[r].old = k) /\ req[r].ip = i
  \/ \E d \in Devices : conf[d] = [key |-> k, ip |-> i]
  \/ [key |-> k, ip |-> i] \in todo

\* Every key in use was generated before or is a static peer's, a static
\* peer's key has that peer's address, and no key has two addresses.
KeyInv ==
  \A k \in Keys, i \in Ips : Bound(k, i) =>
    /\ k < nextKey
    /\ k <= EndIp => k = i
    /\ \A j \in Ips : Bound(k, j) => i = j

\* A step that brings no new pair of a key and an address keeps the keys.
LEMMA KeysCarryOver ==
  ASSUME KeyInv, TypeOK, UNCHANGED nextKey,
         \A k \in Keys, i \in Ips : Bound(k, i)' => Bound(k, i)
  PROVE  KeyInv'
BY DEF KeyInv

\* A step that binds the next key to one address keeps the keys.
LEMMA FreshKey ==
  ASSUME KeyInv, TypeOK, nextKey' = nextKey + 1, NEW ip \in Ips,
         \A k \in Keys, i \in Ips :
           Bound(k, i)' => Bound(k, i) \/ (k = nextKey /\ i = ip)
  PROVE  KeyInv'
<1>1. nextKey \in Nat /\ nextKey > EndIp BY DEF TypeOK, RegistryTypeOK
<1>2. QED BY <1>1 DEF KeyInv

\* A step that brings back the static peers keeps the keys.
LEMMA StaticKeysReturn ==
  ASSUME KeyInv, TypeOK, UNCHANGED nextKey,
         \A k \in Keys, i \in Ips : Bound(k, i)' => Bound(k, i) \/ k = i
  PROVE  KeyInv'
<1>1. nextKey \in Nat /\ nextKey > EndIp BY DEF TypeOK, RegistryTypeOK
<1>2. QED BY <1>1 DEF KeyInv

\* Before the first boot only the static peers have a key.
LEMMA InitKeys == Init => KeyInv
<1>1. SUFFICES ASSUME Init, NEW k \in Keys, NEW i \in Ips, Bound(k, i)
               PROVE  k = i /\ k < nextKey
  BY DEF KeyInv
<1>2. route[i] = k
  BY <1>1 DEF Bound, Init, RegistryInit, EmptyRow, IdleHandler, NoConf
<1>3. QED BY <1>1, <1>2 DEF Init, RegistryInit, StaticRoute

\* A handler's steps keep the keys.
LEMMA HandlerStepKeys ==
  ASSUME TypeOK, Shape, KeyInv, NEW r \in Requests,
         Handle(r) \/ FailsEarly(r) \/ AddNewPeerFails(r)
  PROVE  KeyInv'
<1> USE DEF registryVars, agentVars, budgetVars
<1>0. /\ RegistryTypeOK
      /\ req \in [Requests -> Handler]
      /\ req[r] \in Handler
      /\ HandlerShape(req[r])
  BY DEF Shape, TypeOK
<1>1. CASE AllocateIp(r)
  <2>1. \A k \in Keys, i \in Ips : Bound(k, i)' => Bound(k, i)
    BY <1>0, <1>1 DEF AllocateIp, Goto, At, HandlerShape, HandlerHas, Handler, Bound
  <2>2. QED BY <1>1, <2>1, KeysCarryOver DEF AllocateIp
<1>2. CASE GenerateKeypair(r)
  <2>1. \A k \in Keys, i \in Ips :
          Bound(k, i)' => Bound(k, i) \/ (k = nextKey /\ i = req[r].ip)
    BY <1>0, <1>2 DEF GenerateKeypair, Handler, Bound
  <2>2. req[r].ip \in Ips BY <1>0, <1>2 DEF GenerateKeypair, At, HandlerShape, HandlerHas
  <2>3. QED BY <1>2, <2>1, <2>2, FreshKey DEF GenerateKeypair
<1>3. CASE RemoveOldPeer(r) \/ UndoPeer(r)
  <2>1. \A k \in Keys, i \in Ips : route'[i] = k => route[i] = k
    BY <1>0, <1>3 DEF RemoveOldPeer, UndoPeer, RemovePeer, RouteWithout
  <2>2. \A k \in Keys, i \in Ips : Bound(k, i)' => Bound(k, i)
    BY <1>0, <1>3, <2>1 DEF RemoveOldPeer, UndoPeer, Goto, Handler, Bound
  <2>3. QED BY <1>3, <2>2, KeysCarryOver DEF RemoveOldPeer, UndoPeer
<1>4. CASE AddNewPeer(r)
  <2>1. \A k \in Keys, i \in Ips :
          route'[i] = k => route[i] = k \/ (k = req[r].key /\ i = req[r].ip)
    BY <1>0, <1>4 DEF AddNewPeer, AddPeer, RouteWith
  <2>2. \A k \in Keys, i \in Ips : Bound(k, i)' => Bound(k, i)
    BY <1>0, <1>4, <2>1 DEF AddNewPeer, Goto, Handler, Bound
  <2>3. QED BY <1>4, <2>2, KeysCarryOver DEF AddNewPeer
<1>5. CASE RestoreOldPeer(r)
  <2>1. \A k \in Keys, i \in Ips :
          route'[i] = k => route[i] = k \/ (k = req[r].old /\ i = req[r].ip)
    BY <1>0, <1>5 DEF RestoreOldPeer, AddPeer, RouteWith
  <2>2. \A k \in Keys, i \in Ips : Bound(k, i)' => Bound(k, i)
    BY <1>0, <1>5, <2>1 DEF RestoreOldPeer, Goto, Handler, Bound
  <2>3. QED BY <1>5, <2>2, KeysCarryOver DEF RestoreOldPeer
<1>6. CASE CreateDevice(r)
  <2>1. \A row \in Rows : \/ db'[row] = db[row]
                          \/ db'[row].key = req[r].key /\ db'[row].ip = req[r].ip
    BY <1>0, <1>6 DEF CreateDevice, CreateRow, RegistryTypeOK
  <2>2. \A k \in Keys, i \in Ips : Bound(k, i)' => Bound(k, i)
    BY <1>0, <1>6, <2>1 DEF CreateDevice, Handler, Bound
  <2>3. QED BY <1>6, <2>2, KeysCarryOver DEF CreateDevice
<1>7. CASE UpdateDevice(r)
  <2>1. \A row \in Rows : \/ db'[row] = db[row]
                          \/ db'[row].key = req[r].key /\ db'[row].ip = req[r].ip
    BY <1>0, <1>7 DEF UpdateDevice, UpdateRow, RegistryTypeOK, Row
  <2>2. \A k \in Keys, i \in Ips : Bound(k, i)' => Bound(k, i)
    BY <1>0, <1>7, <2>1 DEF UpdateDevice, Handler, Bound
  <2>3. QED BY <1>7, <2>2, KeysCarryOver DEF UpdateDevice
<1>8. CASE StoreFails(r) \/ MapIp(r) \/ FailsEarly(r) \/ AddNewPeerFails(r)
  <2>1. \A k \in Keys, i \in Ips : Bound(k, i)' => Bound(k, i)
    BY <1>0, <1>8 DEF StoreFails, MapIp, FailsEarly, AddNewPeerFails, Goto, Handler,
                      Bound
  <2>2. QED BY <1>8, <2>1, KeysCarryOver DEF StoreFails, MapIp, FailsEarly,
                                             AddNewPeerFails
<1>9. CASE Reply(r) \/ ReplyError(r)
  <2>1. \A d \in Devices : conf'[d] = conf[d] \/ conf'[d] = [key |-> req[r].key, ip |-> req[r].ip]
    BY <1>9 DEF Reply, ReplyError, TypeOK
  <2>2. \A k \in Keys, i \in Ips : Bound(k, i)' => Bound(k, i)
    BY <1>0, <1>9, <2>1 DEF Reply, ReplyError, IdleHandler, Handler, Bound
  <2>3. QED BY <1>9, <2>2, KeysCarryOver DEF Reply, ReplyError
<1>10. QED BY <1>1, <1>2, <1>3, <1>4, <1>5, <1>6, <1>7, <1>8, <1>9 DEF Handle

\* Every other step keeps the keys.
LEMMA EnvironmentStepKeys ==
  ASSUME TypeOK, Shape, KeyInv,
         \/ \E r \in Requests, d \in Devices : RegisterDevice(r, d)
         \/ \E d \in Devices : LoseConnection(d)
         \/ \E row \in Rows, mode \in RevokeModes : Revoke(row, mode)
         \/ \E host \in BOOLEAN : Crash(host)
         \/ BootStep
  PROVE  KeyInv'
<1> USE DEF registryVars, serverVars, agentVars, budgetVars
<1>0. /\ RegistryTypeOK
      /\ req \in [Requests -> Handler]
  BY DEF TypeOK
<1>1. ASSUME NEW r \in Requests, NEW d \in Devices, RegisterDevice(r, d)
      PROVE  KeyInv'
  <2>1. \A q \in Requests \ {r} : req'[q] = req[q]
    BY <1>0, <1>1 DEF RegisterDevice, StartNew, StartRotation, StartRefused
  <2>2. \/ req'[r].ip = NoIp
        \/ \E row \in Rows : req'[r].ip = db[row].ip /\ req'[r].old = db[row].key
                               /\ req'[r].key = NoKey
    <3>1. CASE StartNew(r, d) \/ StartRefused(r, d)
      BY <1>0, <3>1 DEF StartNew, StartRefused, IdleHandler
    <3>2. CASE StartRotation(r, d)
      <4>1. PICK row \in Rows :
              req' = [req EXCEPT ![r] =
                [IdleHandler EXCEPT !.pc = RotationStart(row), !.dev = d,
                                    !.row = row, !.ip = db[row].ip, !.old = db[row].key]]
        BY <3>2 DEF StartRotation, RowsOfId
      <4>2. QED BY <1>0, <4>1 DEF IdleHandler
    <3>3. QED BY <1>1, <3>1, <3>2 DEF RegisterDevice
  <2>3. \A k \in Keys, i \in Ips : Bound(k, i)' => Bound(k, i)
    BY <1>1, <2>1, <2>2 DEF RegisterDevice, Bound
  <2>4. QED BY <1>1, <2>3, KeysCarryOver DEF RegisterDevice
<1>2. ASSUME NEW d \in Devices, LoseConnection(d) PROVE KeyInv'
  <2>1. \A k \in Keys, i \in Ips : Bound(k, i)' => Bound(k, i)
    BY <1>2 DEF LoseConnection, Bound
  <2>2. QED BY <1>2, <2>1, KeysCarryOver DEF LoseConnection
<1>3. ASSUME NEW row \in Rows, NEW mode \in RevokeModes, Revoke(row, mode) PROVE KeyInv'
  <2>1. \A q \in Rows : db'[q].key = db[q].key /\ db'[q].ip \in {db[q].ip, NoIp}
    BY <1>0, <1>3 DEF Revoke, RegistryTypeOK, Row
  <2>2. UNCHANGED <<route, req, conf, todo>> BY <1>3 DEF Revoke
  <2>3. \A k \in Keys, i \in Ips : Bound(k, i)' => Bound(k, i)
    <3>1. NoIp \notin Ips OBVIOUS
    <3>2. QED BY <2>1, <2>2, <3>1 DEF Bound
  <2>4. QED BY <1>3, <2>3, KeysCarryOver DEF Revoke
<1>4. ASSUME NEW host \in BOOLEAN, Crash(host) PROVE KeyInv'
  <2>1. \A k \in Keys, i \in Ips : Bound(k, i)' => Bound(k, i) \/ k = i
    BY <1>4 DEF Crash, StaticRoute, IdleHandler, Bound
  <2>2. QED BY <1>4, <2>1, StaticKeysReturn DEF Crash
<1>5. CASE Boot \/ BootFails \/ ReadKernel \/ Listen
  <2>1. \A k \in Keys, i \in Ips :
          [key |-> k, ip |-> i] \in todo' =>
            \/ [key |-> k, ip |-> i] \in todo
            \/ route[i] = k
            \/ \E row \in Rows : db[row].key = k /\ db[row].ip = i
    BY <1>5 DEF Boot, BootFails, ReadKernel, Listen, PeersToRestore, KernelPeers, ActiveRows
  <2>2. UNCHANGED <<route, db, req, conf>>
    BY <1>5 DEF Boot, BootFails, ReadKernel, Listen
  <2>3. \A k \in Keys, i \in Ips : Bound(k, i)' => Bound(k, i)
    BY <2>1, <2>2 DEF Bound
  <2>4. QED BY <1>5, <2>3, KeysCarryOver DEF Boot, BootFails, ReadKernel, Listen
<1>6. ASSUME NEW b \in todo, RestorePeer(b) PROVE KeyInv'
  <2>1. b = [key |-> b.key, ip |-> b.ip] /\ b.key \in Keys /\ b.ip \in Ips
    BY DEF TypeOK, Binding
  <2>2. \A k \in Keys, i \in Ips : route'[i] = k => route[i] = k \/ (k = b.key /\ i = b.ip)
    BY <1>0, <1>6 DEF RestorePeer, AddPeer, RouteWith
  <2>3. \A k \in Keys, i \in Ips : Bound(k, i)' => Bound(k, i)
    BY <1>6, <2>1, <2>2 DEF RestorePeer, Bound
  <2>4. QED BY <1>6, <2>3, KeysCarryOver DEF RestorePeer
<1>7. ASSUME NEW b \in todo, SyncPeer(b) PROVE KeyInv'
  <2>1. b = [key |-> b.key, ip |-> b.ip] /\ b.key \in Keys /\ b.ip \in Ips
    BY DEF TypeOK, Binding
  <2>2. \A q \in Rows : db'[q] = db[q] \/ (db'[q].key = b.key /\ db'[q].ip = b.ip)
    <3>1. ASSUME NEW row \in Rows, UpdateRow(row, b.ip, b.key) PROVE <2>2
      BY <1>0, <3>1 DEF UpdateRow, RegistryTypeOK, Row
    <3>2. CASE CreateRow(TempId(b.ip), b.ip, b.key)
      BY <1>0, <3>2 DEF CreateRow, RegistryTypeOK
    <3>3. CASE UNCHANGED db
      BY <3>3
    <3>4. QED BY <1>7, <3>1, <3>2, <3>3 DEF SyncPeer, AdoptKey, LockAddress, RowsOfId
  <2>3. \A k \in Keys, i \in Ips : Bound(k, i)' => Bound(k, i)
    BY <1>7, <2>1, <2>2 DEF SyncPeer, Bound
  <2>4. QED BY <1>7, <2>3, KeysCarryOver DEF SyncPeer
<1>8. QED BY <1>1, <1>2, <1>3, <1>4, <1>5, <1>6, <1>7 DEF BootStep

\* The keys' invariant is inductive on top of the types.
LEMMA KeyStep == TypeOK /\ Shape /\ KeyInv /\ [Next]_vars => KeyInv'
<1>1. SUFFICES ASSUME TypeOK, Shape, KeyInv, [Next]_vars PROVE KeyInv'
  OBVIOUS
<1>2. CASE Next
  BY <1>1, <1>2, HandlerStepKeys, EnvironmentStepKeys DEF Next, Step
<1>3. CASE UNCHANGED vars
  BY <1>1, <1>3 DEF vars, registryVars, serverVars, agentVars, budgetVars, KeyInv, Bound
<1>4. QED BY <1>1, <1>2, <1>3

\* The inductive invariant says what the property asks of the bindings.
LEMMA KeyInvSuffices == TypeOK /\ KeyInv => OneAddressPerKey
<1>1. SUFFICES ASSUME TypeOK, KeyInv, NEW a \in Bindings, NEW b \in Bindings,
                      a.key = b.key, IsRealKey(a.key), a.ip # NoIp, b.ip # NoIp
               PROVE  a.ip = b.ip
  BY DEF OneAddressPerKey
<1>2. ASSUME NEW c \in Bindings, IsRealKey(c.key), c.ip # NoIp
      PROVE  c.key \in Keys /\ c.ip \in Ips /\ Bound(c.key, c.ip)
  <2>1. CASE c \in {[key |-> route[ip], ip |-> ip] : ip \in Ips}
    BY <1>1, <1>2, <2>1 DEF TypeOK, RegistryTypeOK, Bound, IsRealKey
  <2>2. CASE c \in {[key |-> db[row].key, ip |-> db[row].ip] : row \in Rows}
    <3>1. PICK row \in Rows : c = [key |-> db[row].key, ip |-> db[row].ip] BY <2>2
    <3>2. db[row] \in Row BY <1>1 DEF TypeOK, RegistryTypeOK
    <3>3. c.key \in Keys /\ c.ip \in Ips BY <1>2, <3>1, <3>2 DEF Row, IsRealKey
    <3>4. QED BY <3>1, <3>3 DEF Bound
  <2>3. CASE \/ c \in {[key |-> req[r].key, ip |-> req[r].ip] : r \in Requests}
             \/ c \in {[key |-> req[r].old, ip |-> req[r].ip] : r \in Requests}
    BY <1>1, <1>2, <2>3 DEF TypeOK, Handler, Bound, IsRealKey
  <2>4. CASE c \in {conf[d] : d \in Devices} \cup todo
    <3>1. c \in Binding BY <1>1, <1>2, <2>4 DEF TypeOK, NoConf
    <3>2. c = [key |-> c.key, ip |-> c.ip] /\ c.key \in Keys /\ c.ip \in Ips
      BY <3>1 DEF Binding
    <3>3. QED BY <2>4, <3>2 DEF Bound
  <2>5. QED BY <1>2, <2>1, <2>2, <2>3, <2>4 DEF Bindings
<1>3. QED BY <1>1, <1>2 DEF KeyInv

\* A WireGuard key stands for one address wherever it is found, however many
\* requests race, fail, roll back or are cut off by a crash and a boot.
THEOREM KeysCarryOneAddress == Spec => []OneAddressPerKey
<1>1. Init => KeyInv BY InitKeys
<1>2. TypeOK /\ Shape /\ KeyInv /\ [Next]_vars => KeyInv' BY KeyStep
<1>3. TypeOK /\ KeyInv => OneAddressPerKey BY KeyInvSuffices
<1>4. QED BY <1>1, <1>2, <1>3, TypeInvariant, PTL DEF Spec

-----------------------------------------------------------------------------
(* The Device table *)

\* The unique index on vpnIp, the one on deviceId, and the rows to come.
UniqueIps == \A p, q \in Rows : Live(p) /\ Holds(q, db[p].ip) => p = q
UniqueIds == \A p, q \in Rows : Live(p) /\ Live(q) /\ db[p].id = db[q].id => p = q
RowsToCome == \A row \in Rows : row >= nextRow => ~Live(row)
Identified == \A row \in Rows : Live(row) => db[row].id \in DeviceIds

\* A temporary record locks its own address or, revoked, none.
LocksItsOwn ==
  \A row \in Rows, ip \in Ips :
    Live(row) /\ db[row].id = TempId(ip) => db[row].ip \in {ip, NoIp}

\* The record that a rotation read is its device's, and has the address that
\* the rotation read unless an operator has dropped it.
ReadsItsOwn ==
  \A r \in Requests : IsRotation(r) =>
    /\ req[r].dev \in Devices
    /\ Live(req[r].row)
    /\ db[req[r].row].id = req[r].dev
    /\ db[req[r].row].ip \in {req[r].ip, NoIp}

\* Rotations of one record that are under way together read the same address.
ReadAlike ==
  \A r, q \in Requests :
    IsRotation(r) /\ IsRotation(q) /\ req[r].row = req[q].row => req[r].ip = req[q].ip

TableInv ==
  /\ UniqueIps /\ UniqueIds /\ RowsToCome /\ Identified /\ LocksItsOwn
  /\ ReadsItsOwn /\ ReadAlike

-----------------------------------------------------------------------------
(* What a step does to the table *)

\* Identities and addresses stay.
SameTable ==
  /\ UNCHANGED nextRow
  /\ \A q \in Rows :
       /\ db'[q].status # "NONE" <=> Live(q)
       /\ db'[q].id = db[q].id /\ db'[q].ip = db[q].ip

\* A record that had no address, or was not there, gets one that no record has.
Gains(row, id, ip) ==
  /\ nextRow' \in {nextRow, nextRow + 1} /\ row < nextRow'
  /\ \A q \in Rows : ~Holds(q, ip)
  /\ \A q \in Rows \ {row} : db'[q] = db[q] /\ ~(Live(q) /\ db[q].id = id)
  /\ Live(row) => db[row].id = id /\ db[row].ip = NoIp
  /\ db'[row].status # "NONE" /\ db'[row].id = id /\ db'[row].ip = ip
  /\ \A i \in Ips : id = TempId(i) => ip = i

\* A record loses its address.
Loses(row) ==
  /\ UNCHANGED nextRow
  /\ \A q \in Rows \ {row} : db'[q] = db[q]
  /\ Live(row) /\ db'[row].status # "NONE"
  /\ db'[row].id = db[row].id /\ db'[row].ip = NoIp

\* A temporary name names one address.
LEMMA TempIdsDiffer == \A i, j \in Ips : TempId(i) = TempId(j) => i = j
BY DEF TempId

\* No drone has a temporary name.
LEMMA TempIdsAreNoDevices == \A i \in Ips : TempId(i) \notin Devices
BY DEF Ips

\* An insertion that neither unique index refuses gives the new row its address.
LEMMA CreateGains ==
  ASSUME TypeOK, TableInv, NEW id, NEW ip \in Ips, NEW key,
         CanCreate(id, ip), CreateRow(id, ip, key),
         \A i \in Ips : id = TempId(i) => ip = i
  PROVE  nextRow \in Rows /\ Gains(nextRow, id, ip)
<1>1. nextRow \in Rows /\ nextRow' = nextRow + 1 BY DEF CreateRow
<1>2. ~Live(nextRow) BY <1>1 DEF TableInv, RowsToCome
<1>3. \A q \in Rows : ~Holds(q, ip) /\ ~(Live(q) /\ db[q].id = id)
  BY DEF CanCreate, IpAdmitted, IdAdmitted
<1>4. db' = [db EXCEPT ![nextRow] =
               [status |-> "ACTIVE", id |-> id, ip |-> ip, key |-> key]]
  BY DEF CreateRow
<1>5. QED BY <1>1, <1>2, <1>3, <1>4 DEF Gains, Live, TypeOK, RegistryTypeOK

\* An update of the record that has the address changes nothing here.
LEMMA UpdateKeeps ==
  ASSUME TypeOK, NEW row \in Rows, NEW key, Live(row), UpdateRow(row, db[row].ip, key)
  PROVE  SameTable
<1>1. db[row] \in Row BY DEF TypeOK, RegistryTypeOK
<1>2. QED BY <1>1 DEF UpdateRow, SameTable, Live, TypeOK, RegistryTypeOK, Row

\* An update of a record that lost its address gives it one that is free.
LEMMA UpdateGains ==
  ASSUME TypeOK, TableInv, NEW row \in Rows, NEW ip \in Ips, NEW key,
         Live(row), db[row].ip = NoIp, IpAdmitted(row, ip), UpdateRow(row, ip, key),
         \A i \in Ips : db[row].id = TempId(i) => ip = i
  PROVE  Gains(row, db[row].id, ip)
<1>1. db[row] \in Row /\ nextRow \in Nat BY DEF TypeOK, RegistryTypeOK
<1>2. nextRow' = nextRow /\ row < nextRow
  BY <1>1 DEF UpdateRow, TableInv, RowsToCome
<1>3. \A q \in Rows : ~Holds(q, ip) BY DEF IpAdmitted, Holds
<1>4. \A q \in Rows \ {row} : ~(Live(q) /\ db[q].id = db[row].id)
  BY DEF TableInv, UniqueIds
<1>5. db'[row] = [db[row] EXCEPT !.status = "ACTIVE", !.ip = ip, !.key = key]
      /\ \A q \in Rows \ {row} : db'[q] = db[q]
  BY DEF UpdateRow, TypeOK, RegistryTypeOK
<1>6. QED BY <1>1, <1>2, <1>3, <1>4, <1>5 DEF Gains, Live, Row

\* What a gain is for: a device's record gets back what a rotation read.
GainStep ==
  \E row \in Rows, id \in DeviceIds, ip \in Ips :
    /\ Gains(row, id, ip)
    /\ Live(row) /\ id \in Devices =>
         \E r \in Requests : IsRotation(r) /\ req[r].row = row /\ req[r].ip = ip

\* A handler's steps leave the table alone or give a record a free address.
LEMMA HandlerStepTable ==
  ASSUME TypeOK, Shape, TableInv, NEW r \in Requests,
         Handle(r) \/ FailsEarly(r) \/ AddNewPeerFails(r)
  PROVE  SameTable \/ GainStep
<1>0. req[r] \in Handler /\ HandlerShape(req[r]) BY DEF TypeOK, Shape
<1>1. CASE CreateDevice(r)
  <2>1. req[r].ip \in Ips /\ req[r].dev \in Devices
    BY <1>0, <1>1 DEF CreateDevice, At, HandlerShape, HandlerHas
  <2>2. \A i \in Ips : req[r].dev # TempId(i) BY <2>1, TempIdsAreNoDevices
  <2>3. nextRow \in Rows /\ Gains(nextRow, req[r].dev, req[r].ip)
    BY <1>1, <2>1, <2>2, CreateGains DEF CreateDevice
  <2>4. ~Live(nextRow) BY <2>3 DEF TableInv, RowsToCome
  <2>5. req[r].dev \in DeviceIds BY <2>1 DEF DeviceIds
  <2>6. QED BY <2>1, <2>3, <2>4, <2>5 DEF GainStep
<1>2. CASE UpdateDevice(r)
  <2> DEFINE row == req[r].row
  <2>1. row \in Rows /\ IsRotation(r)
    BY <1>0, <1>2 DEF UpdateDevice, IsRotation, Handler
  <2>2. /\ Live(row) /\ db[row].id = req[r].dev /\ req[r].dev \in Devices
        /\ db[row].ip \in {req[r].ip, NoIp}
    BY <2>1 DEF TableInv, ReadsItsOwn
  <2>3. req[r].ip \in Ips BY <1>0, <1>2 DEF UpdateDevice, At, HandlerShape, HandlerHas
  <2>4. UpdateRow(row, req[r].ip, req[r].key) /\ IpAdmitted(row, req[r].ip)
    BY <1>2 DEF UpdateDevice, CanUpdate
  <2>5. CASE db[row].ip = req[r].ip
    BY <2>1, <2>2, <2>4, <2>5, UpdateKeeps
  <2>6. CASE db[row].ip = NoIp
    <3>1. \A i \in Ips : db[row].id # TempId(i) BY <2>2, TempIdsAreNoDevices
    <3>2. Gains(row, db[row].id, req[r].ip)
      BY <2>1, <2>2, <2>3, <2>4, <2>6, <3>1, UpdateGains
    <3>3. db[row].id \in DeviceIds BY <2>2 DEF DeviceIds
    <3>4. QED BY <2>1, <2>3, <3>2, <3>3 DEF GainStep
  <2>7. QED BY <2>2, <2>5, <2>6
<1>3. CASE UNCHANGED <<db, nextRow>>
  BY <1>3 DEF SameTable, Live
<1>4. QED
  BY <1>1, <1>2, <1>3 DEF Handle, AllocateIp, GenerateKeypair, RemoveOldPeer, AddNewPeer,
    StoreFails, UndoPeer, RestoreOldPeer, MapIp, Reply, ReplyError, FailsEarly,
    AddNewPeerFails, registryVars

\* The boot leaves the table alone or locks a free address.
LEMMA BootStepTable ==
  ASSUME TypeOK, Shape, TableInv, BootStep
  PROVE  SameTable \/ GainStep
<1>1. ASSUME NEW b \in todo, NEW row \in Rows, AdoptKey(b, row) PROVE SameTable
  <2>1. Live(row) /\ db[row].ip = b.ip BY <1>1 DEF AdoptKey, Holds
  <2>2. CASE UNCHANGED <<db, nextRow>> BY <2>2 DEF SameTable, Live
  <2>3. CASE UpdateRow(row, b.ip, b.key) BY <2>1, <2>3, UpdateKeeps
  <2>4. QED BY <1>1, <2>2, <2>3 DEF AdoptKey
<1>2. ASSUME NEW b \in todo, LockAddress(b) PROVE GainStep
  <2>1. b.ip \in Ips BY DEF TypeOK, Binding
  <2>2. \A i \in Ips : TempId(b.ip) = TempId(i) => b.ip = i
    BY <2>1, TempIdsDiffer
  <2>3. TempId(b.ip) \in DeviceIds /\ TempId(b.ip) \notin Devices
    BY <2>1, TempIdType, TempIdsAreNoDevices
  <2>4. \A q \in Rows : ~Holds(q, b.ip) BY <1>2 DEF LockAddress, RowsOfIp, Holds
  <2>5. ASSUME NEW row \in RowsOfId(TempId(b.ip)), UpdateRow(row, b.ip, b.key)
        PROVE  GainStep
    <3>1. row \in Rows /\ Live(row) /\ db[row].id = TempId(b.ip)
      BY DEF RowsOfId
    <3>2. db[row].ip \in {b.ip, NoIp}
      BY <2>1, <3>1 DEF TableInv, LocksItsOwn
    <3>3. db[row].ip = NoIp BY <2>1, <2>4, <3>1, <3>2 DEF Holds
    <3>4. IpAdmitted(row, b.ip) BY <2>4 DEF IpAdmitted
    <3>5. \A i \in Ips : db[row].id = TempId(i) => b.ip = i BY <2>2, <3>1
    <3>6. Gains(row, db[row].id, b.ip)
      BY <2>1, <2>5, <3>1, <3>3, <3>4, <3>5, UpdateGains
    <3>7. QED BY <2>1, <2>3, <3>1, <3>6 DEF GainStep
  <2>6. ASSUME RowsOfId(TempId(b.ip)) = {}, CreateRow(TempId(b.ip), b.ip, b.key)
        PROVE  GainStep
    <3>1. CanCreate(TempId(b.ip), b.ip)
      BY <2>4, <2>6 DEF CanCreate, IdAdmitted, IpAdmitted, RowsOfId
    <3>2. nextRow \in Rows /\ Gains(nextRow, TempId(b.ip), b.ip)
      BY <2>1, <2>2, <2>6, <3>1, CreateGains
    <3>3. QED BY <2>1, <2>3, <3>2 DEF GainStep
  <2>7. QED BY <1>2, <2>5, <2>6 DEF LockAddress
<1>3. CASE UNCHANGED <<db, nextRow>>
  BY <1>3 DEF SameTable, Live
<1>4. QED
  BY <1>1, <1>2, <1>3 DEF BootStep, Boot, BootFails, ReadKernel, Listen, RestorePeer, SyncPeer,
    registryVars

\* Every step but an operator's leaves the table alone or gives a record a free
\* address; an operator may drop one.
LEMMA StepTable ==
  ASSUME TypeOK, Shape, TableInv, Next
  PROVE  \/ SameTable
         \/ GainStep
         \/ "drop" \in RevokeModes /\ \E row \in Rows : Loses(row)
<1>1. ASSUME NEW row \in Rows, NEW mode \in RevokeModes, Revoke(row, mode)
      PROVE  SameTable \/ ("drop" \in RevokeModes /\ Loses(row))
  <2>0. db[row] \in Row /\ db \in [Rows -> Row] BY DEF TypeOK, RegistryTypeOK
  <2>1. /\ UNCHANGED nextRow
        /\ db[row].status = "ACTIVE"
        /\ \A q \in Rows \ {row} : db'[q] = db[q]
        /\ db'[row] = [db[row] EXCEPT !.status = "REVOKED",
                                      !.ip = IF mode = "drop" THEN NoIp ELSE @]
    BY <1>1, <2>0 DEF Revoke
  <2>2. /\ db'[row].status = "REVOKED" /\ db'[row].id = db[row].id
        /\ db'[row].ip = IF mode = "drop" THEN NoIp ELSE db[row].ip
    BY <2>0, <2>1 DEF Row
  <2>3. CASE mode = "drop" BY <2>1, <2>2, <2>3 DEF Loses, Live
  <2>4. CASE mode # "drop" BY <2>1, <2>2, <2>4 DEF SameTable, Live
  <2>5. QED BY <2>3, <2>4
<1>2. ASSUME NEW r \in Requests, NEW d \in Devices, RegisterDevice(r, d) PROVE SameTable
  BY <1>2 DEF RegisterDevice, registryVars, SameTable, Live
<1>3. ASSUME NEW d \in Devices, LoseConnection(d) PROVE SameTable
  BY <1>3 DEF LoseConnection, registryVars, SameTable, Live
<1>4. ASSUME NEW host \in BOOLEAN, Crash(host) PROVE SameTable
  BY <1>4 DEF Crash, SameTable, Live
<1>5. QED BY <1>1, <1>2, <1>3, <1>4, HandlerStepTable, BootStepTable DEF Next, Step

-----------------------------------------------------------------------------
(* The table stays sound *)

\* Before the first boot the table is empty.
LEMMA InitTable == Init => TableInv
BY DEF Init, RegistryInit, TableInv, UniqueIps, UniqueIds, RowsToCome, Identified, LocksItsOwn,
  ReadsItsOwn, ReadAlike, EmptyRow, Live, Holds, IsRotation, IdleHandler

\* The unique indexes, the rows to come and the identities survive a step.
LEMMA TableKept ==
  ASSUME TypeOK, TableInv, TypeOK',
         SameTable \/ GainStep \/ \E row \in Rows : Loses(row)
  PROVE  UniqueIps' /\ UniqueIds' /\ RowsToCome' /\ Identified' /\ LocksItsOwn'
<1> USE DEF Live
<1>0. nextRow \in Nat /\ nextRow' \in Nat BY DEF TypeOK, RegistryTypeOK
<1>1. CASE SameTable
  BY <1>0, <1>1 DEF SameTable, TableInv, UniqueIps, UniqueIds, RowsToCome, Identified,
    LocksItsOwn, Holds
<1>2. CASE GainStep
  <2>1. PICK row \in Rows, id \in DeviceIds, ip \in Ips : Gains(row, id, ip)
    BY <1>2 DEF GainStep
  <2>2. UniqueIps'
    BY <2>1 DEF Gains, TableInv, UniqueIps, Holds
  <2>3. UniqueIds'
    BY <2>1 DEF Gains, TableInv, UniqueIds
  <2>4. RowsToCome'
    BY <1>0, <2>1 DEF Gains, TableInv, RowsToCome
  <2>5. Identified'
    BY <2>1 DEF Gains, TableInv, Identified
  <2>6. LocksItsOwn'
    BY <2>1 DEF Gains, TableInv, LocksItsOwn
  <2>7. QED BY <2>2, <2>3, <2>4, <2>5, <2>6
<1>3. ASSUME NEW row \in Rows, Loses(row)
      PROVE  UniqueIps' /\ UniqueIds' /\ RowsToCome' /\ Identified' /\ LocksItsOwn'
  <2>1. UniqueIps' BY <1>3 DEF Loses, TableInv, UniqueIps, Holds
  <2>2. UniqueIds' BY <1>3 DEF Loses, TableInv, UniqueIds
  <2>3. RowsToCome' BY <1>0, <1>3 DEF Loses, TableInv, RowsToCome
  <2>4. Identified' BY <1>3 DEF Loses, TableInv, Identified
  <2>5. LocksItsOwn' BY <1>3 DEF Loses, TableInv, LocksItsOwn
  <2>6. QED BY <2>1, <2>2, <2>3, <2>4, <2>5
<1>4. QED BY <1>1, <1>2, <1>3

\* The record that a rotation reads stays as the rotation needs it.
LEMMA ReadStays ==
  ASSUME TypeOK, TableInv, SameTable \/ GainStep \/ \E row \in Rows : Loses(row),
         NEW q \in Requests, IsRotation(q)
  PROVE  LET row == req[q].row
         IN  /\ db'[row].status # "NONE" /\ db'[row].id = req[q].dev
             /\ db'[row].ip \in {req[q].ip, NoIp}
<1> DEFINE own == req[q].row
<1>0. /\ own \in Rows /\ req[q].dev \in Devices
      /\ Live(own) /\ db[own].id = req[q].dev /\ db[own].ip \in {req[q].ip, NoIp}
  <2>1. req[q] \in Handler BY DEF TypeOK
  <2>2. QED BY <2>1 DEF TableInv, ReadsItsOwn, IsRotation, Handler
<1>1. CASE SameTable BY <1>0, <1>1 DEF SameTable
<1>2. CASE GainStep
  <2>1. PICK row \in Rows, id \in DeviceIds, ip \in Ips :
          /\ Gains(row, id, ip)
          /\ Live(row) /\ id \in Devices =>
               \E r \in Requests : IsRotation(r) /\ req[r].row = row /\ req[r].ip = ip
    BY <1>2 DEF GainStep
  <2>2. CASE row = own
    <3>1. id = req[q].dev BY <1>0, <2>1, <2>2 DEF Gains
    <3>2. ip = req[q].ip BY <1>0, <2>1, <2>2, <3>1 DEF TableInv, ReadAlike
    <3>3. QED BY <2>1, <2>2, <3>1, <3>2 DEF Gains
  <2>3. CASE row # own BY <1>0, <2>1, <2>3 DEF Gains, Live
  <2>4. QED BY <2>2, <2>3
<1>3. ASSUME NEW row \in Rows, Loses(row)
      PROVE  /\ db'[own].status # "NONE" /\ db'[own].id = req[q].dev
             /\ db'[own].ip \in {req[q].ip, NoIp}
  BY <1>0, <1>3 DEF Loses, Live
<1>4. QED BY <1>1, <1>2, <1>3

\* A rotation after a step was one before, about the same record, device and
\* address, or has just read the active record of its device.
LEMMA RotationsStart ==
  ASSUME TypeOK, Shape, Next, NEW q \in Requests, req'[q].row # NoRow
  PROVE  \/ IsRotation(q) /\ req'[q].row = req[q].row
           /\ req'[q].dev = req[q].dev /\ req'[q].ip = req[q].ip
         \/ /\ UNCHANGED db
            /\ req'[q].dev \in Devices /\ req'[q].row \in RowsOfId(req'[q].dev)
            /\ req'[q].ip = db[req'[q].row].ip /\ req'[q].ip \in Ips
<1>0. req \in [Requests -> Handler] BY DEF TypeOK
<1>1. ASSUME NEW r \in Requests, Handle(r) \/ FailsEarly(r) \/ AddNewPeerFails(r)
      PROVE  IsRotation(q) /\ req'[q].row = req[q].row
               /\ req'[q].dev = req[q].dev /\ req'[q].ip = req[q].ip
  <2>1. CASE q # r
    BY <1>0, <1>1, <2>1 DEF Handle, AllocateIp, GenerateKeypair, RemoveOldPeer, AddNewPeer,
      CreateDevice, UpdateDevice, StoreFails, UndoPeer, RestoreOldPeer, MapIp, Reply,
      ReplyError, FailsEarly, AddNewPeerFails, Goto, IsRotation
  <2>2. CASE q = r /\ AllocateIp(r)
    BY <1>0, <2>2 DEF AllocateIp, Goto, At, Shape, HandlerShape, HandlerHas, Handler
  <2>3. CASE q = r /\ (Reply(r) \/ ReplyError(r))
    BY <1>0, <2>3 DEF Reply, ReplyError, IdleHandler
  <2>4. CASE q = r /\ ~AllocateIp(r) /\ ~Reply(r) /\ ~ReplyError(r)
    BY <1>0, <1>1, <2>4 DEF Handle, GenerateKeypair, RemoveOldPeer, AddNewPeer,
      CreateDevice, UpdateDevice, StoreFails, UndoPeer, RestoreOldPeer, MapIp,
      FailsEarly, AddNewPeerFails, Goto, IsRotation, Handler
  <2>5. QED BY <2>1, <2>2, <2>3, <2>4
<1>2. ASSUME NEW r \in Requests, NEW d \in Devices, RegisterDevice(r, d), q = r
      PROVE  /\ UNCHANGED db
             /\ req'[q].dev \in Devices /\ req'[q].row \in RowsOfId(req'[q].dev)
             /\ req'[q].ip = db[req'[q].row].ip /\ req'[q].ip \in Ips
  <2>1. StartRotation(r, d)
    BY <1>0, <1>2 DEF RegisterDevice, StartNew, StartRefused, IdleHandler
  <2>2. PICK row \in RowsOfId(d) :
          /\ db[row].status # "REVOKED"
          /\ req' = [req EXCEPT ![r] =
               [IdleHandler EXCEPT !.pc = RotationStart(row), !.dev = d,
                                   !.row = row, !.ip = db[row].ip, !.old = db[row].key]]
    BY <2>1 DEF StartRotation
  <2>3. req'[q].dev = d /\ req'[q].row = row /\ req'[q].ip = db[row].ip
    BY <1>0, <1>2, <2>2 DEF IdleHandler
  <2>4. db[row].ip \in Ips
    BY <2>2 DEF RowsOfId, Live, Shape, TypeOK, RegistryTypeOK, Row
  <2>5. UNCHANGED db BY <1>2 DEF RegisterDevice, registryVars
  <2>6. QED BY <2>3, <2>4, <2>5
<1>3. ASSUME NEW r \in Requests, NEW d \in Devices, RegisterDevice(r, d), q # r
      PROVE  req'[q] = req[q]
  BY <1>0, <1>3 DEF RegisterDevice, StartNew, StartRotation, StartRefused
<1>4. ASSUME NEW host \in BOOLEAN, Crash(host) PROVE FALSE
  BY <1>4 DEF Crash, IdleHandler
<1>5. CASE UNCHANGED req
  BY <1>5 DEF IsRotation
<1>6. QED
  BY <1>1, <1>2, <1>3, <1>4, <1>5 DEF Next, Step, LoseConnection, Revoke, BootStep, Boot,
    BootFails, ReadKernel, Listen, RestorePeer, SyncPeer, serverVars, IsRotation

\* Types, shape and the soundness of the table are inductive.
LEMMA TableStep ==
  TypeOK /\ Shape /\ TableInv /\ [Next]_vars => TableInv'
<1> SUFFICES ASSUME TypeOK, Shape, TableInv, [Next]_vars PROVE TableInv' OBVIOUS
<1>1. CASE Next
  <2>1. TypeOK' BY TypeStep
  <2>2. SameTable \/ GainStep \/ \E row \in Rows : Loses(row) BY <1>1, StepTable
  <2>3. UniqueIps' /\ UniqueIds' /\ RowsToCome' /\ Identified' /\ LocksItsOwn'
    BY <2>1, <2>2, TableKept
  <2>4. ReadsItsOwn'
    <3>1. SUFFICES ASSUME NEW q \in Requests, req'[q].row # NoRow
                   PROVE  LET row == req'[q].row
                          IN  /\ req'[q].dev \in Devices
                              /\ db'[row].status # "NONE" /\ db'[row].id = req'[q].dev
                              /\ db'[row].ip \in {req'[q].ip, NoIp}
      BY DEF ReadsItsOwn, IsRotation, Live
    <3>2. CASE IsRotation(q) /\ req'[q].row = req[q].row
                 /\ req'[q].dev = req[q].dev /\ req'[q].ip = req[q].ip
      BY <2>2, <3>2, ReadStays DEF TableInv, ReadsItsOwn
    <3>3. CASE /\ UNCHANGED db
               /\ req'[q].dev \in Devices /\ req'[q].row \in RowsOfId(req'[q].dev)
               /\ req'[q].ip = db[req'[q].row].ip /\ req'[q].ip \in Ips
      BY <3>3 DEF RowsOfId, Live
    <3>4. QED BY <1>1, <3>1, <3>2, <3>3, RotationsStart
  <2>5. ReadAlike'
    <3>1. SUFFICES ASSUME NEW r \in Requests, NEW q \in Requests,
                          req'[r].row # NoRow, req'[q].row = req'[r].row
                   PROVE  req'[r].ip = req'[q].ip
      BY DEF ReadAlike, IsRotation
    <3> DEFINE Kept(s) == IsRotation(s) /\ req'[s].row = req[s].row
                            /\ req'[s].dev = req[s].dev /\ req'[s].ip = req[s].ip
               Fresh(s) == /\ UNCHANGED db
                           /\ req'[s].dev \in Devices /\ req'[s].row \in RowsOfId(req'[s].dev)
                           /\ req'[s].ip = db[req'[s].row].ip /\ req'[s].ip \in Ips
    <3>2. (Kept(r) \/ Fresh(r)) /\ (Kept(q) \/ Fresh(q))
      BY <1>1, <3>1, RotationsStart
    <3>3. \A s \in Requests, t \in Requests :
            Kept(s) /\ Fresh(t) /\ req'[s].row = req'[t].row => req'[s].ip = req'[t].ip
      <4>1. SUFFICES ASSUME NEW s \in Requests, NEW t \in Requests, Kept(s), Fresh(t),
                            req'[s].row = req'[t].row
                     PROVE  req'[s].ip = req'[t].ip
        OBVIOUS
      <4>2. db[req[s].row].ip \in {req[s].ip, NoIp} BY <4>1 DEF TableInv, ReadsItsOwn
      <4>3. db[req[s].row].ip = req'[t].ip /\ req'[t].ip # NoIp BY <4>1
      <4>4. QED BY <4>1, <4>2, <4>3
    <3>4. QED BY <3>1, <3>2, <3>3 DEF TableInv, ReadAlike
  <2>6. QED BY <2>3, <2>4, <2>5 DEF TableInv
<1>2. CASE UNCHANGED vars
  BY <1>2 DEF vars, registryVars, serverVars, TableInv, UniqueIps, UniqueIds, RowsToCome,
    Identified, LocksItsOwn, ReadsItsOwn, ReadAlike, Live, Holds, IsRotation
<1>3. QED BY <1>1, <1>2

\* The table is sound in every execution.
LEMMA TableInvariant == Spec => [](TypeOK /\ Shape /\ TableInv)
BY InitType, InitTable, TypeStep, TableStep, PTL DEF Spec

-----------------------------------------------------------------------------
(* The table implements the leases *)

\* The lease of an address is that of the record that holds it.
LeaseIs(ip, id) ==
  \/ \E row \in Rows : Holds(row, ip) /\ db[row].id = id
  \/ (\A row \in Rows : ~Holds(row, ip)) /\ id = NoDevice

LeasesRead ==
  \A ip \in Ips, id \in DeviceIds \cup {NoDevice} : LeaseIs(ip, id) => LeaseOf(ip) = id

\* Since no two records hold an address, the mapping reads the one that does.
LEMMA LeaseReads == UniqueIps => LeasesRead
<1> SUFFICES ASSUME UniqueIps, NEW ip \in Ips, NEW id, LeaseIs(ip, id)
             PROVE  LeaseOf(ip) = id
  BY DEF LeasesRead
<1>0. ip # NoIp OBVIOUS
<1>1. CASE \A row \in Rows : ~Holds(row, ip)
  <2>1. RowsOfIp(ip) = {} BY <1>0, <1>1 DEF RowsOfIp, Holds
  <2>2. QED BY <1>1, <2>1 DEF LeaseOf, LeaseIs
<1>2. ASSUME NEW row \in Rows, Holds(row, ip), db[row].id = id PROVE LeaseOf(ip) = id
  <2>1. row \in RowsOfIp(ip) BY <1>2 DEF RowsOfIp, Holds
  <2>2. Holds(CHOOSE q \in Rows : Holds(q, ip), ip) /\ (CHOOSE q \in Rows : Holds(q, ip)) \in Rows
    BY <1>2
  <2>3. (CHOOSE q \in Rows : Holds(q, ip)) = row
    BY <1>2, <2>2 DEF UniqueIps, Holds
  <2>4. QED BY <1>2, <2>1, <2>3 DEF LeaseOf
<1>3. QED BY <1>1, <1>2 DEF LeaseIs

\* So does the mapping after a step.
LEMMA LeaseReadsNext == UniqueIps' => LeasesRead'
BY LeaseReads, PTL

LeaseMap == [ip \in Ips |-> LeaseOf(ip)]

\* Every address is leased to a device, to a temporary name or to nobody.
LEMMA SomeLease ==
  ASSUME TableInv, NEW ip \in Ips
  PROVE  \E id \in DeviceIds \cup {NoDevice} : LeaseIs(ip, id)
BY DEF TableInv, Identified, LeaseIs, Holds

\* A step that leaves identities and addresses alone leaves the leases alone.
LEMMA SameLeases ==
  ASSUME TableInv, UniqueIps', SameTable
  PROVE  LeaseMap' = LeaseMap
<1>1. ASSUME NEW ip \in Ips PROVE LeaseOf(ip)' = LeaseOf(ip)
  <2>1. PICK id \in DeviceIds \cup {NoDevice} : LeaseIs(ip, id) BY SomeLease
  <2>2. LeaseIs(ip, id)' BY <2>1 DEF SameTable, LeaseIs, Holds, Live
  <2>3. QED BY <2>1, <2>2, LeaseReads, LeaseReadsNext DEF TableInv, LeasesRead
<1>2. QED BY <1>1 DEF LeaseMap

\* A gain is a grant of an address that is free to a device that has none.
LEMMA GainGrants ==
  ASSUME TableInv, UniqueIps', NEW row \in Rows, NEW id \in DeviceIds, NEW ip \in Ips,
         Gains(row, id, ip)
  PROVE  /\ LeaseMap[ip] = NoDevice
         /\ \A other \in Ips : LeaseMap[other] # id
         /\ LeaseMap' = [LeaseMap EXCEPT ![ip] = id]
<1> USE DEF Live
<1>1. LeaseMap[ip] = NoDevice
  <2>1. LeaseIs(ip, NoDevice) BY DEF Gains, LeaseIs
  <2>2. QED BY <2>1, LeaseReads DEF TableInv, LeasesRead, LeaseMap
<1>2. ASSUME NEW other \in Ips PROVE LeaseMap[other] # id
  <2>1. PICK who \in DeviceIds \cup {NoDevice} : LeaseIs(other, who) BY SomeLease
  <2>2. who # id BY <2>1 DEF Gains, LeaseIs, Holds
  <2>3. QED BY <2>1, <2>2, LeaseReads DEF TableInv, LeasesRead, LeaseMap
<1>3. LeaseOf(ip)' = id
  <2>1. LeaseIs(ip, id)' BY DEF Gains, LeaseIs, Holds
  <2>2. QED BY <2>1, LeaseReadsNext DEF LeasesRead
<1>4. ASSUME NEW other \in Ips \ {ip} PROVE LeaseOf(other)' = LeaseOf(other)
  <2>1. PICK who \in DeviceIds \cup {NoDevice} : LeaseIs(other, who) BY SomeLease
  <2>2. LeaseIs(other, who)' BY <2>1 DEF Gains, LeaseIs, Holds
  <2>3. QED BY <2>1, <2>2, LeaseReads, LeaseReadsNext DEF TableInv, LeasesRead
<1>5. QED BY <1>1, <1>2, <1>3, <1>4 DEF LeaseMap

\* A loss is a release, unless the record had no address any more.
LEMMA LossReleases ==
  ASSUME TableInv, UniqueIps', NEW row \in Rows, Loses(row),
         NEW ip \in Ips, db[row].ip = ip
  PROVE  /\ LeaseMap[ip] # NoDevice
         /\ LeaseMap' = [LeaseMap EXCEPT ![ip] = NoDevice]
<1> USE DEF Live
<1>1. LeaseMap[ip] # NoDevice
  <2>1. LeaseIs(ip, db[row].id) /\ db[row].id \in DeviceIds
    BY DEF Loses, LeaseIs, Holds, TableInv, Identified
  <2>2. QED BY <2>1, LeaseReads DEF TableInv, LeasesRead, LeaseMap
<1>2. LeaseOf(ip)' = NoDevice
  <2>1. \A q \in Rows : db'[q].status # "NONE" => db'[q].ip # ip
    BY DEF Loses, TableInv, UniqueIps, Holds
  <2>2. LeaseIs(ip, NoDevice)' BY <2>1 DEF LeaseIs, Holds
  <2>3. QED BY <2>2, LeaseReadsNext DEF LeasesRead
<1>3. ASSUME NEW other \in Ips \ {ip} PROVE LeaseOf(other)' = LeaseOf(other)
  <2>1. PICK who \in DeviceIds \cup {NoDevice} : LeaseIs(other, who) BY SomeLease
  <2>2. LeaseIs(other, who)' BY <2>1 DEF Loses, LeaseIs, Holds
  <2>3. QED BY <2>1, <2>2, LeaseReads, LeaseReadsNext DEF TableInv, LeasesRead
<1>4. QED BY <1>1, <1>2, <1>3 DEF LeaseMap

\* A loss by a record that had no address changes no lease.
LEMMA LossOfNothing ==
  ASSUME TableInv, UniqueIps', NEW row \in Rows, Loses(row), db[row].ip = NoIp
  PROVE  LeaseMap' = LeaseMap
<1>1. ASSUME NEW ip \in Ips PROVE LeaseOf(ip)' = LeaseOf(ip)
  <2>1. PICK id \in DeviceIds \cup {NoDevice} : LeaseIs(ip, id) BY SomeLease
  <2>2. LeaseIs(ip, id)' BY <2>1 DEF Loses, LeaseIs, Holds, Live
  <2>3. QED BY <2>1, <2>2, LeaseReads, LeaseReadsNext DEF TableInv, LeasesRead
<1>2. QED BY <1>1 DEF LeaseMap

\* The empty table leases nothing.
LEMMA InitLeases == Init => Lease!Init
<1> SUFFICES ASSUME Init PROVE Lease!Init OBVIOUS
<1>1. \A ip \in Ips : LeaseIs(ip, NoDevice)
  BY DEF Init, RegistryInit, EmptyRow, LeaseIs, Holds, Live
<1>2. TableInv BY InitTable
<1>3. \A ip \in Ips : LeaseOf(ip) = NoDevice
  BY <1>1, <1>2, LeaseReads DEF TableInv, LeasesRead
<1>4. QED BY <1>3 DEF Lease!Init

\* Every step grants a lease, releases one or changes none.
LEMMA StepLeases ==
  TypeOK /\ Shape /\ TableInv /\ [Next]_vars => Lease!Next \/ LeaseMap' = LeaseMap
<1> SUFFICES ASSUME TypeOK, Shape, TableInv, [Next]_vars
             PROVE  Lease!Next \/ LeaseMap' = LeaseMap
  OBVIOUS
<1>0. TableInv' BY TableStep
<1>u. UniqueIps' BY <1>0 DEF TableInv
<1>1. CASE SameTable BY <1>1, <1>u, SameLeases
<1>2. CASE GainStep
  <2>1. PICK row \in Rows, id \in DeviceIds, ip \in Ips : Gains(row, id, ip)
    BY <1>2 DEF GainStep
  <2>2. /\ LeaseMap[ip] = NoDevice
        /\ \A other \in Ips : LeaseMap[other] # id
        /\ LeaseMap' = [LeaseMap EXCEPT ![ip] = id]
    BY <1>u, <2>1, GainGrants
  <2>3. Lease!Grant(id, ip) BY <2>2 DEF Lease!Grant, LeaseMap
  <2>4. QED BY <2>3 DEF Lease!Next
<1>3. ASSUME NEW row \in Rows, Loses(row) PROVE Lease!Next \/ LeaseMap' = LeaseMap
  <2>1. db[row].ip \in Ips \cup {NoIp} BY DEF TypeOK, RegistryTypeOK, Row
  <2>2. CASE db[row].ip = NoIp BY <1>3, <1>u, <2>2, LossOfNothing
  <2>3. ASSUME NEW ip \in Ips, db[row].ip = ip PROVE Lease!Next
    <3>1. /\ LeaseMap[ip] # NoDevice
          /\ LeaseMap' = [LeaseMap EXCEPT ![ip] = NoDevice]
      BY <1>3, <1>u, <2>3, LossReleases
    <3>2. Lease!Release(ip) BY <3>1 DEF Lease!Release, LeaseMap
    <3>3. QED BY <3>2 DEF Lease!Next
  <2>4. QED BY <2>1, <2>2, <2>3
<1>4. CASE UNCHANGED vars
  BY <1>1, <1>4 DEF vars, registryVars, SameTable, Live
<1>5. QED BY <1>1, <1>2, <1>3, <1>4, StepTable

\* The Device table implements the leases: requests that race, fail or are cut
\* off, boots and crashes never move an address from one device to another, and
\* never give a device a second one.
THEOREM TableImplementsLeases == Spec => LeaseSpec
<1>1. TypeOK /\ Shape /\ TableInv /\ [Next]_vars
        => [Lease!Next]_([ip \in Ips |-> LeaseOf(ip)])
  BY StepLeases DEF LeaseMap
<1>2. QED BY InitLeases, TableInvariant, <1>1, PTL DEF Spec, LeaseSpec, Lease!Spec

-----------------------------------------------------------------------------
(* A drone keeps the address it was answered with *)

Recorded(d, ip) == \E row \in RowsOfId(d) : db[row].ip = ip

\* A drone that was answered, or is about to be, has the address of its record.
DeliverInv ==
  /\ \A r \in Requests : req[r].pc \in {"map", "reply"} => Recorded(req[r].dev, req[r].ip)
  /\ \A d \in Devices : conf[d] # NoConf => Recorded(d, conf[d].ip)

\* The table has such a record after the step.
Records(d, ip) ==
  \E row \in Rows : db'[row].status # "NONE" /\ db'[row].id = d /\ db'[row].ip = ip

\* While revocations keep addresses, what is recorded stays recorded.
LEMMA RecordStays ==
  ASSUME TypeOK, Shape, TableInv, [Next]_vars, "drop" \notin RevokeModes,
         NEW d, NEW ip \in Ips, Recorded(d, ip)
  PROVE  Records(d, ip)
<1> USE DEF Live
<1>1. PICK q \in Rows : Live(q) /\ db[q].id = d /\ db[q].ip = ip
  BY DEF Recorded, RowsOfId
<1>2. db'[q].status # "NONE" /\ db'[q].id = d /\ db'[q].ip = ip
  <2>1. CASE SameTable BY <1>1, <2>1 DEF SameTable
  <2>2. CASE GainStep BY <1>1, <2>2 DEF GainStep, Gains
  <2>3. CASE UNCHANGED vars BY <1>1, <2>3 DEF vars, registryVars
  <2>4. QED BY <2>1, <2>2, <2>3, StepTable
<1>3. QED BY <1>2 DEF Records

\* A record that was just written has the address that the handler allocated.
LEMMA StoredIsRecorded ==
  ASSUME TypeOK, Shape, TableInv, NEW r \in Requests, CreateDevice(r) \/ UpdateDevice(r)
  PROVE  Records(req[r].dev, req[r].ip)
<1>1. CASE CreateDevice(r)
  <2>1. /\ nextRow \in Rows
        /\ db' = [db EXCEPT ![nextRow] = [status |-> "ACTIVE", id |-> req[r].dev,
                                          ip |-> req[r].ip, key |-> req[r].key]]
    BY <1>1 DEF CreateDevice, CreateRow
  <2>2. db'[nextRow] = [status |-> "ACTIVE", id |-> req[r].dev,
                        ip |-> req[r].ip, key |-> req[r].key]
    BY <2>1 DEF TypeOK, RegistryTypeOK
  <2>3. QED BY <2>1, <2>2 DEF Records
<1>2. CASE UpdateDevice(r)
  <2> DEFINE row == req[r].row
  <2>1. row \in Rows /\ db[row] \in Row /\ IsRotation(r)
    <3>1. req[r] \in Handler BY DEF TypeOK
    <3>2. QED BY <1>2, <3>1 DEF UpdateDevice, IsRotation, Handler, TypeOK, RegistryTypeOK
  <2>2. db'[row] = [db[row] EXCEPT !.status = "ACTIVE", !.ip = req[r].ip, !.key = req[r].key]
    BY <1>2, <2>1 DEF UpdateDevice, UpdateRow, TypeOK, RegistryTypeOK
  <2>3. db[row].id = req[r].dev BY <2>1 DEF TableInv, ReadsItsOwn
  <2>4. QED BY <2>1, <2>2, <2>3 DEF Records, Row
<1>3. QED BY <1>1, <1>2

LEMMA InitDelivers == Init => DeliverInv
BY DEF Init, DeliverInv, IdleHandler

\* Every step keeps the answers recorded.
LEMMA DeliverStep ==
  ASSUME "drop" \notin RevokeModes
  PROVE  TypeOK /\ Shape /\ TableInv /\ DeliverInv /\ [Next]_vars => DeliverInv'
<1> SUFFICES ASSUME TypeOK, Shape, TableInv, DeliverInv, [Next]_vars PROVE DeliverInv'
  OBVIOUS
<1>0. req \in [Requests -> Handler] /\ \A r \in Requests : HandlerShape(req[r])
  BY DEF TypeOK, Shape
<1>1. ASSUME NEW q \in Requests, req'[q].pc \in {"map", "reply"}
      PROVE  Records(req'[q].dev, req'[q].ip)
  <2>1. CASE CreateDevice(q) \/ UpdateDevice(q)
    <3>1. Records(req[q].dev, req[q].ip) BY <2>1, StoredIsRecorded
    <3>2. req'[q].dev = req[q].dev /\ req'[q].ip = req[q].ip
      BY <1>0, <2>1 DEF CreateDevice, UpdateDevice, Handler
    <3>3. QED BY <3>1, <3>2
  <2>2. CASE /\ req[q].pc \in {"map", "reply"}
             /\ req'[q].dev = req[q].dev /\ req'[q].ip = req[q].ip
    <3>1. Recorded(req[q].dev, req[q].ip) /\ req[q].ip \in Ips
      BY <1>0, <2>2 DEF DeliverInv, HandlerShape, HandlerHas
    <3>2. Records(req[q].dev, req[q].ip) BY <3>1, RecordStays
    <3>3. QED BY <2>2, <3>2
  <2>3. QED
    <3>1. ASSUME NEW r \in Requests, Handle(r) \/ FailsEarly(r) \/ AddNewPeerFails(r), r # q
          PROVE  req'[q] = req[q]
      BY <1>0, <3>1 DEF Handle, AllocateIp, GenerateKeypair, RemoveOldPeer, AddNewPeer,
        CreateDevice, UpdateDevice, StoreFails, UndoPeer, RestoreOldPeer, MapIp, Reply,
        ReplyError, FailsEarly, AddNewPeerFails, Goto
    <3>2. ASSUME Handle(q) \/ FailsEarly(q) \/ AddNewPeerFails(q),
                 ~CreateDevice(q), ~UpdateDevice(q)
          PROVE  /\ req[q].pc \in {"map", "reply"}
                 /\ req'[q].dev = req[q].dev /\ req'[q].ip = req[q].ip
      BY <1>0, <1>1, <3>2 DEF Handle, AllocateIp, GenerateKeypair, RemoveOldPeer, AddNewPeer,
        StoreFails, UndoPeer, RestoreOldPeer, MapIp, Reply, ReplyError, FailsEarly,
        AddNewPeerFails, Goto, At, Handler, IdleHandler
    <3>3. ASSUME NEW r \in Requests, NEW d \in Devices, RegisterDevice(r, d)
          PROVE  req'[q] = req[q]
      <4>1. CASE q # r
        BY <1>0, <3>3, <4>1 DEF RegisterDevice, StartNew, StartRotation, StartRefused
      <4>2. ASSUME StartNew(q, d) PROVE FALSE
        BY <1>0, <1>1, <4>2 DEF StartNew, IdleHandler
      <4>3. ASSUME StartRotation(q, d) PROVE FALSE
        <5>1. PICK row \in RowsOfId(d) :
                 req' = [req EXCEPT ![q] =
                   [IdleHandler EXCEPT !.pc = RotationStart(row), !.dev = d,
                      !.row = row, !.ip = db[row].ip, !.old = db[row].key]]
          BY <4>3 DEF StartRotation
        <5>2. RotationStart(row) \in {"allocate", "generate"} BY DEF RotationStart
        <5>3. QED BY <1>0, <1>1, <5>1, <5>2 DEF IdleHandler
      <4>4. ASSUME StartRefused(q, d) PROVE FALSE
        BY <1>0, <1>1, <4>4 DEF StartRefused, IdleHandler
      <4>5. QED BY <3>3, <4>1, <4>2, <4>3, <4>4 DEF RegisterDevice
    <3>4. ASSUME NEW host \in BOOLEAN, Crash(host) PROVE FALSE
      BY <1>1, <3>4 DEF Crash, IdleHandler
    <3>5. CASE UNCHANGED req
      BY <1>1, <2>2, <3>5
    <3>6. QED
      BY <1>1, <2>1, <2>2, <3>1, <3>2, <3>3, <3>4, <3>5 DEF Next, Step, LoseConnection, Revoke,
        BootStep, Boot, BootFails, ReadKernel, Listen, RestorePeer, SyncPeer, serverVars, vars
<1>2. ASSUME NEW d \in Devices, conf'[d] # NoConf PROVE Records(d, conf'[d].ip)
  <2>1. CASE conf'[d] = conf[d]
    <3>1. conf[d].ip \in Ips BY <1>2, <2>1 DEF TypeOK, Binding
    <3>2. Recorded(d, conf[d].ip) BY <1>2, <2>1 DEF DeliverInv
    <3>3. QED BY <2>1, <3>1, <3>2, RecordStays
  <2>2. ASSUME NEW r \in Requests, Reply(r), conf'[d] # conf[d]
        PROVE  Records(d, conf'[d].ip)
    <3>1. d = req[r].dev /\ conf'[d].ip = req[r].ip /\ req[r].ip \in Ips
      BY <1>0, <2>2 DEF Reply, At, TypeOK, HandlerShape, HandlerHas
    <3>2. Recorded(d, req[r].ip) BY <2>2, <3>1 DEF Reply, At, DeliverInv
    <3>3. QED BY <3>1, <3>2, RecordStays
  <2>3. CASE UNCHANGED conf BY <2>1, <2>3
  <2>4. QED
    BY <2>1, <2>2, <2>3 DEF Next, Step, RegisterDevice, Handle, AllocateIp, GenerateKeypair,
      RemoveOldPeer, AddNewPeer, CreateDevice, UpdateDevice, StoreFails, UndoPeer,
      RestoreOldPeer, MapIp, ReplyError, FailsEarly, AddNewPeerFails, LoseConnection, Revoke,
      Crash, BootStep, Boot, BootFails, ReadKernel, Listen, RestorePeer, SyncPeer, agentVars, vars
<1>3. QED BY <1>1, <1>2 DEF DeliverInv, Records, Recorded, RowsOfId, Live

\* A drone that was answered holds the address that the table records for it,
\* whatever registrations race, fail or are repeated after a lost answer, as
\* long as no operator takes an address out of a record.
THEOREM DeliveredStaysOwn ==
  ASSUME "drop" \notin RevokeModes
  PROVE  Spec => []DeliveredAddressIsOwn
<1>1. DeliverInv => DeliveredAddressIsOwn
  BY DEF DeliverInv, Recorded, DeliveredAddressIsOwn
<1>2. TypeOK /\ Shape /\ TableInv /\ DeliverInv /\ [Next]_vars => DeliverInv'
  BY DeliverStep
<1>3. QED BY InitDelivers, TableInvariant, <1>1, <1>2, PTL DEF Spec

-----------------------------------------------------------------------------
(* The kernel's routes are leased *)

\* Only a rotation has an old peer to put back.
RestoresRotate == \A r \in Requests : At(r, "restoreOld") => IsRotation(r)

\* Until the server listens no handler runs.
BootsAlone == phase # "up" => \A r \in Requests : At(r, "idle")

\* Every record has an address: nobody takes one out.
RowsHaveIps == \A row \in Rows : Live(row) => db[row].ip \in Ips

StoredSoon(ip) ==
  \E r \in Requests : req[r].key = route[ip] /\ req[r].pc \in {"store", "undo"}

\* Up to a failure: while the boot synchronises, an address that the kernel
\* routes has a record or is on the boot's list; once the server listens, it
\* has a record or a handler is about to store it or to take it back.
RouteInv ==
  faults = 0 =>
    /\ phase = "sync" => \A ip \in Ips : route[ip] # NoKey =>
         RowsOfIp(ip) # {} \/ [key |-> route[ip], ip |-> ip] \in todo
    /\ phase = "up" => \A ip \in Ips : route[ip] # NoKey =>
         RowsOfIp(ip) # {} \/ StoredSoon(ip)

KernelInv == RestoresRotate /\ BootsAlone /\ RowsHaveIps /\ RouteInv

LEMMA InitKernel == Init => KernelInv
BY DEF Init, RegistryInit, EmptyRow, IdleHandler, KernelInv, RestoresRotate, BootsAlone,
  RowsHaveIps, RouteInv, At, Live

\* A handler that runs runs in a server that listens, and the others stay.
LEMMA HandlersRun ==
  ASSUME TypeOK, BootsAlone, NEW r \in Requests,
         Handle(r) \/ FailsEarly(r) \/ AddNewPeerFails(r)
  PROVE  /\ phase = "up" /\ phase' = "up"
         /\ \A q \in Requests \ {r} : req'[q] = req[q]
<1>1. phase' = phase /\ ~At(r, "idle")
  BY DEF Handle, AllocateIp, GenerateKeypair, RemoveOldPeer, AddNewPeer, CreateDevice,
    UpdateDevice, StoreFails, UndoPeer, RestoreOldPeer, MapIp, Reply, ReplyError, FailsEarly,
    AddNewPeerFails, At
<1>2. \A q \in Requests \ {r} : req'[q] = req[q]
  BY DEF TypeOK, Handle, AllocateIp, GenerateKeypair, RemoveOldPeer, AddNewPeer, CreateDevice,
    UpdateDevice, StoreFails, UndoPeer, RestoreOldPeer, MapIp, Reply, ReplyError, FailsEarly,
    AddNewPeerFails, Goto
<1>3. QED BY <1>1, <1>2 DEF BootsAlone

\* An agent's call is taken by an idle handler of a server that listens.
LEMMA CallsStart ==
  ASSUME TypeOK, NEW r \in Requests, NEW d \in Devices, RegisterDevice(r, d)
  PROVE  /\ phase = "up" /\ phase' = "up" /\ At(r, "idle")
         /\ req'[r].pc \in {"allocate", "generate", "failed"}
         /\ \A q \in Requests \ {r} : req'[q] = req[q]
<1>1. phase = "up" /\ phase' = "up" /\ At(r, "idle") BY DEF RegisterDevice
<1>2. /\ req'[r].pc \in {"allocate", "generate", "failed"}
      /\ \A q \in Requests \ {r} : req'[q] = req[q]
  <2>1. CASE StartNew(r, d) BY <2>1 DEF TypeOK, StartNew, IdleHandler
  <2>2. CASE StartRotation(r, d)
    BY <2>2 DEF TypeOK, StartRotation, RotationStart, IdleHandler
  <2>3. CASE StartRefused(r, d) BY <2>3 DEF TypeOK, StartRefused, IdleHandler
  <2>4. QED BY <2>1, <2>2, <2>3 DEF RegisterDevice
<1>3. QED BY <1>1, <1>2

LEMMA RestoresRotateKept ==
  ASSUME TypeOK, RestoresRotate, BootsAlone, [Next]_vars
  PROVE  RestoresRotate' /\ BootsAlone'
<1> USE DEF At
<1>1. ASSUME NEW r \in Requests, Handle(r) \/ FailsEarly(r) \/ AddNewPeerFails(r)
      PROVE  RestoresRotate' /\ BootsAlone'
  <2>1. phase' = "up" /\ \A q \in Requests \ {r} : req'[q] = req[q]
    BY <1>1, HandlersRun
  <2>2. req'[r].pc = "restoreOld" => req'[r].row # NoRow
    <3>1. req[r] \in Handler BY DEF TypeOK
    <3>2. req'[r].pc = "restoreOld" => IsRotation(r) /\ req'[r].row = req[r].row
      BY <1>1, <3>1 DEF TypeOK, Handle, AllocateIp, GenerateKeypair, RemoveOldPeer, AddNewPeer,
        CreateDevice, UpdateDevice, StoreFails, UndoPeer, RestoreOldPeer, MapIp, Reply,
        ReplyError, FailsEarly, AddNewPeerFails, Goto, IdleHandler, Handler
    <3>3. QED BY <3>2 DEF IsRotation
  <2>3. QED BY <2>1, <2>2 DEF RestoresRotate, BootsAlone, IsRotation
<1>2. ASSUME NEW r \in Requests, NEW d \in Devices, RegisterDevice(r, d)
      PROVE  RestoresRotate' /\ BootsAlone'
  BY <1>2, CallsStart DEF RestoresRotate, BootsAlone, IsRotation
<1>3. ASSUME NEW host \in BOOLEAN, Crash(host) PROVE RestoresRotate' /\ BootsAlone'
  BY <1>3 DEF Crash, IdleHandler, RestoresRotate, BootsAlone, IsRotation
<1>4. CASE UNCHANGED req /\ (phase = "up" => phase' = "up")
  BY <1>4 DEF RestoresRotate, BootsAlone, IsRotation
<1>5. QED
  BY <1>1, <1>2, <1>3, <1>4 DEF Next, Step, LoseConnection, Revoke, BootStep, Boot, BootFails,
    ReadKernel, Listen, RestorePeer, SyncPeer, serverVars, vars

\* While revocations keep addresses, what has a record has one after the step,
\* and every record has an address.
LEMMA RowsStay ==
  ASSUME TypeOK, Shape, TableInv, RowsHaveIps, [Next]_vars, "drop" \notin RevokeModes
  PROVE  /\ \A ip \in Ips : RowsOfIp(ip) # {} => RowsOfIp(ip)' # {}
         /\ RowsHaveIps'
<1> USE DEF Live
<1>1. CASE SameTable BY <1>1 DEF SameTable, RowsOfIp, RowsHaveIps
<1>2. CASE GainStep
  <2>1. PICK row \in Rows, id \in DeviceIds, ip \in Ips : Gains(row, id, ip)
    BY <1>2 DEF GainStep
  <2>2. \A q \in Rows : Live(q) => q # row BY <2>1 DEF Gains, RowsHaveIps
  <2>3. QED BY <2>1, <2>2 DEF Gains, RowsOfIp, RowsHaveIps
<1>3. CASE UNCHANGED vars BY <1>3 DEF vars, registryVars, RowsOfIp, RowsHaveIps
<1>4. QED BY <1>1, <1>2, <1>3, StepTable

\* A record that a handler stored holds its address.
LEMMA StoredHasRow ==
  ASSUME TypeOK, Shape, TableInv, NEW r \in Requests, CreateDevice(r) \/ UpdateDevice(r)
  PROVE  \A ip \in Ips : ip = req[r].ip => RowsOfIp(ip)' # {}
BY StoredIsRecorded DEF Records, RowsOfIp, Live

\* Nothing that a handler does leaves a route without a record.
LEMMA HandlerKeepsRoutes ==
  ASSUME TypeOK, Shape, KeyInv, TableInv, KernelInv, "drop" \notin RevokeModes,
         NEW r \in Requests, Handle(r) \/ FailsEarly(r) \/ AddNewPeerFails(r), faults' = 0
  PROVE  \A ip \in Ips : route'[ip] # NoKey =>
           \/ RowsOfIp(ip)' # {}
           \/ \E q \in Requests : req'[q].key = route'[ip] /\ req'[q].pc \in {"store", "undo"}
<1> DEFINE Kept(ip) == \/ RowsOfIp(ip)' # {}
                       \/ \E q \in Requests :
                            req'[q].key = route'[ip] /\ req'[q].pc \in {"store", "undo"}
<1>0. /\ req \in [Requests -> Handler] /\ HandlerShape(req[r])
      /\ route \in [Ips -> Keys \cup {NoKey}] /\ faults \in Nat /\ MaxFaults \in Nat
  BY DEF TypeOK, Shape, RegistryTypeOK
<1>1. phase = "up" /\ \A q \in Requests \ {r} : req'[q] = req[q]
  BY HandlersRun DEF KernelInv
<1>2. faults = 0 /\ ~FailsEarly(r) /\ ~AddNewPeerFails(r)
  BY <1>0 DEF Handle, AllocateIp, GenerateKeypair, RemoveOldPeer, AddNewPeer, CreateDevice,
    UpdateDevice, StoreFails, UndoPeer, RestoreOldPeer, MapIp, Reply, ReplyError, FailsEarly,
    AddNewPeerFails, Fault, budgetVars
<1>3. \A ip \in Ips : route[ip] # NoKey => RowsOfIp(ip) # {} \/ StoredSoon(ip)
  BY <1>1, <1>2 DEF KernelInv, RouteInv
<1>4. \A ip \in Ips : RowsOfIp(ip) # {} => RowsOfIp(ip)' # {}
  <2>1. [Next]_vars BY DEF Next, Step
  <2>2. QED BY <2>1, RowsStay DEF KernelInv
\* A route that stays is kept unless r alone answered for it.
<1>5. ASSUME NEW ip \in Ips, route[ip] # NoKey, route'[ip] = route[ip],
             req[r].pc \in {"store", "undo"} /\ req[r].key = route[ip] =>
               RowsOfIp(ip)' # {} \/ (req'[r].pc \in {"store", "undo"} /\ req'[r].key = req[r].key)
      PROVE  Kept(ip)
  <2>1. CASE RowsOfIp(ip) # {} BY <1>4, <2>1
  <2>2. ASSUME NEW q \in Requests, req[q].key = route[ip], req[q].pc \in {"store", "undo"}
        PROVE  Kept(ip)
    <3>1. CASE q = r BY <1>5, <2>2, <3>1
    <3>2. CASE q # r BY <1>1, <1>5, <2>2, <3>2
    <3>3. QED BY <3>1, <3>2
  <2>3. QED BY <1>3, <1>5, <2>1, <2>2 DEF StoredSoon
<1> HIDE DEF Kept
<1>6. CASE /\ req[r].pc \notin {"store", "undo"}
           /\ \A ip \in Ips : route'[ip] # NoKey => route'[ip] = route[ip]
  BY <1>5, <1>6 DEF Kept
<1>7. CASE AddNewPeer(r)
  <2>1. /\ req[r].ip \in Ips /\ req[r].key \in Keys /\ req[r].pc = "add"
        /\ req'[r].pc = "store" /\ req'[r].key = req[r].key
    BY <1>0, <1>7 DEF AddNewPeer, At, Goto, HandlerShape, HandlerHas, Handler
  <2>2. route' = RouteWith(req[r].key, req[r].ip)
    BY <1>7, <2>1 DEF AddNewPeer, AddPeer, IsRealKey
  <2>3. ASSUME NEW ip \in Ips, route'[ip] # NoKey PROVE Kept(ip)
    <3>1. CASE ip = req[r].ip
      <4>1. route'[ip] = req[r].key BY <2>2, <3>1 DEF RouteWith
      <4>2. QED BY <2>1, <4>1 DEF Kept
    <3>2. CASE ip # req[r].ip
      <4>1. route'[ip] = route[ip] BY <2>2, <2>3, <3>2 DEF RouteWith
      <4>2. QED BY <1>5, <2>1, <2>3, <4>1
    <3>3. QED BY <3>1, <3>2
  <2>4. QED BY <2>3 DEF Kept
<1>8. CASE CreateDevice(r) \/ UpdateDevice(r)
  <2>1. req[r].ip \in Ips /\ req[r].key \in Keys /\ UNCHANGED route
    BY <1>0, <1>8 DEF CreateDevice, UpdateDevice, At, HandlerShape, HandlerHas
  <2>2. \A ip \in Ips : ip = req[r].ip => RowsOfIp(ip)' # {} BY <1>8, StoredHasRow
  <2>3. ASSUME NEW ip \in Ips, req[r].key = route[ip] PROVE ip = req[r].ip
    <3>1. Bound(req[r].key, ip) /\ Bound(req[r].key, req[r].ip) BY <2>3 DEF Bound
    <3>2. QED BY <2>1, <3>1 DEF KeyInv
  <2>4. \A ip \in Ips : route'[ip] # NoKey => Kept(ip) BY <1>5, <2>1, <2>2, <2>3
  <2>5. QED BY <2>4 DEF Kept
<1>9. CASE StoreFails(r)
  <2>1. UNCHANGED route /\ req'[r].pc = "undo" /\ req'[r].key = req[r].key
    BY <1>0, <1>9 DEF StoreFails, Goto, registryVars, Handler
  <2>2. \A ip \in Ips : route'[ip] # NoKey => Kept(ip) BY <1>5, <2>1
  <2>3. QED BY <2>2 DEF Kept
<1>10. CASE UndoPeer(r)
  <2>1. req[r].key \in Keys BY <1>0, <1>10 DEF UndoPeer, At, HandlerShape, HandlerHas
  <2>2. route' = RouteWithout(req[r].key)
    BY <1>0, <1>2, <1>10, <2>1 DEF UndoPeer, RemovePeer, IsRealKey, Fault
  <2>3. \A ip \in Ips : route'[ip] # NoKey => route'[ip] = route[ip] /\ route[ip] # req[r].key
    BY <2>2 DEF RouteWithout
  <2>4. \A ip \in Ips : route'[ip] # NoKey => Kept(ip) BY <1>5, <2>3
  <2>5. QED BY <2>4 DEF Kept
<1>11. CASE RestoreOldPeer(r)
  <2>1. req[r].ip \in Ips /\ req[r].pc = "restoreOld"
    BY <1>0, <1>11 DEF RestoreOldPeer, At, HandlerShape, HandlerHas
  <2>2. RowsOfIp(req[r].ip) # {}
    <3>1. IsRotation(r) BY <1>11 DEF KernelInv, RestoresRotate, RestoreOldPeer
    <3>2. req[r].row \in Rows BY <1>0, <3>1 DEF IsRotation, Handler
    <3>3. Live(req[r].row) /\ db[req[r].row].ip \in {req[r].ip, NoIp}
      BY <3>1 DEF TableInv, ReadsItsOwn
    <3>4. db[req[r].row].ip = req[r].ip BY <3>2, <3>3 DEF KernelInv, RowsHaveIps
    <3>5. QED BY <3>2, <3>3, <3>4 DEF RowsOfIp
  <2>3. route' = IF IsRealKey(req[r].old) THEN RouteWith(req[r].old, req[r].ip) ELSE route
    BY <1>0, <1>2, <1>11 DEF RestoreOldPeer, AddPeer, Fault
  <2>4. ASSUME NEW ip \in Ips, route'[ip] # NoKey PROVE Kept(ip)
    <3>1. CASE ip = req[r].ip BY <1>4, <2>2, <3>1 DEF Kept
    <3>2. CASE ip # req[r].ip
      <4>1. route'[ip] = route[ip] BY <2>3, <2>4, <3>2 DEF RouteWith
      <4>2. QED BY <1>5, <2>1, <2>4, <4>1
    <3>3. QED BY <3>1, <3>2
  <2>5. QED BY <2>4 DEF Kept
<1>12. CASE AllocateIp(r) \/ GenerateKeypair(r) \/ RemoveOldPeer(r) \/ MapIp(r)
              \/ Reply(r) \/ ReplyError(r)
  <2>1. req[r].pc \notin {"store", "undo"}
    BY <1>12 DEF AllocateIp, GenerateKeypair, RemoveOldPeer, MapIp, Reply, ReplyError, At
  <2>2. UNCHANGED route \/ RemovePeer(req[r].old)
    BY <1>12 DEF AllocateIp, GenerateKeypair, RemoveOldPeer, MapIp, Reply, ReplyError,
      registryVars
  <2>3. \A ip \in Ips : route'[ip] # NoKey => route'[ip] = route[ip]
    BY <2>2 DEF RemovePeer, RouteWithout
  <2>4. QED BY <1>6, <2>1, <2>3
<1>13. QED
  BY <1>2, <1>7, <1>8, <1>9, <1>10, <1>11, <1>12 DEF Handle

LEMMA KernelStep ==
  ASSUME "drop" \notin RevokeModes
  PROVE  TypeOK /\ Shape /\ KeyInv /\ TableInv /\ KernelInv /\ [Next]_vars => KernelInv'
<1> SUFFICES ASSUME TypeOK, Shape, KeyInv, TableInv, KernelInv, [Next]_vars PROVE KernelInv'
  OBVIOUS
<1>1. RestoresRotate' /\ BootsAlone' BY RestoresRotateKept DEF KernelInv
<1>2. RowsHaveIps' /\ \A ip \in Ips : RowsOfIp(ip) # {} => RowsOfIp(ip)' # {}
  BY RowsStay DEF KernelInv
<1>3. RouteInv'
  <2>0. SUFFICES ASSUME faults' = 0 PROVE RouteInv' BY DEF RouteInv
  <2>1. faults \in Nat /\ MaxFaults \in Nat BY DEF TypeOK
  <2>2. ASSUME NEW r \in Requests, Handle(r) \/ FailsEarly(r) \/ AddNewPeerFails(r)
        PROVE  RouteInv'
    <3>1. phase' = "up" BY <2>2, HandlersRun DEF KernelInv
    <3>2. QED BY <2>0, <2>2, <3>1, HandlerKeepsRoutes DEF RouteInv, StoredSoon
  <2>3. ASSUME NEW r \in Requests, NEW d \in Devices, RegisterDevice(r, d) PROVE RouteInv'
    <3>1. /\ phase = "up" /\ phase' = "up" /\ req[r].pc = "idle"
          /\ \A q \in Requests \ {r} : req'[q] = req[q]
      BY <2>3, CallsStart DEF At
    <3>2. UNCHANGED <<route, faults>> BY <2>3 DEF RegisterDevice, registryVars, budgetVars
    <3>3. ASSUME NEW ip \in Ips, route[ip] # NoKey
          PROVE  \/ RowsOfIp(ip)' # {}
                 \/ \E q \in Requests : req'[q].key = route[ip] /\ req'[q].pc \in {"store", "undo"}
      <4>1. RowsOfIp(ip) # {} \/ StoredSoon(ip)
        BY <2>0, <3>1, <3>2, <3>3 DEF KernelInv, RouteInv
      <4>2. CASE RowsOfIp(ip) # {} BY <1>2, <4>2
      <4>3. ASSUME NEW q \in Requests, req[q].key = route[ip], req[q].pc \in {"store", "undo"}
            PROVE  req'[q].key = route[ip] /\ req'[q].pc \in {"store", "undo"}
        <5>1. q # r BY <3>1, <4>3
        <5>2. QED BY <3>1, <4>3, <5>1
      <4>4. QED BY <4>1, <4>2, <4>3 DEF StoredSoon
    <3>4. QED BY <3>1, <3>2, <3>3 DEF RouteInv, StoredSoon
  <2>4. CASE phase' \in {"down", "restore"} BY <2>4 DEF RouteInv
  <2>5. CASE ReadKernel
    <3>1. phase' = "sync" /\ UNCHANGED route /\ todo' = KernelPeers
      BY <2>0, <2>1, <2>5 DEF ReadKernel, Fault, registryVars
    <3>2. \A ip \in Ips : route[ip] # NoKey => [key |-> route[ip], ip |-> ip] \in KernelPeers
      BY DEF TypeOK, RegistryTypeOK, KernelPeers, Binding
    <3>3. QED BY <3>1, <3>2 DEF RouteInv
  <2>6. ASSUME NEW b \in todo, SyncPeer(b) PROVE RouteInv'
    <3>1. /\ phase = "sync" /\ phase' = "sync" /\ UNCHANGED <<route, faults>>
          /\ todo' = todo \ {b}
      BY <2>0, <2>1, <2>6 DEF SyncPeer, Fault
    <3>2. b.ip \in Ips /\ db \in [Rows -> Row] BY DEF TypeOK, Binding, RegistryTypeOK
    <3>3. RowsOfIp(b.ip)' # {}
      <4>1. ASSUME NEW row \in Rows, AdoptKey(b, row) PROVE RowsOfIp(b.ip)' # {}
        <5>1. RowsOfIp(b.ip) # {} BY <4>1 DEF AdoptKey, Holds, RowsOfIp
        <5>2. QED BY <1>2, <3>2, <5>1
      <4>2. ASSUME LockAddress(b) PROVE RowsOfIp(b.ip)' # {}
        <5>1. ASSUME NEW row \in RowsOfId(TempId(b.ip)), UpdateRow(row, b.ip, b.key)
              PROVE  RowsOfIp(b.ip)' # {}
          <6>1. row \in Rows /\ db[row] \in Row BY <3>2 DEF RowsOfId
          <6>2. db'[row].status = "ACTIVE" /\ db'[row].ip = b.ip
            BY <3>2, <5>1, <6>1 DEF UpdateRow, Row
          <6>3. QED BY <6>1, <6>2 DEF RowsOfIp, Live
        <5>2. ASSUME CreateRow(TempId(b.ip), b.ip, b.key) PROVE RowsOfIp(b.ip)' # {}
          <6>1. /\ nextRow \in Rows
                /\ db'[nextRow] = [status |-> "ACTIVE", id |-> TempId(b.ip),
                                   ip |-> b.ip, key |-> b.key]
            BY <3>2, <5>2 DEF CreateRow
          <6>2. QED BY <6>1 DEF RowsOfIp, Live
        <5>3. QED BY <4>2, <5>1, <5>2 DEF LockAddress
      <4>3. QED BY <2>0, <2>1, <2>6, <4>1, <4>2 DEF SyncPeer, Fault
    <3>4. ASSUME NEW ip \in Ips, route[ip] # NoKey
          PROVE  RowsOfIp(ip)' # {} \/ [key |-> route[ip], ip |-> ip] \in todo'
      <4>1. RowsOfIp(ip) # {} \/ [key |-> route[ip], ip |-> ip] \in todo
        BY <2>0, <3>1, <3>4 DEF KernelInv, RouteInv
      <4>2. QED BY <1>2, <3>1, <3>3, <4>1
    <3>5. QED BY <3>1, <3>4 DEF RouteInv
  <2>7. CASE Listen
    <3>1. /\ phase = "sync" /\ phase' = "up" /\ todo = {}
          /\ UNCHANGED <<route, faults>>
      BY <2>7 DEF Listen, registryVars, budgetVars
    <3>2. \A ip \in Ips : route[ip] # NoKey => RowsOfIp(ip) # {}
      BY <2>0, <3>1 DEF KernelInv, RouteInv
    <3>3. QED BY <1>2, <3>1, <3>2 DEF RouteInv
  <2>8. CASE UNCHANGED <<route, req, phase, todo, faults>>
    <3>1. \A ip \in Ips : StoredSoon(ip) => StoredSoon(ip)' BY <2>8 DEF StoredSoon
    <3>2. QED BY <1>2, <2>8, <3>1 DEF KernelInv, RouteInv
  <2>9. QED
    <3>1. ASSUME NEW d \in Devices, LoseConnection(d) PROVE FALSE
      BY <2>0, <2>1, <3>1 DEF LoseConnection, Fault
    <3>2. ASSUME NEW row \in Rows, NEW mode \in RevokeModes, Revoke(row, mode)
          PROVE  UNCHANGED <<route, req, phase, todo, faults>>
      BY <3>2 DEF Revoke, serverVars, budgetVars
    <3>3. ASSUME NEW host \in BOOLEAN, Crash(host) PROVE phase' = "down" BY <3>3 DEF Crash
    <3>4. ASSUME Boot \/ BootFails \/ \E b \in todo : RestorePeer(b) PROVE phase' = "restore"
      BY <3>4 DEF Boot, BootFails, RestorePeer
    <3>5. CASE UNCHANGED vars
      BY <2>8, <3>5 DEF vars, registryVars, serverVars, budgetVars
    <3>6. QED
      BY <2>2, <2>3, <2>4, <2>5, <2>6, <2>7, <2>8, <3>1, <3>2, <3>3, <3>4, <3>5
        DEF Next, Step, BootStep
<1>4. QED BY <1>1, <1>2, <1>3 DEF KernelInv

\* As long as no command fails and no operator takes an address out of a
\* record, an address that the pool offers is not routed, unless its record is
\* revoked or a handler that routed it is about to store or to take it back:
\* crashes of the server, registrations that race and the boot's repairs leave
\* no route behind that the pool would give away a second time.
THEOREM OfferedStaysUnrouted ==
  ASSUME "drop" \notin RevokeModes
  PROVE  Spec => []OfferedIsUnrouted
<1>1. TypeOK /\ KernelInv => OfferedIsUnrouted
  <2>1. SUFFICES ASSUME TypeOK, KernelInv, phase = "up", faults = 0, NEW ip \in FreeIps,
                        route[ip] # NoKey, NEW row \in RowsOfIp(ip)
                 PROVE  db[row].status = "REVOKED"
    BY DEF KernelInv, RouteInv, StoredSoon, OfferedIsUnrouted, FreeIps
  <2>2. db[row] \in Row /\ Live(row) /\ db[row].ip = ip /\ row \in Rows
    BY <2>1 DEF TypeOK, RegistryTypeOK, RowsOfIp
  <2>3. ip \in Ips /\ row \notin ActiveRows BY <2>1, <2>2 DEF FreeIps, UsedIps
  <2>4. db[row].status # "ACTIVE" BY <2>2, <2>3 DEF ActiveRows
  <2>5. QED BY <2>2, <2>4 DEF Live, Row
<1>2. TypeOK /\ Shape /\ KeyInv /\ [Next]_vars => KeyInv' BY KeyStep
<1>3. TypeOK /\ Shape /\ KeyInv /\ TableInv /\ KernelInv /\ [Next]_vars => KernelInv'
  BY KernelStep
<1>4. QED BY InitKeys, InitKernel, TableInvariant, <1>1, <1>2, <1>3, PTL DEF Spec

-----------------------------------------------------------------------------
(* The kernel's routes match the table *)

\* Requests come one at a time, and there is one failure at most: during the
\* first boot, or while no boot repairs what a crash cut off.
OneByOne == \A p, q \in Requests : p = q
Spared == faults <= 1 /\ (faults = 0 \/ crashes = 0)

Carries(row) == route[db[row].ip] = db[row].key
KeyRows == {row \in ActiveRows : IsRealKey(db[row].key)}

\* A handler that has an address has it alone, or for the record whose key it
\* is about to replace.
HasAddress(r) == req[r].pc \in {"generate", "removeOld", "add", "store", "undo", "restoreOld"}

AddressIsOwn ==
  \A r \in Requests : HasAddress(r) =>
    /\ \A q \in ActiveRows : db[q].ip = req[r].ip => q = req[r].row
    /\ IsRotation(r) => db[req[r].row].key = req[r].old

\* The handler has taken the record's peer away and not yet brought one back.
Replaces(r, row) ==
  req[r].row = row /\ req[r].pc \in {"add", "store", "undo", "restoreOld"}

StoresRouted == \A r \in Requests : At(r, "store") => route[req[r].ip] = req[r].key

\* With nobody else there to take the address, the write of an active record
\* is never refused: what is rolled back met a failure.
RollsBackFaults ==
  \A r \in Requests :
    req[r].pc \in {"undo", "restoreOld"} /\ req[r].row \in ActiveRows => faults >= 1

SyncsKernel == phase = "sync" => todo \subseteq KernelPeers

FirstBootIsEmpty ==
  crashes = 0 /\ phase \in {"down", "restore"} => todo = {} /\ \A row \in Rows : ~Live(row)

SoloInv ==
  /\ AddressIsOwn /\ StoresRouted /\ RollsBackFaults /\ SyncsKernel /\ FirstBootIsEmpty

\* While the boot restores, an active record has its peer in the kernel or on
\* the list, which disagrees with no record.
RestoreLists ==
  phase = "restore" =>
    /\ \A row \in KeyRows : Carries(row) \/ [key |-> db[row].key, ip |-> db[row].ip] \in todo
    /\ \A b \in todo, q \in ActiveRows : db[q].ip = b.ip => db[q].key = b.key

\* From then on it has its peer in the kernel, or a handler is replacing it.
Tunnelled ==
  phase \in {"sync", "up"} =>
    \A row \in KeyRows : Carries(row) \/ \E r \in Requests : Replaces(r, row)

TunnelInv == Spared => RestoreLists /\ Tunnelled

LEMMA InitTunnels == Init => SoloInv /\ TunnelInv
BY DEF Init, RegistryInit, EmptyRow, IdleHandler, SoloInv, TunnelInv, AddressIsOwn, HasAddress,
  StoresRouted, RollsBackFaults, SyncsKernel, FirstBootIsEmpty, RestoreLists, Tunnelled, At, Live

\* What an active record has.
ActiveHave ==
  \A row \in ActiveRows :
    /\ row \in Rows /\ Live(row) /\ db[row].ip \in Ips
    /\ IsRealKey(db[row].key) => db[row].key \in Keys

LEMMA ActiveTyped == TypeOK => ActiveHave
<1>1. SUFFICES ASSUME TypeOK, NEW row \in ActiveRows
               PROVE  /\ row \in Rows /\ Live(row) /\ db[row].ip \in Ips
                      /\ IsRealKey(db[row].key) => db[row].key \in Keys
  BY DEF ActiveHave
<1>2. row \in Rows /\ db[row] \in Row BY <1>1 DEF ActiveRows, TypeOK, RegistryTypeOK
<1>3. QED BY <1>2 DEF ActiveRows, Row, Live, IsRealKey

\* Adding or removing the peer of one address leaves the peers of the others.
LEMMA OtherPeersStay ==
  ASSUME TypeOK, KeyInv, NEW k, NEW ip \in Ips, k \in Keys => Bound(k, ip),
         k \in Int, IsRealKey(k) => k \in Keys,
         AddPeer(k, ip) \/ RemovePeer(k), NEW i \in Ips, i # ip, route[i] \in Keys
  PROVE  route'[i] = route[i]
<1>1. CASE IsRealKey(k)
  <2>1. k \in Keys BY <1>1
  <2>2. route[i] # k
    <3>1. SUFFICES ASSUME route[i] = k PROVE FALSE OBVIOUS
    <3>2. Bound(k, i) BY <3>1 DEF Bound
    <3>3. QED BY <2>1, <3>2 DEF KeyInv
  <2>3. QED BY <1>1, <2>2 DEF AddPeer, RemovePeer, RouteWith, RouteWithout
<1>2. CASE ~IsRealKey(k) BY <1>2 DEF AddPeer, RemovePeer
<1>3. QED BY <1>1, <1>2

\* A step that no handler and no boot takes: it leaves the kernel alone, and an
\* operator takes records out at most.
Quiet ==
  /\ UNCHANGED <<route, req, phase, todo, crashes>>
  /\ faults' \in {faults, faults + 1}
  /\ \A q \in Rows : /\ db'[q].status = "ACTIVE" => db'[q] = db[q]
                     /\ db'[q].key = db[q].key
                     /\ db'[q].status # "NONE" => Live(q)

LEMMA QuietSteps ==
  ASSUME TypeOK,
         \/ \E d \in Devices : LoseConnection(d)
         \/ \E row \in Rows, mode \in RevokeModes : Revoke(row, mode)
         \/ UNCHANGED vars
  PROVE  Quiet
<1>1. ASSUME NEW row \in Rows, NEW mode \in RevokeModes, Revoke(row, mode) PROVE Quiet
  <2>0. db[row] \in Row /\ db \in [Rows -> Row] BY DEF TypeOK, RegistryTypeOK
  <2>1. \A q \in Rows \ {row} : db'[q] = db[q] BY <1>1, <2>0 DEF Revoke
  <2>2. db[row].status = "ACTIVE" BY <1>1 DEF Revoke
  <2>3. db'[row].status = "REVOKED" /\ db'[row].key = db[row].key
    BY <1>1, <2>0 DEF Revoke, Row
  <2>4. UNCHANGED <<route, req, phase, todo, crashes, faults>>
    BY <1>1 DEF Revoke, serverVars, budgetVars
  <2>5. QED BY <2>1, <2>2, <2>3, <2>4 DEF Quiet, Live
<1>2. ASSUME NEW d \in Devices, LoseConnection(d) PROVE Quiet
  BY <1>2 DEF LoseConnection, Fault, registryVars, serverVars, Quiet, Live
<1>3. CASE UNCHANGED vars
  BY <1>3 DEF vars, registryVars, serverVars, budgetVars, Quiet, Live
<1>4. QED BY <1>1, <1>2, <1>3

LEMMA QuietKeeps ==
  ASSUME TypeOK, SoloInv, Quiet
  PROVE  SoloInv' /\ (RestoreLists => RestoreLists') /\ (Tunnelled => Tunnelled')
<1>0. /\ \A q \in ActiveRows' : q \in ActiveRows /\ q \in Rows /\ db'[q] = db[q]
      /\ \A q \in Rows : db'[q].key = db[q].key /\ (db'[q].status # "NONE" => Live(q))
      /\ UNCHANGED <<route, req, phase, todo, crashes>>
      /\ faults \in Nat /\ faults' \in {faults, faults + 1}
      /\ \A r \in Requests : IsRotation(r) => req[r].row \in Rows
  <2>1. \A r \in Requests : req[r] \in Handler BY DEF TypeOK
  <2>2. \A r \in Requests : IsRotation(r) => req[r].row \in Rows
    BY <2>1 DEF IsRotation, Handler
  <2>3. faults \in Nat BY DEF TypeOK
  <2>4. QED BY <2>2, <2>3 DEF Quiet, ActiveRows
<1>1. AddressIsOwn'
  BY <1>0 DEF SoloInv, AddressIsOwn, HasAddress, IsRotation
<1>2. StoresRouted' BY <1>0 DEF SoloInv, StoresRouted, At
<1>3. RollsBackFaults' BY <1>0 DEF SoloInv, RollsBackFaults
<1>4. SyncsKernel' BY <1>0 DEF SoloInv, SyncsKernel, KernelPeers
<1>5. FirstBootIsEmpty' BY <1>0 DEF SoloInv, FirstBootIsEmpty, Live
<1>6. RestoreLists => RestoreLists' BY <1>0 DEF RestoreLists, KeyRows, Carries
<1>7. Tunnelled => Tunnelled' BY <1>0 DEF Tunnelled, KeyRows, Carries, Replaces
<1>8. QED BY <1>1, <1>2, <1>3, <1>4, <1>5, <1>6, <1>7 DEF SoloInv

\* What a call reads: a rotation that has its address has read an active
\* record's address and key.
LEMMA CallsRead ==
  ASSUME TypeOK, NEW r \in Requests, NEW d \in Devices, RegisterDevice(r, d)
  PROVE  \/ req'[r].pc \in {"allocate", "failed"}
         \/ \E row \in Rows :
              /\ Live(row) /\ db[row].ip # NoIp
              /\ req'[r].pc = "generate" /\ req'[r].row = row
              /\ req'[r].ip = db[row].ip /\ req'[r].old = db[row].key
<1>0. req \in [Requests -> Handler] BY DEF TypeOK
<1>1. CASE StartNew(r, d) BY <1>0, <1>1 DEF StartNew, IdleHandler
<1>2. CASE StartRefused(r, d) BY <1>0, <1>2 DEF StartRefused, IdleHandler
<1>3. CASE StartRotation(r, d)
  <2>1. PICK row \in RowsOfId(d) :
          req' = [req EXCEPT ![r] =
            [IdleHandler EXCEPT !.pc = RotationStart(row), !.dev = d,
                                !.row = row, !.ip = db[row].ip, !.old = db[row].key]]
    BY <1>3 DEF StartRotation
  <2>2. /\ req'[r].pc = RotationStart(row) /\ req'[r].row = row
        /\ req'[r].ip = db[row].ip /\ req'[r].old = db[row].key
    BY <1>0, <2>1 DEF IdleHandler
  <2>3. row \in Rows /\ Live(row) BY DEF RowsOfId
  <2>4. CASE db[row].ip = NoIp BY <2>2, <2>4 DEF RotationStart
  <2>5. CASE db[row].ip # NoIp BY <2>2, <2>3, <2>5 DEF RotationStart
  <2>6. QED BY <2>4, <2>5
<1>4. QED BY <1>1, <1>2, <1>3 DEF RegisterDevice

\* A call keeps everything: the kernel and the table stay, and the address that
\* it reads is its record's alone.
LEMMA CallsKeep ==
  ASSUME TypeOK, TableInv, SoloInv, NEW r \in Requests, NEW d \in Devices,
         RegisterDevice(r, d)
  PROVE  SoloInv' /\ RestoreLists' /\ (Tunnelled => Tunnelled')
<1>0. /\ phase = "up" /\ phase' = "up" /\ req[r].pc = "idle"
      /\ req'[r].pc \in {"allocate", "generate", "failed"}
      /\ \A q \in Requests \ {r} : req'[q] = req[q]
      /\ UNCHANGED <<db, route, faults, crashes>>
  <2>1. UNCHANGED <<db, route, faults, crashes>>
    BY DEF RegisterDevice, registryVars, budgetVars
  <2>2. QED BY <2>1, CallsStart DEF At
<1>1. AddressIsOwn'
  <2>1. SUFFICES ASSUME NEW q \in Requests,
                        req'[q].pc \in {"generate", "removeOld", "add", "store", "undo", "restoreOld"}
                 PROVE  /\ \A p \in ActiveRows : db[p].ip = req'[q].ip => p = req'[q].row
                        /\ req'[q].row # NoRow => db[req'[q].row].key = req'[q].old
    BY <1>0 DEF AddressIsOwn, HasAddress, IsRotation, ActiveRows
  <2>2. CASE q # r
    BY <1>0, <2>1, <2>2 DEF SoloInv, AddressIsOwn, HasAddress, IsRotation
  <2>3. CASE q = r
    <3>1. PICK row \in Rows :
            /\ Live(row) /\ db[row].ip # NoIp
            /\ req'[r].row = row /\ req'[r].ip = db[row].ip /\ req'[r].old = db[row].key
      BY <2>1, <2>3, CallsRead
    <3>2. \A p \in ActiveRows : db[p].ip = db[row].ip => p = row
      BY <3>1 DEF TableInv, UniqueIps, Holds, ActiveRows, Live
    <3>3. QED BY <2>3, <3>1, <3>2
  <2>4. QED BY <2>2, <2>3
<1>2. StoresRouted' BY <1>0 DEF SoloInv, StoresRouted, At
<1>3. RollsBackFaults' BY <1>0 DEF SoloInv, RollsBackFaults, ActiveRows
<1>4. SyncsKernel' /\ FirstBootIsEmpty' /\ RestoreLists'
  BY <1>0 DEF SyncsKernel, FirstBootIsEmpty, RestoreLists
<1>5. Tunnelled => Tunnelled'
  <2>1. \A row \in Rows, q \in Requests : Replaces(q, row) => q # r /\ Replaces(q, row)'
    BY <1>0 DEF Replaces
  <2>2. QED BY <1>0, <2>1 DEF Tunnelled, KeyRows, ActiveRows, Carries
<1>6. QED BY <1>1, <1>2, <1>3, <1>4, <1>5 DEF SoloInv

\* A crash leaves nothing that a boot does not look at again.
LEMMA CrashKeeps ==
  ASSUME TypeOK, NEW host \in BOOLEAN, Crash(host)
  PROVE  SoloInv' /\ RestoreLists' /\ Tunnelled'
<1>1. /\ phase' = "down" /\ crashes' # 0
      /\ \A r \in Requests : req'[r].pc = "idle"
  BY DEF TypeOK, Crash, IdleHandler
<1>2. QED
  BY <1>1 DEF SoloInv, AddressIsOwn, HasAddress, StoresRouted, RollsBackFaults, SyncsKernel,
    FirstBootIsEmpty, RestoreLists, Tunnelled, At

\* A boot keeps what is said of the handlers, since none runs, and reads the
\* kernel's own peers.
LEMMA BootKeeps ==
  ASSUME TypeOK, BootsAlone, SoloInv, BootStep
  PROVE  SoloInv'
<1>0. /\ phase # "up" /\ UNCHANGED <<req, crashes>> /\ \A r \in Requests : req[r].pc = "idle"
  <2>1. phase # "up" /\ UNCHANGED <<req, crashes>>
    BY DEF BootStep, Boot, BootFails, ReadKernel, Listen, RestorePeer, SyncPeer, budgetVars
  <2>2. QED BY <2>1 DEF BootsAlone, At
<1>1. AddressIsOwn' /\ StoresRouted' /\ RollsBackFaults'
  BY <1>0 DEF AddressIsOwn, HasAddress, StoresRouted, RollsBackFaults, At
<1>2. SyncsKernel'
  <2>1. CASE ReadKernel
    BY <2>1 DEF ReadKernel, SyncsKernel, KernelPeers, registryVars
  <2>2. ASSUME NEW b \in todo, SyncPeer(b) PROVE SyncsKernel'
    BY <2>2 DEF SyncPeer, SoloInv, SyncsKernel, KernelPeers
  <2>3. CASE phase' # "sync" BY <2>3 DEF SyncsKernel
  <2>4. QED
    BY <2>1, <2>2, <2>3 DEF BootStep, Boot, BootFails, Listen, RestorePeer
<1>3. FirstBootIsEmpty'
  <2>1. SUFFICES ASSUME crashes = 0, phase' \in {"down", "restore"}
                 PROVE  todo' = {} /\ \A row \in Rows : db'[row].status = "NONE"
    BY <1>0 DEF FirstBootIsEmpty, Live
  <2>2. phase \in {"down", "restore"} /\ UNCHANGED db
    BY <2>1 DEF BootStep, Boot, BootFails, ReadKernel, Listen, RestorePeer, SyncPeer,
      registryVars
  <2>3. todo = {} /\ \A row \in Rows : db[row].status = "NONE"
    BY <2>1, <2>2 DEF SoloInv, FirstBootIsEmpty, Live
  <2>4. PeersToRestore = {} BY <2>3 DEF PeersToRestore, ActiveRows
  <2>5. todo' = {}
    BY <2>1, <2>3, <2>4 DEF BootStep, Boot, BootFails, ReadKernel, Listen, RestorePeer, SyncPeer
  <2>6. QED BY <2>2, <2>3, <2>5
<1>4. QED BY <1>1, <1>2, <1>3 DEF SoloInv

\* A boot without a failure lists every active record and disagrees with none.
LEMMA BootLists ==
  ASSUME TypeOK, TableInv, Boot
  PROVE  RestoreLists'
<1>0. UNCHANGED <<db, route>> /\ todo' = PeersToRestore BY DEF Boot
<1>1. \A row \in KeyRows : [key |-> db[row].key, ip |-> db[row].ip] \in PeersToRestore
  BY DEF KeyRows, PeersToRestore
<1>2. ASSUME NEW b \in PeersToRestore, NEW q \in ActiveRows, db[q].ip = b.ip
      PROVE  db[q].key = b.key
  <2>1. PICK p \in ActiveRows : b = [key |-> db[p].key, ip |-> db[p].ip]
    BY DEF PeersToRestore
  <2>2. p = q BY <1>2, <2>1 DEF TableInv, UniqueIps, Holds, ActiveRows, Live
  <2>3. QED BY <2>1, <2>2
<1>3. QED BY <1>0, <1>1, <1>2 DEF RestoreLists, KeyRows, ActiveRows, Carries

\* The first boot restores nothing, so a failure of it loses nothing.
LEMMA FirstBootLosesNothing ==
  ASSUME TypeOK, SoloInv, Spared', Fault, UNCHANGED crashes, phase \in {"down", "restore"}
  PROVE  todo = {} /\ ActiveRows = {}
<1>1. faults \in Nat /\ faults' = faults + 1 BY DEF TypeOK, Fault
<1>2. crashes = 0 BY <1>1 DEF Spared
<1>3. QED BY <1>2 DEF SoloInv, FirstBootIsEmpty, ActiveRows, Live

LEMMA RestoreKeepsLists ==
  ASSUME TypeOK, KeyInv, SoloInv, RestoreLists, Spared', NEW b \in todo, RestorePeer(b)
  PROVE  RestoreLists'
<1>0. /\ phase = "restore" /\ todo' = todo \ {b} /\ UNCHANGED <<db, crashes>>
      /\ b = [key |-> b.key, ip |-> b.ip] /\ b.key \in Keys /\ b.ip \in Ips
      /\ route \in [Ips -> Keys \cup {NoKey}]
  BY DEF RestorePeer, TypeOK, RegistryTypeOK, Binding
<1>1. AddPeer(b.key, b.ip)
  <2>1. CASE Fault BY <1>0, <2>1, FirstBootLosesNothing
  <2>2. QED BY <2>1 DEF RestorePeer
<1>2. route' = RouteWith(b.key, b.ip) BY <1>0, <1>1 DEF AddPeer, IsRealKey
<1>3. Bound(b.key, b.ip) BY <1>0 DEF Bound
<1>4. ASSUME NEW row \in KeyRows
      PROVE  \/ route'[db[row].ip] = db[row].key
             \/ [key |-> db[row].key, ip |-> db[row].ip] \in todo'
  <2>0. /\ row \in ActiveRows /\ db[row].ip \in Ips /\ db[row].key \in Keys
        /\ Carries(row) \/ [key |-> db[row].key, ip |-> db[row].ip] \in todo
    BY <1>0, ActiveTyped DEF ActiveHave, KeyRows, RestoreLists
  <2>1. CASE db[row].ip = b.ip
    <3>1. db[row].key = b.key BY <1>0, <2>0, <2>1 DEF RestoreLists
    <3>2. route'[b.ip] = b.key BY <1>0, <1>2 DEF RouteWith
    <3>3. QED BY <2>1, <3>1, <3>2
  <2>2. CASE db[row].ip # b.ip /\ Carries(row)
    <3>1. route[db[row].ip] = db[row].key BY <2>2 DEF Carries
    <3>2. route'[db[row].ip] = route[db[row].ip]
      BY <1>0, <1>1, <1>3, <2>0, <2>2, <3>1, OtherPeersStay
    <3>3. QED BY <3>1, <3>2
  <2>3. CASE db[row].ip # b.ip /\ [key |-> db[row].key, ip |-> db[row].ip] \in todo
    BY <1>0, <2>3
  <2>4. QED BY <2>0, <2>1, <2>2, <2>3
<1>5. QED BY <1>0, <1>4 DEF RestoreLists, KeyRows, ActiveRows, Carries

\* A record that takes or locks a kernel peer's key is the one that peer serves.
LEMMA SyncKeepsTunnels ==
  ASSUME TypeOK, SoloInv, Tunnelled, NEW b \in todo, SyncPeer(b)
  PROVE  Tunnelled'
<1>0. /\ phase = "sync" /\ UNCHANGED <<route, req>>
      /\ route[b.ip] = b.key /\ db \in [Rows -> Row]
  BY DEF SyncPeer, SoloInv, SyncsKernel, KernelPeers, TypeOK, RegistryTypeOK
<1>1. \A row \in Rows : db'[row] = db[row] \/ (db'[row].key = b.key /\ db'[row].ip = b.ip)
  <2>1. ASSUME NEW row \in Rows, UpdateRow(row, b.ip, b.key) PROVE <1>1
    <3>1. db[row] \in Row BY <1>0
    <3>2. QED BY <1>0, <2>1, <3>1 DEF UpdateRow, Row
  <2>2. CASE CreateRow(TempId(b.ip), b.ip, b.key)
    BY <1>0, <2>2 DEF CreateRow
  <2>3. CASE UNCHANGED db BY <2>3
  <2>4. QED BY <2>1, <2>2, <2>3 DEF SyncPeer, AdoptKey, LockAddress, RowsOfId
<1>2. QED BY <1>0, <1>1 DEF Tunnelled, KeyRows, ActiveRows, Carries, Replaces

\* A boot keeps or repairs the tunnels, the first one's failure excepted.
LEMMA BootTunnels ==
  ASSUME TypeOK, KeyInv, TableInv, SoloInv, TunnelInv, Spared, Spared', BootStep
  PROVE  RestoreLists' /\ Tunnelled'
<1>0. RestoreLists /\ Tunnelled BY DEF TunnelInv
<1>1. CASE Boot BY <1>1, BootLists DEF Boot, Tunnelled
<1>2. CASE BootFails
  <2>1. UNCHANGED <<db, todo, crashes>> /\ phase' = "restore" /\ phase = "down" /\ Fault
    BY <1>2 DEF BootFails, registryVars
  <2>2. todo = {} /\ ActiveRows = {} BY <2>1, FirstBootLosesNothing
  <2>3. todo' = {} /\ ActiveRows' = {} BY <2>1, <2>2 DEF ActiveRows
  <2>4. QED BY <2>1, <2>3 DEF RestoreLists, KeyRows, Tunnelled
<1>3. ASSUME NEW b \in todo, RestorePeer(b) PROVE RestoreLists' /\ Tunnelled'
  BY <1>0, <1>3, RestoreKeepsLists DEF RestorePeer, Tunnelled
<1>4. CASE ReadKernel
  <2>1. phase = "restore" /\ todo = {} /\ phase' = "sync" /\ UNCHANGED <<db, route, req>>
    BY <1>4 DEF ReadKernel, registryVars
  <2>2. \A row \in KeyRows : Carries(row) BY <1>0, <2>1 DEF RestoreLists
  <2>3. QED BY <2>1, <2>2 DEF RestoreLists, Tunnelled, KeyRows, ActiveRows, Carries
<1>5. ASSUME NEW b \in todo, SyncPeer(b) PROVE RestoreLists' /\ Tunnelled'
  BY <1>0, <1>5, SyncKeepsTunnels DEF SyncPeer, RestoreLists
<1>6. CASE Listen
  <2>1. phase = "sync" /\ phase' = "up" /\ UNCHANGED <<db, route, req>>
    BY <1>6 DEF Listen, registryVars
  <2>2. QED
    BY <1>0, <2>1 DEF RestoreLists, Tunnelled, KeyRows, ActiveRows, Carries, Replaces
<1>7. QED BY <1>1, <1>2, <1>3, <1>4, <1>5, <1>6 DEF BootStep

\* A handler that has stored its key goes on to the map.
LEMMA StoredGoesOn ==
  ASSUME TypeOK, NEW r \in Requests, CreateDevice(r) \/ UpdateDevice(r)
  PROVE  req'[r].pc = "map"
<1>0. req \in [Requests -> Handler] /\ req[r] \in Handler BY DEF TypeOK
<1>1. CASE CreateDevice(r) BY <1>0, <1>1 DEF CreateDevice, Handler
<1>2. CASE UpdateDevice(r)
  <2>1. req'[r] = [req[r] EXCEPT !.pc = "map", !.id = db[req[r].row].id]
    BY <1>0, <1>2 DEF UpdateDevice
  <2>2. QED BY <1>0, <2>1 DEF Handler
<1>3. QED BY <1>1, <1>2

\* The steps that lead to a store and to a rollback.
LEMMA HandlersPass ==
  ASSUME TypeOK, NEW r \in Requests, Handle(r) \/ FailsEarly(r) \/ AddNewPeerFails(r)
  PROVE  /\ req'[r].pc = "store" => AddNewPeer(r)
         /\ req'[r].pc = "undo" => StoreFails(r)
         /\ req'[r].pc = "restoreOld" => UndoPeer(r) \/ AddNewPeerFails(r)
<1>0. req \in [Requests -> Handler] /\ req[r] \in Handler BY DEF TypeOK
<1>1. ASSUME NEW pc, Goto(r, pc) PROVE req'[r].pc = pc BY <1>0, <1>1 DEF Goto, Handler
<1>2. CASE AllocateIp(r)
  <2>1. req'[r].pc \in {"generate", "failed"} BY <1>0, <1>1, <1>2 DEF AllocateIp, Handler
  <2>2. QED BY <2>1
<1>3. CASE GenerateKeypair(r)
  <2>1. req'[r].pc \in {"removeOld", "add"} BY <1>0, <1>3 DEF GenerateKeypair, Handler
  <2>2. QED BY <2>1
<1>4. CASE CreateDevice(r) \/ UpdateDevice(r) BY <1>4, StoredGoesOn
<1>5. CASE Reply(r) \/ ReplyError(r)
  <2>1. req'[r].pc = "idle" BY <1>0, <1>5 DEF Reply, ReplyError, IdleHandler
  <2>2. QED BY <2>1
<1>6. CASE RemoveOldPeer(r) \/ MapIp(r) \/ RestoreOldPeer(r) \/ FailsEarly(r)
  <2>1. req'[r].pc \in {"add", "reply", "failed"}
    BY <1>1, <1>6 DEF RemoveOldPeer, MapIp, RestoreOldPeer, FailsEarly
  <2>2. QED BY <2>1
<1>7. CASE AddNewPeer(r) BY <1>1, <1>7 DEF AddNewPeer
<1>8. CASE StoreFails(r) BY <1>1, <1>8 DEF StoreFails
<1>9. CASE UndoPeer(r) \/ AddNewPeerFails(r)
  <2>1. Goto(r, IF IsRotation(r) THEN "restoreOld" ELSE "failed")
    BY <1>9 DEF UndoPeer, AddNewPeerFails
  <2>2. req'[r].pc = IF IsRotation(r) THEN "restoreOld" ELSE "failed" BY <1>1, <2>1
  <2>3. QED BY <1>9, <2>2
<1>10. QED BY <1>2, <1>3, <1>4, <1>5, <1>6, <1>7, <1>8, <1>9 DEF Handle

\* A handler that has its address after a step had it before, with the same
\* record and the same old key, or has just taken a free one for a new device.
LEMMA HandlersKeepAddress ==
  ASSUME TypeOK, Shape, NEW r \in Requests,
         Handle(r) \/ FailsEarly(r) \/ AddNewPeerFails(r), HasAddress(r)'
  PROVE  /\ UNCHANGED db
         /\ req'[r].row = req[r].row /\ req'[r].old = req[r].old
         /\ \/ HasAddress(r) /\ req'[r].ip = req[r].ip
            \/ req'[r].ip \in FreeIps /\ req[r].row = NoRow /\ req'[r].pc = "generate"
<1>0. /\ req \in [Requests -> Handler] /\ req[r] \in Handler /\ HandlerShape(req[r])
      /\ req'[r].pc \in {"generate", "removeOld", "add", "store", "undo", "restoreOld"}
  BY DEF TypeOK, Shape, HasAddress
<1>1. CASE AllocateIp(r)
  <2>0. ~Goto(r, "failed") BY <1>0 DEF Goto, Handler
  <2>1. PICK ip \in FreeIps : req' = [req EXCEPT ![r].pc = "generate", ![r].ip = ip]
    BY <1>1, <2>0 DEF AllocateIp
  <2>2. /\ req'[r].pc = "generate" /\ req'[r].ip = ip
        /\ req'[r].row = req[r].row /\ req'[r].old = req[r].old
    BY <1>0, <2>1 DEF Handler
  <2>3. req[r].row = NoRow BY <1>0, <1>1 DEF AllocateIp, At, HandlerShape
  <2>4. UNCHANGED db BY <1>1 DEF AllocateIp, registryVars
  <2>5. QED BY <2>2, <2>3, <2>4
<1>2. CASE GenerateKeypair(r)
  BY <1>0, <1>2 DEF GenerateKeypair, At, HasAddress, Handler
<1>3. CASE RemoveOldPeer(r) \/ AddNewPeer(r) \/ UndoPeer(r)
  BY <1>0, <1>3 DEF RemoveOldPeer, AddNewPeer, UndoPeer, At, Goto, HasAddress, Handler
<1>4. CASE StoreFails(r) \/ AddNewPeerFails(r)
  BY <1>0, <1>4 DEF StoreFails, AddNewPeerFails, At, Goto, HasAddress, Handler, registryVars
<1>5. CASE CreateDevice(r) \/ UpdateDevice(r) BY <1>0, <1>5, StoredGoesOn
<1>6. CASE RestoreOldPeer(r) \/ FailsEarly(r) \/ MapIp(r)
  BY <1>0, <1>6 DEF RestoreOldPeer, FailsEarly, MapIp, Goto, Handler
<1>7. CASE Reply(r) \/ ReplyError(r)
  BY <1>0, <1>7 DEF Reply, ReplyError, IdleHandler
<1>8. QED BY <1>1, <1>2, <1>3, <1>4, <1>5, <1>6, <1>7 DEF Handle

\* Prisma refuses no rotation of a record that is still active.
LEMMA RotationsAreStored ==
  ASSUME TypeOK, Shape, TableInv, NEW r \in Requests, At(r, "store"), StoreRefused(r)
  PROVE  req[r].row \notin ActiveRows
<1>1. SUFFICES ASSUME req[r].row \in ActiveRows PROVE FALSE OBVIOUS
<1>2. req[r].row \in Rows /\ Live(req[r].row) /\ db[req[r].row].ip # NoIp
  BY <1>1 DEF ActiveRows, Live
<1>3. IsRotation(r) BY <1>2 DEF IsRotation
<1>4. db[req[r].row].ip = req[r].ip BY <1>2, <1>3 DEF TableInv, ReadsItsOwn
<1>5. PICK q \in Rows \ {req[r].row} : Holds(q, req[r].ip)
  BY <1>2, <1>3 DEF StoreRefused, CanUpdate, IpAdmitted
<1>6. QED BY <1>2, <1>4, <1>5 DEF TableInv, UniqueIps

\* What is said of the handlers, when they come one by one.
LEMMA HandlerKeepsSolo ==
  ASSUME OneByOne, TypeOK, Shape, TableInv, BootsAlone, SoloInv, NEW r \in Requests,
         Handle(r) \/ FailsEarly(r) \/ AddNewPeerFails(r)
  PROVE  SoloInv'
<1>0. /\ req \in [Requests -> Handler] /\ req[r] \in Handler /\ HandlerShape(req[r])
      /\ phase' = "up" /\ \A q \in Requests : q = r
  <2>1. phase' = "up" BY HandlersRun
  <2>2. QED BY <2>1 DEF TypeOK, Shape, OneByOne
<1>1. AddressIsOwn'
  <2>1. SUFFICES ASSUME HasAddress(r)'
                 PROVE  /\ \A q \in ActiveRows' : db'[q].ip = req'[r].ip => q = req'[r].row
                        /\ req'[r].row # NoRow => db'[req'[r].row].key = req'[r].old
    BY <1>0 DEF AddressIsOwn, IsRotation
  <2>2. UNCHANGED db /\ ActiveRows' = ActiveRows
        /\ req'[r].row = req[r].row /\ req'[r].old = req[r].old
    BY <2>1, HandlersKeepAddress DEF ActiveRows
  <2>3. CASE HasAddress(r) /\ req'[r].ip = req[r].ip
    BY <2>2, <2>3 DEF SoloInv, AddressIsOwn, IsRotation
  <2>4. CASE req'[r].ip \in FreeIps /\ req[r].row = NoRow
    BY <2>2, <2>4 DEF FreeIps, UsedIps
  <2>5. QED BY <2>1, <2>3, <2>4, HandlersKeepAddress
<1>2. StoresRouted'
  <2>1. SUFFICES ASSUME req'[r].pc = "store" PROVE route'[req'[r].ip] = req'[r].key
    BY <1>0 DEF StoresRouted, At
  <2>2. AddNewPeer(r) BY <2>1, HandlersPass
  <2>3. req[r].ip \in Ips /\ req[r].key \in Keys
    BY <1>0, <2>2 DEF AddNewPeer, At, HandlerShape, HandlerHas
  <2>4. req'[r].ip = req[r].ip /\ req'[r].key = req[r].key
    BY <1>0, <2>2 DEF AddNewPeer, Goto, Handler
  <2>5. QED BY <2>2, <2>3, <2>4 DEF AddNewPeer, AddPeer, IsRealKey, RouteWith
<1>3. RollsBackFaults'
  <2>1. SUFFICES ASSUME req'[r].pc \in {"undo", "restoreOld"}, req'[r].row \in ActiveRows'
                 PROVE  faults' >= 1
    BY <1>0 DEF RollsBackFaults
  <2>2. UNCHANGED db /\ req'[r].row = req[r].row
    BY <2>1, HandlersKeepAddress DEF HasAddress
  <2>3. req[r].row \in ActiveRows BY <2>1, <2>2 DEF ActiveRows
  <2>4. faults \in Nat BY DEF TypeOK
  <2>5. CASE Fault BY <2>4, <2>5 DEF Fault
  <2>6. CASE UNCHANGED faults /\ StoreFails(r) /\ StoreRefused(r)
    BY <2>3, <2>6, RotationsAreStored DEF StoreFails
  <2>7. CASE UNCHANGED faults /\ UndoPeer(r)
    BY <2>3, <2>7 DEF UndoPeer, At, SoloInv, RollsBackFaults
  <2>8. CASE AddNewPeerFails(r) BY <2>5, <2>8 DEF AddNewPeerFails
  <2>9. StoreFails(r) \/ UndoPeer(r) \/ AddNewPeerFails(r) BY <2>1, HandlersPass
  <2>10. QED BY <2>5, <2>6, <2>7, <2>8, <2>9 DEF StoreFails, UndoPeer
<1>4. SyncsKernel' /\ FirstBootIsEmpty' BY <1>0 DEF SyncsKernel, FirstBootIsEmpty
<1>5. QED BY <1>1, <1>2, <1>3, <1>4 DEF SoloInv

\* Nothing that a handler does takes an active record's peer away for good.
LEMMA HandlerKeepsTunnels ==
  ASSUME OneByOne, TypeOK, Shape, KeyInv, TableInv, BootsAlone, SoloInv, Tunnelled, Spared',
         NEW r \in Requests, Handle(r) \/ FailsEarly(r) \/ AddNewPeerFails(r)
  PROVE  RestoreLists' /\ Tunnelled'
<1> DEFINE Served ==
             \A row \in KeyRows :
               \/ route'[db[row].ip] = db[row].key
               \/ req'[r].row = row /\ req'[r].pc \in {"add", "store", "undo", "restoreOld"}
<1>0. /\ req \in [Requests -> Handler] /\ req[r] \in Handler /\ HandlerShape(req[r])
      /\ phase = "up" /\ phase' = "up" /\ \A q \in Requests : q = r
      /\ db \in [Rows -> Row] /\ route \in [Ips -> Keys \cup {NoKey}] /\ faults \in Nat
  <2>1. phase = "up" /\ phase' = "up" BY HandlersRun
  <2>2. QED BY <2>1 DEF TypeOK, RegistryTypeOK, Shape, OneByOne
<1>1. SUFFICES Tunnelled' BY <1>0 DEF RestoreLists
<1>2. \A row \in KeyRows : row \in ActiveRows /\ row \in Rows /\ db[row].ip \in Ips /\ db[row].key \in Keys
  BY ActiveTyped DEF ActiveHave, KeyRows
<1>3. \A row \in KeyRows : Carries(row) \/ Replaces(r, row) BY <1>0 DEF Tunnelled
\* The peers of the other records are of other addresses and have other keys.
<1>4. ASSUME HasAddress(r), NEW k \in {req[r].key, req[r].old},
             AddPeer(k, req[r].ip) \/ RemovePeer(k),
             NEW row \in KeyRows, row # req[r].row
      PROVE  route'[db[row].ip] = db[row].key
  <2>1. Carries(row) BY <1>3, <1>4 DEF Replaces
  <2>2. db[row].ip # req[r].ip BY <1>2, <1>4 DEF SoloInv, AddressIsOwn
  <2>3. req[r].ip \in Ips BY <1>0, <1>4 DEF HasAddress, HandlerShape, HandlerHas
  <2>4. k \in Keys \cup {NoKey, ManualKey} BY <1>0 DEF Handler
  <2>5. k \in Int /\ (IsRealKey(k) => k \in Keys) BY <2>4 DEF IsRealKey
  <2>6. k \in Keys => Bound(k, req[r].ip) BY DEF Bound
  <2>7. db[row].ip \in Ips /\ route[db[row].ip] = db[row].key /\ db[row].key \in Keys
    BY <1>2, <2>1 DEF Carries
  <2>8. route'[db[row].ip] = route[db[row].ip]
    BY <1>4, <2>2, <2>3, <2>5, <2>6, <2>7, OtherPeersStay
  <2>9. QED BY <2>7, <2>8
<1>5. ASSUME UNCHANGED db, Served PROVE Tunnelled'
  <2>1. KeyRows' = KeyRows BY <1>5 DEF KeyRows, ActiveRows
  <2>2. QED BY <1>5, <2>1 DEF Tunnelled, Carries, Replaces
<1>6. ASSUME UNCHANGED <<db, route>>,
             req[r].pc \notin {"add", "store", "undo", "restoreOld"}
      PROVE  Tunnelled'
  BY <1>3, <1>5, <1>6 DEF Carries, Replaces
<1>7. CASE RemoveOldPeer(r)
  <2>1. UNCHANGED db /\ req[r].pc = "removeOld" BY <1>7 DEF RemoveOldPeer, At
  <2>2. req'[r].pc = "add" /\ req'[r].row = req[r].row
    BY <1>0, <1>7 DEF RemoveOldPeer, Goto, Handler
  <2>3. CASE RemovePeer(req[r].old) BY <1>4, <1>5, <2>1, <2>2, <2>3 DEF HasAddress
  <2>4. CASE UNCHANGED route
    BY <1>3, <1>5, <2>1, <2>2, <2>4 DEF Carries, Replaces
  <2>5. QED BY <1>7, <2>3, <2>4 DEF RemoveOldPeer
<1>8. CASE AddNewPeer(r)
  <2>1. UNCHANGED db /\ req[r].pc = "add" /\ AddPeer(req[r].key, req[r].ip)
    BY <1>8 DEF AddNewPeer, At
  <2>2. req'[r].pc = "store" /\ req'[r].row = req[r].row
    BY <1>0, <1>8 DEF AddNewPeer, Goto, Handler
  <2>3. QED BY <1>4, <1>5, <2>1, <2>2 DEF HasAddress
<1>9. CASE AddNewPeerFails(r) \/ StoreFails(r)
  <2>1. UNCHANGED <<db, route>> BY <1>9 DEF AddNewPeerFails, StoreFails, registryVars
  <2>2. req'[r].row = req[r].row BY <1>0, <1>9 DEF AddNewPeerFails, StoreFails, Goto, Handler
  <2>3. req[r].row # NoRow => req'[r].pc \in {"undo", "restoreOld"}
    <3>1. CASE StoreFails(r) BY <1>0, <3>1 DEF StoreFails, Goto, Handler
    <3>2. CASE AddNewPeerFails(r)
      BY <1>0, <3>2 DEF AddNewPeerFails, Goto, IsRotation, Handler
    <3>3. QED BY <1>9, <3>1, <3>2
  <2>4. \A row \in KeyRows : row # NoRow BY <1>2
  <2>5. QED BY <1>3, <1>5, <2>1, <2>2, <2>3, <2>4 DEF Carries, Replaces
<1>10. CASE UndoPeer(r)
  <2>1. UNCHANGED db /\ req[r].pc = "undo" BY <1>10 DEF UndoPeer, At
  <2>2. req'[r].row = req[r].row BY <1>0, <1>10 DEF UndoPeer, Goto, Handler
  <2>3. req[r].row # NoRow => req'[r].pc = "restoreOld"
    BY <1>0, <1>10 DEF UndoPeer, Goto, IsRotation, Handler
  <2>4. \A row \in KeyRows : row # NoRow BY <1>2
  <2>5. CASE RemovePeer(req[r].key)
    BY <1>4, <1>5, <2>1, <2>2, <2>3, <2>4, <2>5 DEF HasAddress
  <2>6. CASE UNCHANGED route
    BY <1>3, <1>5, <2>1, <2>2, <2>3, <2>4, <2>6 DEF Carries, Replaces
  <2>7. QED BY <1>10, <2>5, <2>6 DEF UndoPeer
\* The old peer comes back: what led here was the failure, so there is no other.
<1>11. CASE RestoreOldPeer(r)
  <2>1. UNCHANGED db /\ req[r].pc = "restoreOld" BY <1>11 DEF RestoreOldPeer, At
  <2>2. CASE req[r].row \notin ActiveRows
    <3>1. \A row \in KeyRows : row # req[r].row BY <1>2, <2>2
    <3>2. CASE AddPeer(req[r].old, req[r].ip)
      BY <1>4, <1>5, <2>1, <3>1, <3>2 DEF HasAddress
    <3>3. CASE UNCHANGED route
      BY <1>3, <1>5, <2>1, <3>1, <3>3 DEF Carries, Replaces
    <3>4. QED BY <1>11, <3>2, <3>3 DEF RestoreOldPeer
  <2>3. CASE req[r].row \in ActiveRows
    <3>1. faults >= 1 BY <2>1, <2>3 DEF SoloInv, RollsBackFaults
    <3>2. ~Fault BY <1>0, <3>1 DEF Fault, Spared
    <3>3. AddPeer(req[r].old, req[r].ip) BY <1>11, <3>2 DEF RestoreOldPeer
    <3>4. req[r].row \in Rows /\ IsRotation(r) /\ req[r].ip \in Ips
      BY <1>0, <2>1, <2>3 DEF ActiveRows, IsRotation, HandlerShape, HandlerHas
    <3>5. db[req[r].row].ip = req[r].ip
      BY <2>3, <3>4 DEF ActiveRows, TableInv, ReadsItsOwn
    <3>6. db[req[r].row].key = req[r].old
      BY <2>1, <3>4 DEF SoloInv, AddressIsOwn, HasAddress
    <3>7. ASSUME IsRealKey(req[r].old) PROVE route'[req[r].ip] = req[r].old
      BY <3>3, <3>4, <3>7 DEF AddPeer, RouteWith
    <3>8. ASSUME NEW row \in KeyRows PROVE route'[db[row].ip] = db[row].key
      <4>1. CASE row = req[r].row BY <3>5, <3>6, <3>7, <4>1 DEF KeyRows
      <4>2. CASE row # req[r].row BY <1>4, <2>1, <3>3, <4>2 DEF HasAddress
      <4>3. QED BY <4>1, <4>2
    <3>9. QED BY <1>5, <2>1, <3>8
  <2>4. QED BY <2>2, <2>3
<1>12. CASE CreateDevice(r) \/ UpdateDevice(r)
  <2>1. UNCHANGED route /\ req[r].pc = "store" BY <1>12 DEF CreateDevice, UpdateDevice, At
  <2>2. route[req[r].ip] = req[r].key BY <2>1 DEF SoloInv, StoresRouted, At
  <2>3. \A row \in Rows : \/ db'[row] = db[row] /\ row # req[r].row
                          \/ db'[row].key = req[r].key /\ db'[row].ip = req[r].ip
    <3>1. CASE CreateDevice(r)
      BY <1>0, <3>1 DEF CreateDevice, CreateRow, IsRotation
    <3>2. CASE UpdateDevice(r)
      <4>1. UpdateRow(req[r].row, req[r].ip, req[r].key) BY <3>2 DEF UpdateDevice
      <4>2. \A row \in Rows : db[row] \in Row BY <1>0
      <4>3. QED BY <1>0, <4>1, <4>2 DEF UpdateRow, Row
    <3>3. QED BY <1>12, <3>1, <3>2
  <2>4. \A row \in KeyRows : row # req[r].row => Carries(row) BY <1>3 DEF Replaces
  <2>5. QED BY <2>1, <2>2, <2>3, <2>4 DEF Tunnelled, KeyRows, ActiveRows, Carries
<1>13. CASE AllocateIp(r) \/ GenerateKeypair(r) \/ FailsEarly(r) \/ MapIp(r)
              \/ Reply(r) \/ ReplyError(r)
  <2>1. UNCHANGED <<db, route>>
    BY <1>13 DEF AllocateIp, GenerateKeypair, FailsEarly, MapIp, Reply, ReplyError, registryVars
  <2>2. req[r].pc \notin {"add", "store", "undo", "restoreOld"}
    BY <1>13 DEF AllocateIp, GenerateKeypair, FailsEarly, MapIp, Reply, ReplyError, At
  <2>3. QED BY <1>6, <2>1, <2>2
<1>14. QED BY <1>7, <1>8, <1>9, <1>10, <1>11, <1>12, <1>13 DEF Handle

\* Failures and crashes only grow in number.
LEMMA SparedBefore == ASSUME TypeOK, [Next]_vars, Spared' PROVE Spared
<1>1. faults \in Nat /\ crashes \in Nat BY DEF TypeOK
<1>2. faults' \in {faults, faults + 1}
  BY DEF Next, Step, RegisterDevice, Handle, AllocateIp, GenerateKeypair, RemoveOldPeer, AddNewPeer,
    CreateDevice, UpdateDevice, StoreFails, UndoPeer, RestoreOldPeer, MapIp, Reply, ReplyError,
    FailsEarly, AddNewPeerFails, LoseConnection, Revoke, Crash, BootStep, Boot, BootFails,
    ReadKernel, Listen, RestorePeer, SyncPeer, Fault, budgetVars, vars
<1>3. crashes' \in {crashes, crashes + 1}
  BY DEF Next, Step, RegisterDevice, Handle, AllocateIp, GenerateKeypair, RemoveOldPeer, AddNewPeer,
    CreateDevice, UpdateDevice, StoreFails, UndoPeer, RestoreOldPeer, MapIp, Reply, ReplyError,
    FailsEarly, AddNewPeerFails, LoseConnection, Revoke, Crash, BootStep, Boot, BootFails,
    ReadKernel, Listen, RestorePeer, SyncPeer, budgetVars, vars
<1>4. QED BY <1>1, <1>2, <1>3 DEF Spared

LEMMA TunnelStep ==
  ASSUME OneByOne
  PROVE  TypeOK /\ Shape /\ KeyInv /\ TableInv /\ BootsAlone /\ SoloInv /\ TunnelInv /\ [Next]_vars
           => SoloInv' /\ TunnelInv'
<1> SUFFICES ASSUME TypeOK, Shape, KeyInv, TableInv, BootsAlone, SoloInv, TunnelInv, [Next]_vars
             PROVE  SoloInv' /\ TunnelInv'
  OBVIOUS
<1> DEFINE Kept == SoloInv' /\ (Spared' => RestoreLists' /\ Tunnelled')
<1> SUFFICES Kept BY DEF TunnelInv
<1>0. Spared' => Spared /\ RestoreLists /\ Tunnelled BY SparedBefore DEF TunnelInv
<1>1. ASSUME NEW r \in Requests, Handle(r) \/ FailsEarly(r) \/ AddNewPeerFails(r) PROVE Kept
  BY <1>0, <1>1, HandlerKeepsSolo, HandlerKeepsTunnels
<1>2. ASSUME NEW r \in Requests, NEW d \in Devices, RegisterDevice(r, d) PROVE Kept
  BY <1>0, <1>2, CallsKeep
<1>3. CASE \/ \E d \in Devices : LoseConnection(d)
           \/ \E row \in Rows, mode \in RevokeModes : Revoke(row, mode)
           \/ UNCHANGED vars
  BY <1>0, <1>3, QuietSteps, QuietKeeps
<1>4. ASSUME NEW host \in BOOLEAN, Crash(host) PROVE Kept BY <1>4, CrashKeeps
<1>5. CASE BootStep BY <1>0, <1>5, BootKeeps, BootTunnels
<1>6. QED BY <1>1, <1>2, <1>3, <1>4, <1>5 DEF Next, Step

\* When registrations come one at a time and at most one command fails, before
\* the first crash, every active record whose device has a WireGuard key has
\* its tunnel between requests: rotations roll back what they could not
\* finish, and a boot repairs what any number of crashes cut off, whatever an
\* operator revokes in between.
THEOREM TunnelsStayMatched ==
  ASSUME \A p, q \in Requests : p = q
  PROVE  Spec => [](faults <= 1 => TunnelsMatchTable)
<1>0. OneByOne BY DEF OneByOne
<1>1. SoloInv /\ TunnelInv => (faults <= 1 => TunnelsMatchTable)
  BY DEF TunnelInv, Spared, Tunnelled, KeyRows, Carries, Replaces, TunnelsMatchTable, Settled, At
<1>2. TypeOK /\ Shape /\ KeyInv /\ [Next]_vars => KeyInv' BY KeyStep
<1>3. TypeOK /\ RestoresRotate /\ BootsAlone /\ [Next]_vars => RestoresRotate' /\ BootsAlone'
  BY RestoresRotateKept
<1>4. Init => RestoresRotate /\ BootsAlone BY InitKernel DEF KernelInv
<1>5. TypeOK /\ Shape /\ KeyInv /\ TableInv /\ BootsAlone /\ SoloInv /\ TunnelInv /\ [Next]_vars
        => SoloInv' /\ TunnelInv'
  BY <1>0, TunnelStep
<1>6. QED
  BY InitKeys, InitTunnels, TableInvariant, <1>1, <1>2, <1>3, <1>4, <1>5, PTL DEF Spec
=============================================================================
