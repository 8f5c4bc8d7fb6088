----------------------- MODULE IdentityBinding_proofs -----------------------
(***************************************************************************)
(* Proofs about IdentityBinding, for any number of bindings beside any     *)
(* number of registrations: its types; that the map from addresses to      *)
(* names is true and complete between handlers, and telemetry keeps        *)
(* identities; and that no two records share a key.                        *)
(*                                                                         *)
(* As long as nothing failed and nobody entered a drone by hand (Calm),    *)
(* every name that a packet can be given is recorded at its address, so    *)
(* that a binding finds what it asks for and changes nothing: the registry *)
(* is as Provisioning alone leaves it, and its invariants carry over.      *)
(*                                                                         *)
(* The keys are kept apart although bindings move and delete records at    *)
(* will (Apart): what is stored is a key that no record has, and what a    *)
(* boot reads from the kernel is the key of the record at that address,    *)
(* since it has restored the peers of all records before.                  *)
(***************************************************************************)
EXTENDS IdentityBinding, Provisioning_proofs

USE RegistryAssumption, ProvisioningAssumption, BindingAssumption
  DEF Ips, Rows, Keys, NoIp, NoKey, NoRow, ManualKey

-----------------------------------------------------------------------------
(* Type correctness *)

\* Before the first boot no binding runs.
LEMMA InitBinders == BInit => BTypeOK /\ HandlersHave /\ BindersHave
<1> SUFFICES ASSUME BInit PROVE BTypeOK /\ HandlersHave /\ BindersHave OBVIOUS
<1>1. TypeOK /\ Shape BY InitType DEF BInit
<1>2. HandlersHave BY <1>1 DEF Shape, HandlerShape, HandlersHave
<1>3. IdleBinder \in Binder /\ BinderHas(IdleBinder) BY DEF IdleBinder, Binder, BinderHas
<1>4. BTypeOK BY <1>1, <1>3 DEF BInit, BTypeOK, BindersHave
<1>5. QED BY <1>2, <1>3, <1>4 DEF BInit, BindersHave

\* What a binding writes leaves the registry, and a table of bindings that
\* have what their positions need.
LEMMA BindStepType ==
  ASSUME BTypeOK, BindersHave, NEW b \in Binders, BindStep(b)
  PROVE  TypeOK' /\ bind' \in [Binders -> Binder] /\ BindersHave'
<1>0. /\ TypeOK /\ RegistryTypeOK /\ bind \in [Binders -> Binder]
      /\ bind[b] \in Binder /\ BinderHas(bind[b])
      /\ bind[b].id \in DeviceIds \cup {NoDevice}
  BY DEF BTypeOK, TypeOK, BindersHave, Binder
<1>i. IdleBinder \in Binder /\ BinderHas(IdleBinder) BY DEF IdleBinder, Binder, BinderHas
\* One binding moves; the lemma holds of a step that leaves the rest alone.
<1>a. ASSUME NEW h \in Binder, BinderHas(h), bind' = [bind EXCEPT ![b] = h]
      PROVE  bind' \in [Binders -> Binder] /\ BindersHave'
  BY <1>0, <1>a DEF BindersHave
<1>d. ASSUME Done(b) PROVE bind' \in [Binders -> Binder] /\ BindersHave'
  BY <1>a, <1>d, <1>i DEF Done
<1>g. ASSUME NEW pc \in {"byIp", "move", "create", "map"}, BGoto(b, pc),
             bind[b].ip \in Ips, pc = "move" => bind[b].own \in Rows
      PROVE  bind' \in [Binders -> Binder] /\ BindersHave'
  <2>1. [bind[b] EXCEPT !.pc = pc] \in Binder /\ BinderHas([bind[b] EXCEPT !.pc = pc])
    BY <1>0, <1>g DEF Binder, BinderHas
  <2>2. QED BY <1>0, <1>a, <1>g, <2>1 DEF BGoto
<1>u. ASSUME UNCHANGED vars PROVE TypeOK'
  BY <1>0, <1>u DEF vars, registryVars, serverVars, agentVars, budgetVars, TypeOK, RegistryTypeOK
<1>w. ASSUME UNCHANGED <<route, nextKey, serverVars, agentVars, crashes>>,
             db' \in [Rows -> Row], nextRow' \in 1 .. MaxRow + 1,
             ipMap' \in [Ips -> DeviceIds \cup {NoDevice}], faults' \in 0 .. MaxFaults
      PROVE  TypeOK'
  BY <1>0, <1>w DEF serverVars, agentVars, TypeOK, RegistryTypeOK
<1>1. CASE FindById(b)
  <2>2. ASSUME NEW row \in RowsOfId(bind[b].id),
               bind' = [bind EXCEPT ![b].pc = "conflict", ![b].own = row]
        PROVE  bind' \in [Binders -> Binder] /\ BindersHave'
    <3>1. [bind[b] EXCEPT !.pc = "conflict", !.own = row] \in Binder
          /\ BinderHas([bind[b] EXCEPT !.pc = "conflict", !.own = row])
      BY <1>0, <1>1 DEF Binder, BinderHas, FindById, BAt, RowsOfId
    <3>2. bind' = [bind EXCEPT ![b] = [bind[b] EXCEPT !.pc = "conflict", !.own = row]]
      BY <1>0, <2>2
    <3>3. QED BY <1>a, <3>1, <3>2
  <2>3. CASE BGoto(b, "byIp")
    BY <1>0, <1>1, <1>g, <1>u, <2>3 DEF BinderHas, FindById, BAt
  <2>4. QED BY <1>1, <1>d, <1>u, <2>2, <2>3 DEF FindById
<1>2. CASE FindConflict(b)
  <2>1. ASSUME NEW row \in RowsOfIp(bind[b].ip),
               bind' = [bind EXCEPT ![b].pc = "delete", ![b].foe = row]
        PROVE  bind' \in [Binders -> Binder] /\ BindersHave'
    <3>1. [bind[b] EXCEPT !.pc = "delete", !.foe = row] \in Binder
          /\ BinderHas([bind[b] EXCEPT !.pc = "delete", !.foe = row])
      BY <1>0, <1>2 DEF Binder, BinderHas, FindConflict, BAt, RowsOfIp
    <3>2. bind' = [bind EXCEPT ![b] = [bind[b] EXCEPT !.pc = "delete", !.foe = row]]
      BY <1>0, <2>1
    <3>3. QED BY <1>a, <3>1, <3>2
  <2>2. CASE BGoto(b, "move")
    BY <1>0, <1>2, <1>g, <1>u, <2>2 DEF BinderHas, FindConflict, BAt
  <2>3. QED BY <1>2, <1>u, <2>1, <2>2 DEF FindConflict
<1>3. CASE DeleteConflict(b)
  <2>1. db' \in [Rows -> Row]
    <3>1. EmptyRow \in Row BY DEF EmptyRow, Row
    <3>2. QED BY <1>0, <1>3, <3>1 DEF DeleteConflict, RegistryTypeOK
  <2>2. TypeOK' BY <1>0, <1>3, <1>w, <2>1 DEF DeleteConflict, budgetVars, TypeOK, RegistryTypeOK
  <2>3. bind[b].ip \in Ips /\ bind[b].own \in Rows BY <1>0, <1>3 DEF BinderHas, DeleteConflict, BAt
  <2>4. QED BY <1>3, <1>d, <1>g, <2>2, <2>3 DEF DeleteConflict
<1>4. CASE MoveDevice(b)
  <2> DEFINE row == bind[b].own
  <2>1. row \in Rows /\ bind[b].ip \in Ips BY <1>0, <1>4 DEF MoveDevice, BAt, BinderHas
  <2>2. db[row].key \in Keys \cup {NoKey, ManualKey} /\ db[row].id \in DeviceIds \cup {NoDevice}
    BY <1>0, <2>1 DEF RegistryTypeOK, Row
  <2>3. db' \in [Rows -> Row] /\ nextRow' \in 1 .. MaxRow + 1
    <3>1. CASE UpdateRow(row, bind[b].ip, db[row].key)
      BY <1>0, <2>1, <2>2, <3>1, UpdateRowType
    <3>2. CASE UNCHANGED <<db, nextRow>> BY <1>0, <3>2 DEF RegistryTypeOK
    <3>3. QED BY <1>4, <3>1, <3>2 DEF MoveDevice
  <2>4. TypeOK' BY <1>0, <1>4, <1>w, <2>3 DEF MoveDevice, budgetVars, TypeOK, RegistryTypeOK
  <2>5. [bind[b] EXCEPT !.pc = "map", !.id = db[row].id] \in Binder
        /\ BinderHas([bind[b] EXCEPT !.pc = "map", !.id = db[row].id])
    BY <1>0, <2>1, <2>2 DEF Binder, BinderHas
  <2>6. CASE bind' = [bind EXCEPT ![b].pc = "map", ![b].id = db[row].id]
    <3>1. bind' = [bind EXCEPT ![b] = [bind[b] EXCEPT !.pc = "map", !.id = db[row].id]]
      BY <1>0, <2>6
    <3>2. QED BY <1>a, <2>4, <2>5, <3>1
  <2>7. CASE Done(b) BY <1>d, <2>4, <2>7
  <2>8. QED BY <1>4, <2>6, <2>7 DEF MoveDevice
<1>5. CASE FindByIp(b)
  <2>1. ASSUME NEW row \in RowsOfIp(bind[b].ip),
               bind' = [bind EXCEPT ![b].pc = "rename", ![b].own = row]
        PROVE  bind' \in [Binders -> Binder] /\ BindersHave'
    <3>1. [bind[b] EXCEPT !.pc = "rename", !.own = row] \in Binder
          /\ BinderHas([bind[b] EXCEPT !.pc = "rename", !.own = row])
      BY <1>0, <1>5 DEF Binder, BinderHas, FindByIp, BAt, RowsOfIp
    <3>2. bind' = [bind EXCEPT ![b] = [bind[b] EXCEPT !.pc = "rename", !.own = row]]
      BY <1>0, <2>1
    <3>3. QED BY <1>a, <3>1, <3>2
  <2>2. CASE BGoto(b, "create")
    BY <1>0, <1>5, <1>g, <1>u, <2>2 DEF BinderHas, FindByIp, BAt
  <2>3. QED BY <1>5, <1>u, <2>1, <2>2 DEF FindByIp
<1>6. CASE RenameDevice(b)
  <2> DEFINE row == bind[b].own
  <2>1. db' \in [Rows -> Row]
    <3>1. row \in Rows /\ db[row] \in Row
      BY <1>0, <1>6 DEF RenameDevice, BAt, BinderHas, RegistryTypeOK
    <3>2. [db[row] EXCEPT !.id = bind[b].id, !.status = "ACTIVE"] \in Row
      BY <1>0, <3>1 DEF Row
    <3>3. QED BY <1>0, <1>6, <3>1, <3>2 DEF RenameDevice, RegistryTypeOK
  <2>2. TypeOK' BY <1>0, <1>6, <1>w, <2>1 DEF RenameDevice, budgetVars, TypeOK, RegistryTypeOK
  <2>3. bind[b].ip \in Ips BY <1>0, <1>6 DEF BinderHas, RenameDevice, BAt
  <2>4. QED BY <1>6, <1>d, <1>g, <2>2, <2>3 DEF RenameDevice
<1>7. CASE CreateDiscovered(b)
  <2>1. db' \in [Rows -> Row] /\ nextRow' \in 1 .. MaxRow + 1
    <3>1. bind[b].ip \in Ips BY <1>0, <1>7 DEF CreateDiscovered, BAt, BinderHas
    <3>2. CASE CreateRow(bind[b].id, bind[b].ip, ManualKey)
      BY <1>0, <3>1, <3>2, CreateRowType
    <3>3. CASE UNCHANGED <<db, nextRow>> BY <1>0, <3>3 DEF RegistryTypeOK
    <3>4. QED BY <1>7, <3>2, <3>3 DEF CreateDiscovered
  <2>2. TypeOK'
    BY <1>0, <1>7, <1>w, <2>1 DEF CreateDiscovered, budgetVars, TypeOK, RegistryTypeOK
  <2>3. bind[b].ip \in Ips BY <1>0, <1>7 DEF BinderHas, CreateDiscovered, BAt
  <2>4. QED BY <1>7, <1>d, <1>g, <2>2, <2>3 DEF CreateDiscovered
<1>8. CASE MapBoundId(b)
  <2>1. ipMap' \in [Ips -> DeviceIds \cup {NoDevice}] /\ faults' \in 0 .. MaxFaults
    BY <1>0, <1>8, MapType DEF MapBoundId, Fault, TypeOK, RegistryTypeOK
  <2>2. TypeOK' BY <1>0, <1>8, <1>w, <2>1 DEF MapBoundId, TypeOK, RegistryTypeOK
  <2>3. QED BY <1>8, <1>d, <2>2 DEF MapBoundId
<1>9. QED BY <1>1, <1>2, <1>3, <1>4, <1>5, <1>6, <1>7, <1>8 DEF BindStep

\* A resolver's or the sweeper's step, or the start of a binding, leaves the
\* types, and bindings that have what their positions need.
LEMMA OriginType ==
  ASSUME BTypeOK, BindersHave,
         \/ \E ip \in Ips : Resolve(ip)
         \/ \E b \in Binders, ip \in Ips : Discover(b, ip)
         \/ \E id \in DeviceIds : Forget(id)
         \/ \E b \in Binders, input \in AdminInputs : EnterManually(b, input)
  PROVE  BTypeOK' /\ BindersHave'
<1>0. /\ TypeOK /\ RegistryTypeOK /\ bind \in [Binders -> Binder]
      /\ resolved \in [Ips -> DeviceIds \cup {NoDevice}] /\ discovered \subseteq DeviceIds
      /\ binds \in 0 .. MaxBinds /\ entered \in 0 .. MaxEntered
  BY DEF BTypeOK, TypeOK
<1>v. ASSUME UNCHANGED vars PROVE TypeOK'
  BY <1>0, <1>v DEF vars, registryVars, serverVars, agentVars, budgetVars, TypeOK, RegistryTypeOK
<1>s. ASSUME NEW b \in Binders, NEW id \in DeviceIds, NEW ip \in Ips, Start(b, id, ip)
      PROVE  /\ bind' \in [Binders -> Binder] /\ BindersHave'
             /\ binds' \in 0 .. MaxBinds
  <2> DEFINE h == [IdleBinder EXCEPT !.pc = "byId", !.id = id, !.ip = ip]
  <2>1. h \in Binder /\ BinderHas(h) BY DEF IdleBinder, Binder, BinderHas
  <2>2. bind' = [bind EXCEPT ![b] = h] BY <1>s DEF Start
  <2> HIDE DEF h
  <2>3. bind' \in [Binders -> Binder] /\ BindersHave'
    BY <1>0, <2>1, <2>2 DEF BindersHave
  <2>4. binds' \in 0 .. MaxBinds BY <1>0, <1>s DEF Start
  <2>5. QED BY <2>3, <2>4
<1>1. ASSUME NEW ip \in Ips, Resolve(ip) PROVE BTypeOK' /\ BindersHave'
  <2>1. resolved' \in [Ips -> DeviceIds \cup {NoDevice}]
    BY <1>0, <1>1, TempIdType DEF Resolve, RegistryTypeOK
  <2>2. TypeOK'
    BY <1>0, <1>1 DEF Resolve, Fault, registryVars, serverVars, agentVars, TypeOK, RegistryTypeOK
  <2>3. QED BY <1>0, <1>1, <2>1, <2>2 DEF Resolve, countVars, BTypeOK, BindersHave
<1>2. ASSUME NEW b \in Binders, NEW ip \in Ips, Discover(b, ip) PROVE BTypeOK' /\ BindersHave'
  <2>1. resolved[ip] \in DeviceIds BY <1>0, <1>2 DEF Discover
  <2>2. /\ bind' \in [Binders -> Binder] /\ BindersHave'
        /\ binds' \in 0 .. MaxBinds
    BY <1>2, <1>s, <2>1 DEF Discover
  <2>3. TypeOK' BY <1>2, <1>v DEF Discover
  <2>4. QED BY <1>0, <1>2, <2>1, <2>2, <2>3 DEF Discover, BTypeOK
<1>3. ASSUME NEW id \in DeviceIds, Forget(id) PROVE BTypeOK' /\ BindersHave'
  <2>1. TypeOK' BY <1>3, <1>v DEF Forget
  <2>2. QED BY <1>0, <1>3, <2>1 DEF Forget, countVars, BTypeOK, BindersHave
<1>4. ASSUME NEW b \in Binders, NEW input \in AdminInputs, EnterManually(b, input)
      PROVE  BTypeOK' /\ BindersHave'
  <2>1. input.id \in DeviceIds /\ input.ip \in Ips BY DEF DeviceIds
  <2>2. /\ bind' \in [Binders -> Binder] /\ BindersHave'
        /\ binds' \in 0 .. MaxBinds
    BY <1>4, <1>s, <2>1 DEF EnterManually
  <2>3. entered' \in 0 .. MaxEntered BY <1>0, <1>4 DEF EnterManually
  <2>4. TypeOK' BY <1>4, <1>v DEF EnterManually
  <2>5. QED BY <1>0, <1>4, <2>2, <2>3, <2>4 DEF EnterManually, BTypeOK
<1>5. QED BY <1>1, <1>2, <1>3, <1>4

\* Types are inductive with what handlers and bindings have.
LEMMA BTypeStep ==
  BTypeOK /\ HandlersHave /\ BindersHave /\ [BNext]_bvars
    => BTypeOK' /\ HandlersHave' /\ BindersHave'
<1> SUFFICES ASSUME BTypeOK, HandlersHave, BindersHave, [BNext]_bvars
             PROVE  BTypeOK' /\ HandlersHave' /\ BindersHave'
  OBVIOUS
<1>0. TypeOK BY DEF BTypeOK
<1>1. CASE Step /\ UNCHANGED bindVars
  <2>1. TypeOK' /\ HandlersHave' BY <1>0, <1>1, TypesKept DEF Next
  <2>2. QED BY <1>1, <2>1 DEF bindVars, countVars, BTypeOK, BindersHave
<1>2. ASSUME NEW host \in BOOLEAN, BCrash(host)
      PROVE  BTypeOK' /\ HandlersHave' /\ BindersHave'
  <2>1. TypeOK' /\ HandlersHave' BY <1>0, <1>2, TypesKept DEF BCrash, Next
  <2>2. IdleBinder \in Binder /\ BinderHas(IdleBinder) BY DEF IdleBinder, Binder, BinderHas
  <2>3. QED BY <1>2, <2>1, <2>2 DEF BCrash, countVars, BTypeOK, BindersHave
<1>3. ASSUME UNCHANGED req PROVE HandlersHave' BY <1>3 DEF HandlersHave
<1>4. CASE \/ \E ip \in Ips : Resolve(ip)
           \/ \E b \in Binders, ip \in Ips : Discover(b, ip)
           \/ \E id \in DeviceIds : Forget(id)
           \/ \E b \in Binders, input \in AdminInputs : EnterManually(b, input)
  <2>1. UNCHANGED req
    BY <1>4 DEF Resolve, Discover, Forget, EnterManually, vars, serverVars
  <2>2. QED BY <1>3, <1>4, <2>1, OriginType
<1>5. ASSUME NEW b \in Binders, BindStep(b) PROVE BTypeOK' /\ HandlersHave' /\ BindersHave'
  <2>1. UNCHANGED <<req, resolved, discovered, countVars>>
    BY <1>5 DEF BindStep, FindById, FindConflict, DeleteConflict, MoveDevice, FindByIp,
      RenameDevice, CreateDiscovered, MapBoundId, vars, serverVars
  <2>2. TypeOK' /\ bind' \in [Binders -> Binder] /\ BindersHave' BY <1>5, BindStepType
  <2>3. QED BY <1>3, <2>1, <2>2 DEF countVars, BTypeOK
<1>6. CASE UNCHANGED bvars
  <2>1. UNCHANGED vars /\ UNCHANGED bindVars BY <1>6 DEF bvars
  <2>2. TypeOK' /\ HandlersHave' BY <1>0, <2>1, TypesKept
  <2>3. QED BY <2>1, <2>2 DEF bindVars, countVars, BTypeOK, BindersHave
<1>7. QED BY <1>1, <1>2, <1>4, <1>5, <1>6 DEF BNext

\* Every variable keeps its type whatever telemetry and operators bind beside
\* the registrations, and every binding has at each position the address and
\* the record that it is about to move, rename or delete there.
THEOREM BTypeCorrect == BSpec => []BTypeOK
<1>1. BTypeOK /\ HandlersHave /\ BindersHave => BTypeOK OBVIOUS
<1>2. QED BY InitBinders, BTypeStep, <1>1, PTL DEF BSpec

-----------------------------------------------------------------------------
(* The registry as provisioning alone leaves it *)

\* What Provisioning_proofs proves of the handlers, the keys, the table and
\* the answers, as long as no binding changes the table.
Sound ==
  /\ Shape /\ KeyInv /\ TableInv /\ DeliverInv
  /\ RestoresRotate /\ BootsAlone /\ RowsHaveIps

\* A row that is not in use has no name.
UnusedNameless == \A row \in Rows : ~Live(row) => db[row].id = NoDevice

\* The map names the holder of an address, if it names anybody.
MapNames == \A ip \in Ips : ipMap[ip] # NoDevice => Recorded(ipMap[ip], ip)

\* A handler maps its own device, and before a drone is answered its address is
\* in the map.
MapsItsOwn == \A r \in Requests : At(r, "map") => req[r].id = req[r].dev
MappedAtReply == \A r \in Requests : At(r, "reply") => ipMap[req[r].ip] # NoDevice
MappedAtDrone == \A d \in Devices : conf[d] # NoConf => ipMap[conf[d].ip] # NoDevice

\* Once a boot has begun, the address of every active record is in the map or a
\* handler is about to put it there.
MapSoon(ip) == \E r \in Requests : At(r, "map") /\ req[r].ip = ip
MapCovers ==
  phase # "down" => \A row \in ActiveRows : ipMap[db[row].ip] # NoDevice \/ MapSoon(db[row].ip)

\* A static peer's address has its temporary record, or the boot has yet to
\* lock it: no other record has it and the kernel still routes it.
Unlocked(ip) ==
  /\ RowsOfIp(ip) = {} /\ phase # "up" /\ route[ip] = ip
  /\ phase = "sync" => [key |-> ip, ip |-> ip] \in todo
StaticLocked == \A ip \in StaticIps : Recorded(TempId(ip), ip) \/ Unlocked(ip)

\* The boot restores the peers of records.
RestoreFromRows == phase = "restore" => \A b \in todo : RowsOfIp(b.ip) # {}

MapInv ==
  /\ UnusedNameless /\ MapNames /\ MapsItsOwn /\ MappedAtReply /\ MappedAtDrone /\ MapCovers
  /\ StaticLocked /\ RestoreFromRows

LEMMA InitMap == Init => Sound /\ MapInv
<1> SUFFICES ASSUME Init PROVE Sound /\ MapInv OBVIOUS
<1>1. Shape BY InitType
<1>2. KeyInv BY InitKeys
<1>3. TableInv BY InitTable
<1>4. DeliverInv BY InitDelivers
<1>5. RestoresRotate /\ BootsAlone /\ RowsHaveIps BY InitKernel DEF KernelInv
<1>6. UnusedNameless /\ \A ip \in Ips : RowsOfIp(ip) = {}
  BY DEF Init, RegistryInit, EmptyRow, UnusedNameless, RowsOfIp, Live
<1>7. MapNames /\ MapsItsOwn /\ MappedAtReply /\ MappedAtDrone
  BY DEF Init, RegistryInit, IdleHandler, MapNames, MapsItsOwn, MappedAtReply, MappedAtDrone, At
<1>8. StaticLocked
  BY <1>6 DEF Init, RegistryInit, StaticRoute, StaticLocked, Unlocked
<1>9. MapCovers /\ RestoreFromRows BY DEF Init, MapCovers, RestoreFromRows
<1>10. QED BY <1>1, <1>2, <1>3, <1>4, <1>5, <1>6, <1>7, <1>8, <1>9 DEF Sound, MapInv

LEMMA SoundStep ==
  ASSUME "drop" \notin RevokeModes, TypeOK, Sound, [Next]_vars
  PROVE  Sound'
<1> USE DEF Sound
<1>1. Shape' BY TypeStep
<1>2. KeyInv' BY KeyStep
<1>3. TableInv' BY TableStep
<1>4. DeliverInv' BY DeliverStep
<1>5. RestoresRotate' /\ BootsAlone' BY RestoresRotateKept
<1>6. RowsHaveIps' BY RowsStay
<1>7. QED BY <1>1, <1>2, <1>3, <1>4, <1>5, <1>6

\* What is recorded stays recorded.
LEMMA RecordedStays ==
  ASSUME "drop" \notin RevokeModes, TypeOK, Sound, [Next]_vars,
         NEW d, NEW ip \in Ips, Recorded(d, ip)
  PROVE  Recorded(d, ip)'
<1>1. Records(d, ip) BY RecordStays DEF Sound
<1>2. QED BY <1>1 DEF Records, Recorded, RowsOfId, Live

\* A temporary record, once it is written, is recorded.
LEMMA LockRecords ==
  ASSUME TypeOK, NEW b \in todo, LockAddress(b)
  PROVE  Recorded(TempId(b.ip), b.ip)'
<1>0. db \in [Rows -> Row] BY DEF TypeOK, RegistryTypeOK
<1>1. ASSUME NEW row \in RowsOfId(TempId(b.ip)), UpdateRow(row, b.ip, b.key)
      PROVE  Recorded(TempId(b.ip), b.ip)'
  <2>1. row \in Rows /\ db[row] \in Row /\ db[row].id = TempId(b.ip) BY <1>0 DEF RowsOfId
  <2>2. db'[row].status = "ACTIVE" /\ db'[row].ip = b.ip /\ db'[row].id = TempId(b.ip)
    BY <1>0, <1>1, <2>1 DEF UpdateRow, Row
  <2>3. QED BY <2>1, <2>2 DEF Recorded, RowsOfId, Live
<1>2. ASSUME CreateRow(TempId(b.ip), b.ip, b.key) PROVE Recorded(TempId(b.ip), b.ip)'
  <2>1. /\ nextRow \in Rows
        /\ db'[nextRow] = [status |-> "ACTIVE", id |-> TempId(b.ip), ip |-> b.ip, key |-> b.key]
    BY <1>0, <1>2 DEF CreateRow
  <2>2. QED BY <2>1 DEF Recorded, RowsOfId, Live
<1>3. QED BY <1>1, <1>2 DEF LockAddress

\* Nothing fails in a step that counts no failure.
LEMMA NoFault == TypeOK /\ faults' = 0 => ~Fault
BY DEF TypeOK, Fault

\* A failure that was counted stays counted.
LEMMA FaultsStay == TypeOK /\ [Next]_vars /\ faults' = 0 => faults = 0
<1> SUFFICES ASSUME TypeOK, [Next]_vars, faults' = 0 PROVE faults = 0 OBVIOUS
<1>0. ~Fault BY NoFault
<1>1. UNCHANGED faults
  BY <1>0 DEF Next, Step, RegisterDevice, Handle, AllocateIp, GenerateKeypair, RemoveOldPeer,
    AddNewPeer, CreateDevice, UpdateDevice, StoreFails, UndoPeer, RestoreOldPeer, MapIp, Reply,
    ReplyError, FailsEarly, AddNewPeerFails, LoseConnection, Revoke, Crash, BootStep, Boot,
    BootFails, ReadKernel, Listen, RestorePeer, SyncPeer, budgetVars, vars
<1>2. QED BY <1>1

\* A step that fails nowhere writes to the map nothing but the name of the
\* record that has the address.
LEMMA MapWrites ==
  ASSUME "drop" \notin RevokeModes, TypeOK, Sound, MapInv, [Next]_vars, faults' = 0,
         NEW ip \in Ips, ipMap'[ip] # ipMap[ip]
  PROVE  \E id \in DeviceIds : ipMap'[ip] = id /\ Recorded(id, ip)'
<1>0. /\ ~Fault /\ ipMap \in [Ips -> DeviceIds \cup {NoDevice}] /\ req \in [Requests -> Handler]
      /\ NoDevice \notin DeviceIds
  BY NoFault DEF TypeOK, RegistryTypeOK
<1>1. ASSUME NEW r \in Requests, MapIp(r)
      PROVE  \E id \in DeviceIds : ipMap'[ip] = id /\ Recorded(id, ip)'
  <2>1. /\ req[r].pc = "map" /\ req[r].id = req[r].dev /\ req[r].ip \in Ips
        /\ req[r].dev \in Devices
    BY <1>1 DEF MapIp, At, MapInv, MapsItsOwn, Sound, Shape, HandlerShape, HandlerHas
  <2>2. ipMap' = [ipMap EXCEPT ![req[r].ip] = req[r].dev]
    BY <1>0, <1>1, <2>1 DEF MapIp, MapIpToDevice
  <2>3. ip = req[r].ip /\ ipMap'[ip] = req[r].dev BY <1>0, <2>1, <2>2
  <2>4. PICK id \in DeviceIds : id = req[r].dev BY <2>1 DEF DeviceIds
  <2>5. Recorded(id, ip) BY <2>1, <2>3, <2>4 DEF Sound, DeliverInv
  <2>6. Recorded(id, ip)' BY <2>5, RecordedStays
  <2>7. QED BY <2>3, <2>4, <2>6
<1>2. ASSUME Boot PROVE \E id \in DeviceIds : ipMap'[ip] = id /\ Recorded(id, ip)'
  <2>1. ipMap'[ip] \in ActiveIds(ip) BY <1>2 DEF Boot
  <2>2. PICK row \in ActiveRows : db[row].ip = ip /\ ipMap'[ip] = db[row].id
    BY <2>1 DEF ActiveIds
  <2>3. row \in Rows /\ Live(row) BY <2>2 DEF ActiveRows, Live
  <2>4. PICK id \in DeviceIds : id = db[row].id BY <2>3 DEF Sound, TableInv, Identified
  <2>5. Recorded(id, ip) BY <2>2, <2>3, <2>4 DEF Recorded, RowsOfId
  <2>6. Recorded(id, ip)' BY <2>5, RecordedStays
  <2>7. QED BY <2>2, <2>4, <2>6
<1>3. ASSUME NEW b \in todo, SyncPeer(b)
      PROVE  \E id \in DeviceIds : ipMap'[ip] = id /\ Recorded(id, ip)'
  <2>0. b.ip \in Ips BY DEF TypeOK, Binding
  <2>1. ASSUME NEW row \in Rows, AdoptKey(b, row)
        PROVE  \E id \in DeviceIds : ipMap'[ip] = id /\ Recorded(id, ip)'
    <3>1. Live(row) /\ db[row].ip = b.ip /\ MapIpToDevice(b.ip, db[row].id)
      BY <2>1 DEF AdoptKey, Holds
    <3>2. PICK id \in DeviceIds : id = db[row].id BY <3>1 DEF Sound, TableInv, Identified
    <3>3. ip = b.ip /\ ipMap'[ip] = id BY <1>0, <2>0, <3>1, <3>2 DEF MapIpToDevice
    <3>4. Recorded(id, ip) BY <3>1, <3>2, <3>3 DEF Recorded, RowsOfId
    <3>5. Recorded(id, ip)' BY <3>4, RecordedStays
    <3>6. QED BY <3>2, <3>3, <3>5
  <2>2. ASSUME LockAddress(b)
        PROVE  \E id \in DeviceIds : ipMap'[ip] = id /\ Recorded(id, ip)'
    <3>1. PICK id \in DeviceIds : id = TempId(b.ip) BY <2>0, TempIdType
    <3>2. ip = b.ip /\ ipMap'[ip] = id
      BY <1>0, <2>0, <2>2, <3>1 DEF LockAddress, MapIpToDevice
    <3>3. Recorded(TempId(b.ip), b.ip)' BY <2>2, LockRecords
    <3>4. QED BY <3>1, <3>2, <3>3
  <2>3. QED BY <1>0, <1>3, <2>1, <2>2 DEF SyncPeer
<1>4. QED
  BY <1>0, <1>1, <1>2, <1>3 DEF Next, Step, RegisterDevice, Handle, AllocateIp, GenerateKeypair,
    RemoveOldPeer, AddNewPeer, CreateDevice, UpdateDevice, StoreFails, UndoPeer, RestoreOldPeer,
    Reply, ReplyError, FailsEarly, AddNewPeerFails, LoseConnection, Revoke, Crash, BootStep,
    BootFails, ReadKernel, Listen, RestorePeer, registryVars, vars

\* So the map keeps naming holders, and an address in it stays in it.
LEMMA MapNamesKept ==
  ASSUME "drop" \notin RevokeModes, TypeOK, Sound, MapInv, [Next]_vars, faults' = 0
  PROVE  /\ MapNames'
         /\ \A ip \in Ips : ipMap[ip] # NoDevice => ipMap'[ip] # NoDevice
<1>1. ASSUME NEW ip \in Ips, NEW id, id = ipMap'[ip], id # NoDevice PROVE Recorded(id, ip)'
  <2>1. CASE ipMap'[ip] = ipMap[ip]
    <3>1. Recorded(id, ip) BY <1>1, <2>1 DEF MapInv, MapNames
    <3>2. QED BY <3>1, RecordedStays
  <2>2. CASE ipMap'[ip] # ipMap[ip] BY <1>1, <2>2, MapWrites
  <2>3. QED BY <2>1, <2>2
<1>2. MapNames' BY <1>1 DEF MapNames, Recorded, RowsOfId
<1>3. \A ip \in Ips : ipMap[ip] # NoDevice => ipMap'[ip] # NoDevice BY MapWrites
<1>4. QED BY <1>2, <1>3

\* Handlers map their own devices, and answer after that.
LEMMA AnswersMapped ==
  ASSUME "drop" \notin RevokeModes, TypeOK, Sound, MapInv, [Next]_vars, faults' = 0
  PROVE  MapsItsOwn' /\ MappedAtReply' /\ MappedAtDrone'
<1>0. /\ ~Fault /\ ipMap \in [Ips -> DeviceIds \cup {NoDevice}] /\ req \in [Requests -> Handler]
      /\ NoDevice \notin DeviceIds /\ \A r \in Requests : HandlerHas(req[r])
  BY NoFault DEF TypeOK, RegistryTypeOK, Sound, Shape, HandlerShape
<1>1. \A ip \in Ips : ipMap[ip] # NoDevice => ipMap'[ip] # NoDevice BY MapNamesKept
\* What a handler's own step does to its place and its names.
<1>2. ASSUME NEW q \in Requests, req'[q].pc \in {"map", "reply"}
      PROVE  /\ req'[q].ip \in Ips
             /\ req'[q].pc = "map" => req'[q].id = req'[q].dev
             /\ req'[q].pc = "reply" => ipMap'[req'[q].ip] # NoDevice
  <2>1. CASE UNCHANGED req
    BY <1>0, <1>1, <1>2, <2>1 DEF MapInv, MapsItsOwn, MappedAtReply, At, HandlerHas
  <2>2. ASSUME NEW r \in Requests, Handle(r) \/ FailsEarly(r) \/ AddNewPeerFails(r), r # q
        PROVE  req'[q] = req[q]
    BY <2>2, HandlersRun DEF Sound
  <2>3. ASSUME req'[q] = req[q]
        PROVE  /\ req'[q].ip \in Ips
               /\ req'[q].pc = "map" => req'[q].id = req'[q].dev
               /\ req'[q].pc = "reply" => ipMap'[req'[q].ip] # NoDevice
    BY <1>0, <1>1, <1>2, <2>3 DEF MapInv, MapsItsOwn, MappedAtReply, At, HandlerHas
  <2>4. CASE CreateDevice(q)
    BY <1>0, <2>4 DEF CreateDevice, At, HandlerHas, Handler
  <2>5. CASE UpdateDevice(q)
    <3>1. db[req[q].row].id = req[q].dev BY <2>5 DEF UpdateDevice, Sound, TableInv, ReadsItsOwn
    <3>2. QED BY <1>0, <2>5, <3>1 DEF UpdateDevice, At, HandlerHas, Handler
  <2>6. CASE MapIp(q)
    <3>1. /\ req[q].pc = "map" /\ req[q].id = req[q].dev /\ req[q].ip \in Ips
          /\ req[q].dev \in Devices
      BY <1>0, <2>6 DEF MapIp, At, MapInv, MapsItsOwn, HandlerHas
    <3>2. ipMap' = [ipMap EXCEPT ![req[q].ip] = req[q].dev]
      BY <1>0, <2>6, <3>1 DEF MapIp, MapIpToDevice
    <3>3. req'[q].pc = "reply" /\ req'[q].ip = req[q].ip
      BY <1>0, <2>6 DEF MapIp, Goto, Handler
    <3>4. ipMap'[req[q].ip] = req[q].dev /\ req[q].dev # NoDevice
      BY <1>0, <3>1, <3>2 DEF DeviceIds
    <3>5. QED BY <3>1, <3>3, <3>4
  <2>7. ASSUME Handle(q) \/ FailsEarly(q) \/ AddNewPeerFails(q),
               ~CreateDevice(q), ~UpdateDevice(q), ~MapIp(q)
        PROVE  FALSE
    BY <1>0, <1>2, <2>7 DEF Handle, AllocateIp, GenerateKeypair, RemoveOldPeer, AddNewPeer,
      StoreFails, UndoPeer, RestoreOldPeer, Reply, ReplyError, FailsEarly, AddNewPeerFails, Goto,
      At, Handler, IdleHandler
  <2>8. ASSUME NEW r \in Requests, NEW d \in Devices, RegisterDevice(r, d) PROVE req'[q] = req[q]
    BY <1>2, <2>8, CallsStart
  <2>9. ASSUME NEW host \in BOOLEAN, Crash(host) PROVE FALSE
    BY <1>2, <2>9 DEF Crash, IdleHandler
  <2>10. QED
    BY <2>1, <2>2, <2>3, <2>4, <2>5, <2>6, <2>7, <2>8, <2>9 DEF Next, Step, LoseConnection,
      Revoke, BootStep, Boot, BootFails, ReadKernel, Listen, RestorePeer, SyncPeer, serverVars,
      vars
<1>3. ASSUME NEW d \in Devices, conf'[d] # NoConf PROVE ipMap'[conf'[d].ip] # NoDevice
  <2>1. CASE conf'[d] = conf[d]
    <3>1. conf[d].ip \in Ips BY <1>3, <2>1 DEF TypeOK, Binding
    <3>2. QED BY <1>1, <1>3, <2>1, <3>1 DEF MapInv, MappedAtDrone
  <2>2. ASSUME NEW r \in Requests, Reply(r), conf'[d] # conf[d]
        PROVE  ipMap'[conf'[d].ip] # NoDevice
    <3>1. conf'[d].ip = req[r].ip /\ req[r].ip \in Ips
      BY <1>0, <2>2 DEF Reply, At, TypeOK, HandlerHas
    <3>2. ipMap[req[r].ip] # NoDevice BY <2>2 DEF Reply, MapInv, MappedAtReply
    <3>3. QED BY <1>1, <3>1, <3>2
  <2>3. QED
    BY <2>1, <2>2 DEF Next, Step, RegisterDevice, Handle, AllocateIp, GenerateKeypair,
      RemoveOldPeer, AddNewPeer, CreateDevice, UpdateDevice, StoreFails, UndoPeer,
      RestoreOldPeer, MapIp, ReplyError, FailsEarly, AddNewPeerFails, LoseConnection, Revoke,
      Crash, BootStep, Boot, BootFails, ReadKernel, Listen, RestorePeer, SyncPeer, agentVars, vars
<1>4. QED BY <1>2, <1>3 DEF MapsItsOwn, MappedAtReply, MappedAtDrone, At

\* Unused rows stay nameless.
LEMMA UnusedKept ==
  ASSUME "drop" \notin RevokeModes, TypeOK, Sound, UnusedNameless, [Next]_vars
  PROVE  UnusedNameless'
<1> USE DEF Live, UnusedNameless
<1>1. CASE SameTable BY <1>1 DEF SameTable
<1>2. CASE GainStep
  <2>1. PICK row \in Rows, id \in DeviceIds, ip \in Ips : Gains(row, id, ip)
    BY <1>2 DEF GainStep
  <2>2. QED BY <2>1 DEF Gains
<1>3. CASE UNCHANGED vars BY <1>3 DEF vars, registryVars
<1>4. QED BY <1>1, <1>2, <1>3, StepTable DEF Sound

\* The boot keeps restoring the peers of records.
LEMMA RestoreKept ==
  ASSUME "drop" \notin RevokeModes, TypeOK, Sound, RestoreFromRows, [Next]_vars, faults' = 0
  PROVE  RestoreFromRows'
<1>0. ~Fault BY NoFault
<1>1. \A ip \in Ips : RowsOfIp(ip) # {} => RowsOfIp(ip)' # {} BY RowsStay DEF Sound
<1>2. CASE Boot
  <2>1. ASSUME NEW b \in todo' PROVE RowsOfIp(b.ip) # {} /\ b.ip \in Ips
    <3>1. PICK row \in ActiveRows : b.ip = db[row].ip
      BY <1>2, <2>1 DEF Boot, PeersToRestore
    <3>2. QED BY <3>1 DEF ActiveRows, RowsOfIp, Live, TypeOK, RegistryTypeOK, Row
  <2>2. \A b \in todo' : RowsOfIp(b.ip)' # {}
    <3>1. ASSUME NEW b \in todo', NEW ip, ip = b.ip PROVE RowsOfIp(ip)' # {}
      BY <1>1, <2>1, <3>1
    <3>2. QED BY <3>1 DEF RowsOfIp
  <2>3. QED BY <2>2 DEF RestoreFromRows
<1>3. CASE todo' \subseteq todo /\ phase = "restore"
  <2>1. ASSUME NEW b \in todo PROVE RowsOfIp(b.ip)' # {}
    <3>1. b.ip \in Ips BY DEF TypeOK, Binding
    <3>2. RowsOfIp(b.ip) # {} BY <1>3 DEF RestoreFromRows
    <3>3. QED BY <1>1, <3>1, <3>2
  <2>2. QED BY <1>3, <2>1 DEF RestoreFromRows
<1>4. CASE phase' # "restore" BY <1>4 DEF RestoreFromRows
<1>5. ASSUME NEW r \in Requests, Handle(r) \/ FailsEarly(r) \/ AddNewPeerFails(r)
      PROVE  phase' # "restore"
  BY <1>5, HandlersRun DEF Sound
<1>6. QED
  BY <1>0, <1>2, <1>3, <1>4, <1>5 DEF Next, Step, RegisterDevice, LoseConnection, Revoke, Crash,
    BootStep, BootFails, ReadKernel, Listen, RestorePeer, SyncPeer, serverVars, vars

\* Every active record stays covered by the map.
LEMMA MapCoversKept ==
  ASSUME "drop" \notin RevokeModes, TypeOK, Sound, MapInv, [Next]_vars, faults' = 0
  PROVE  MapCovers'
<1> DEFINE Covered(ip) == ipMap'[ip] # NoDevice
                            \/ \E q \in Requests : req'[q].pc = "map" /\ req'[q].ip = ip
           NowActive(row) == db'[row].status = "ACTIVE" /\ db'[row].ip \in Ips
<1>0. /\ ~Fault /\ ipMap \in [Ips -> DeviceIds \cup {NoDevice}] /\ req \in [Requests -> Handler]
      /\ NoDevice \notin DeviceIds /\ \A r \in Requests : HandlerHas(req[r])
      /\ db \in [Rows -> Row] /\ \A row \in Rows : db[row] \in Row
  BY NoFault DEF TypeOK, RegistryTypeOK, Sound, Shape, HandlerShape
<1>1. \A ip \in Ips : ipMap[ip] # NoDevice => ipMap'[ip] # NoDevice BY MapNamesKept
<1>s. SUFFICES ASSUME phase' # "down", NEW row \in Rows, NowActive(row)
               PROVE  Covered(db'[row].ip)
  <2>1. TypeOK' BY TypeStep DEF Sound
  <2>2. \A row \in ActiveRows' : row \in Rows /\ NowActive(row)
    BY <2>1 DEF ActiveRows, TypeOK, RegistryTypeOK, Row
  <2>3. \A row \in ActiveRows' : phase' # "down" => Covered(db'[row].ip) BY <1>s, <2>2
  <2>4. QED BY <2>3 DEF MapCovers, MapSoon, At
\* What was active before, at the same address, is covered unless the handler
\* that was to map it moves on without doing so.
<1>2. ASSUME phase # "down", db[row].status = "ACTIVE", db'[row].ip = db[row].ip,
             \A q \in Requests : req[q].pc = "map" /\ req[q].ip = db[row].ip =>
               req'[q] = req[q] \/ ipMap'[req[q].ip] # NoDevice
      PROVE  Covered(db'[row].ip)
  <2>1. row \in ActiveRows BY <1>s, <1>2 DEF ActiveRows
  <2>2. ipMap[db[row].ip] # NoDevice \/ MapSoon(db[row].ip)
    BY <1>2, <2>1 DEF MapInv, MapCovers
  <2>3. QED BY <1>1, <1>2, <1>s, <2>2 DEF MapSoon, At
<1> HIDE DEF Covered
<1>3. ASSUME NEW r \in Requests, Handle(r) \/ FailsEarly(r) \/ AddNewPeerFails(r)
      PROVE  Covered(db'[row].ip)
  <2>1. phase = "up" /\ \A q \in Requests \ {r} : req'[q] = req[q]
    BY <1>3, HandlersRun DEF Sound
  <2>2. CASE CreateDevice(r) \/ UpdateDevice(r)
    <3>1. req'[r].pc = "map" /\ req'[r].ip = req[r].ip /\ req[r].pc = "store"
      BY <1>0, <2>2 DEF CreateDevice, UpdateDevice, At, Handler
    <3>2. db'[row] = db[row] \/ db'[row].ip = req[r].ip
      <4>1. CASE CreateDevice(r) BY <1>0, <4>1 DEF CreateDevice, CreateRow
      <4>2. CASE UpdateDevice(r) BY <1>0, <4>2 DEF UpdateDevice, UpdateRow, Row
      <4>3. QED BY <2>2, <4>1, <4>2
    <3>3. CASE db'[row].ip = req[r].ip BY <3>1, <3>3 DEF Covered
    <3>4. CASE db'[row] = db[row] BY <1>2, <1>s, <2>1, <3>1, <3>4
    <3>5. QED BY <3>2, <3>3, <3>4
  <2>3. CASE MapIp(r)
    <3>1. /\ req[r].pc = "map" /\ req[r].id = req[r].dev /\ req[r].ip \in Ips
          /\ req[r].dev \in Devices /\ UNCHANGED db
      BY <1>0, <2>3 DEF MapIp, At, MapInv, MapsItsOwn, HandlerHas
    <3>2. ipMap' = [ipMap EXCEPT ![req[r].ip] = req[r].dev]
      BY <1>0, <2>3, <3>1 DEF MapIp, MapIpToDevice
    <3>3. ipMap'[req[r].ip] # NoDevice BY <1>0, <3>1, <3>2 DEF DeviceIds
    <3>4. QED BY <1>2, <1>s, <2>1, <3>1, <3>3
  <2>4. CASE ~CreateDevice(r) /\ ~UpdateDevice(r) /\ ~MapIp(r)
    <3>1. UNCHANGED db /\ req[r].pc # "map"
      BY <1>3, <2>4 DEF Handle, AllocateIp, GenerateKeypair, RemoveOldPeer, AddNewPeer,
        StoreFails, UndoPeer, RestoreOldPeer, Reply, ReplyError, FailsEarly, AddNewPeerFails,
        At, registryVars
    <3>2. QED BY <1>2, <1>s, <2>1, <3>1
  <2>5. QED BY <2>2, <2>3, <2>4
<1>4. ASSUME NEW r \in Requests, NEW d \in Devices, RegisterDevice(r, d)
      PROVE  Covered(db'[row].ip)
  <2>1. /\ phase = "up" /\ req[r].pc = "idle" /\ UNCHANGED db
        /\ \A q \in Requests \ {r} : req'[q] = req[q]
    BY <1>4, CallsStart DEF At, RegisterDevice, registryVars
  <2>2. QED BY <1>2, <1>s, <2>1
<1>5. ASSUME NEW q \in Rows, NEW mode \in RevokeModes, Revoke(q, mode)
      PROVE  Covered(db'[row].ip)
  <2>1. mode # "drop" BY <1>5
  <2>2. UNCHANGED req /\ phase' = phase /\ db'[row].ip = db[row].ip
        /\ (db'[row].status = "ACTIVE" => db[row].status = "ACTIVE")
    BY <1>0, <1>5, <2>1 DEF Revoke, serverVars, Row
  <2>3. QED BY <1>2, <1>s, <2>2
<1>6. CASE Boot
  <2>1. UNCHANGED db BY <1>6 DEF Boot
  <2>2. row \in ActiveRows /\ Live(row) BY <1>s, <2>1 DEF ActiveRows, Live
  <2>3. db[row].id \in ActiveIds(db[row].ip) BY <2>2 DEF ActiveIds
  <2>4. ipMap'[db[row].ip] \in ActiveIds(db[row].ip) BY <1>0, <1>6, <1>s, <2>1, <2>3 DEF Boot
  <2>5. \A id \in ActiveIds(db[row].ip) : id \in DeviceIds
    BY DEF ActiveIds, ActiveRows, Live, Sound, TableInv, Identified
  <2>6. ipMap'[db[row].ip] # NoDevice BY <1>0, <2>4, <2>5
  <2>7. QED BY <2>1, <2>6 DEF Covered
<1>7. ASSUME NEW b \in todo, SyncPeer(b) PROVE Covered(db'[row].ip)
  <2>0. b.ip \in Ips /\ phase = "sync" /\ UNCHANGED req BY <1>7 DEF SyncPeer, TypeOK, Binding
  <2>1. CASE UNCHANGED db BY <1>2, <1>s, <2>0, <2>1
  <2>2. ASSUME NEW q \in Rows, UpdateRow(q, b.ip, b.key), NEW id \in DeviceIds,
               MapIpToDevice(b.ip, id)
        PROVE  Covered(db'[row].ip)
    <3>1. ipMap'[b.ip] # NoDevice BY <1>0, <2>0, <2>2 DEF MapIpToDevice
    <3>2. db'[row] = db[row] \/ db'[row].ip = b.ip BY <1>0, <2>2 DEF UpdateRow, Row
    <3>3. CASE db'[row].ip = b.ip BY <3>1, <3>3 DEF Covered
    <3>4. CASE db'[row] = db[row] BY <1>2, <1>s, <2>0, <3>4
    <3>5. QED BY <3>2, <3>3, <3>4
  <2>3. ASSUME NEW id \in DeviceIds, CreateRow(id, b.ip, b.key), MapIpToDevice(b.ip, id)
        PROVE  Covered(db'[row].ip)
    <3>1. ipMap'[b.ip] # NoDevice BY <1>0, <2>0, <2>3 DEF MapIpToDevice
    <3>2. db'[row] = db[row] \/ db'[row].ip = b.ip BY <1>0, <2>3 DEF CreateRow
    <3>3. CASE db'[row].ip = b.ip BY <3>1, <3>3 DEF Covered
    <3>4. CASE db'[row] = db[row] BY <1>2, <1>s, <2>0, <3>4
    <3>5. QED BY <3>2, <3>3, <3>4
  <2>4. ASSUME NEW q \in Rows, AdoptKey(b, q) PROVE Covered(db'[row].ip)
    <3>1. Live(q) BY <2>4 DEF AdoptKey, Holds
    <3>2. db[q].id \in DeviceIds BY <3>1 DEF Sound, TableInv, Identified
    <3>3. QED BY <2>1, <2>2, <2>4, <3>2 DEF AdoptKey
  <2>5. ASSUME LockAddress(b) PROVE Covered(db'[row].ip)
    <3>1. TempId(b.ip) \in DeviceIds BY <2>0, TempIdType
    <3>2. QED BY <2>2, <2>3, <2>5, <3>1 DEF LockAddress, RowsOfId
  <2>6. QED BY <1>0, <1>7, <2>4, <2>5 DEF SyncPeer
<1>8. CASE UNCHANGED <<db, req>> /\ phase # "down"
  BY <1>2, <1>8, <1>s
<1>9. QED
  BY <1>0, <1>3, <1>4, <1>5, <1>6, <1>7, <1>8, <1>s DEF Next, Step, LoseConnection, Crash,
    BootStep, BootFails, ReadKernel, Listen, RestorePeer, registryVars, serverVars, vars

\* A static peer's address stays locked, or unlocked until the boot locks it.
LEMMA StaticLockedKept ==
  ASSUME "drop" \notin RevokeModes, TypeOK, Sound, MapInv, [Next]_vars, faults' = 0
  PROVE  StaticLocked'
<1>0. /\ ~Fault /\ StaticIps \subseteq Ips /\ route \in [Ips -> Keys \cup {NoKey}]
      /\ todo \subseteq Binding /\ db \in [Rows -> Row] /\ \A row \in Rows : db[row] \in Row
  BY NoFault DEF TypeOK, RegistryTypeOK
<1>1. SUFFICES ASSUME NEW ip \in StaticIps, ~Recorded(TempId(ip), ip)'
               PROVE  Unlocked(ip)'
  BY DEF StaticLocked
<1>2. ip \in Ips /\ Unlocked(ip) BY <1>0, <1>1, RecordedStays DEF MapInv, StaticLocked
<1>3. RowsOfIp(ip) = {} /\ phase # "up" /\ route[ip] = ip BY <1>2 DEF Unlocked
<1>4. ASSUME SameTable PROVE RowsOfIp(ip)' = {}
  BY <1>3, <1>4 DEF SameTable, RowsOfIp, Live
<1>5. ASSUME UNCHANGED db PROVE RowsOfIp(ip)' = {}
  BY <1>3, <1>5 DEF RowsOfIp, Live
<1>6. ASSUME NEW r \in Requests, Handle(r) \/ FailsEarly(r) \/ AddNewPeerFails(r) PROVE FALSE
  BY <1>3, <1>6, HandlersRun DEF Sound
<1>7. ASSUME NEW row \in Rows, NEW mode \in RevokeModes, Revoke(row, mode) PROVE Unlocked(ip)'
  <2>1. mode # "drop" BY <1>7
  <2>2. RowsOfIp(ip)' = {}
    BY <1>0, <1>3, <1>7, <2>1 DEF Revoke, RowsOfIp, Live, Row
  <2>3. QED BY <1>2, <1>7, <2>2 DEF Revoke, serverVars, Unlocked
<1>8. ASSUME NEW host \in BOOLEAN, Crash(host) PROVE Unlocked(ip)'
  BY <1>2, <1>3, <1>5, <1>8 DEF Crash, StaticRoute, Unlocked
<1>9. CASE Boot BY <1>3, <1>5, <1>9 DEF Boot, Unlocked
<1>10. ASSUME NEW b \in todo, RestorePeer(b) PROVE Unlocked(ip)'
  <2>1. b.key \in Keys /\ b.ip \in Ips /\ phase = "restore" BY <1>0, <1>10 DEF Binding, RestorePeer
  <2>2. b.ip # ip BY <1>3, <2>1 DEF MapInv, RestoreFromRows
  <2>3. b.key # ip
    <3>1. Bound(b.key, b.ip)
      <4>1. [key |-> b.key, ip |-> b.ip] \in todo BY <1>0 DEF Binding
      <4>2. QED BY <4>1 DEF Bound
    <3>2. b.key <= EndIp => b.key = b.ip BY <2>1, <3>1 DEF Sound, KeyInv
    <3>3. QED BY <1>2, <2>1, <2>2, <3>2
  <2>4. route'[ip] = ip
    BY <1>0, <1>2, <1>3, <1>10, <2>1, <2>2, <2>3 DEF RestorePeer, AddPeer, RouteWith
  <2>5. QED BY <1>5, <1>10, <2>1, <2>4 DEF RestorePeer, Unlocked
<1>11. CASE ReadKernel
  <2>1. [key |-> ip, ip |-> ip] \in KernelPeers BY <1>2, <1>3 DEF KernelPeers, Binding
  <2>2. QED BY <1>0, <1>3, <1>5, <1>11, <2>1 DEF ReadKernel, registryVars, Unlocked
<1>12. ASSUME NEW b \in todo, SyncPeer(b) PROVE Unlocked(ip)'
  <2>0. b.ip \in Ips /\ phase = "sync" /\ phase' = "sync" /\ UNCHANGED route
    BY <1>0, <1>12 DEF SyncPeer, Binding
  <2>1. ASSUME NEW row \in Rows, AdoptKey(b, row) PROVE b.ip # ip /\ RowsOfIp(ip)' = {}
    <3>1. Live(row) /\ db[row].ip = b.ip BY <2>1 DEF AdoptKey, Holds
    <3>2. b.ip # ip BY <1>3, <3>1 DEF RowsOfIp
    <3>3. SameTable
      <4>1. CASE UNCHANGED <<db, nextRow>> BY <4>1 DEF SameTable, Live
      <4>2. CASE UpdateRow(row, b.ip, b.key) BY <3>1, <4>2, UpdateKeeps
      <4>3. QED BY <2>1, <4>1, <4>2 DEF AdoptKey
    <3>4. QED BY <1>4, <3>2, <3>3
  <2>2. ASSUME LockAddress(b) PROVE b.ip # ip /\ RowsOfIp(ip)' = {}
    <3>1. Recorded(TempId(b.ip), b.ip)' BY <2>2, LockRecords
    <3>2. b.ip # ip BY <1>1, <3>1
    <3>3. \A row \in Rows : db'[row] = db[row] \/ db'[row].ip = b.ip
      <4>1. ASSUME NEW q \in Rows, UpdateRow(q, b.ip, b.key)
            PROVE  \A row \in Rows : db'[row] = db[row] \/ db'[row].ip = b.ip
        BY <1>0, <4>1 DEF UpdateRow, Row
      <4>2. ASSUME CreateRow(TempId(b.ip), b.ip, b.key)
            PROVE  \A row \in Rows : db'[row] = db[row] \/ db'[row].ip = b.ip
        BY <1>0, <4>2 DEF CreateRow
      <4>3. QED BY <2>2, <4>1, <4>2 DEF LockAddress, RowsOfId
    <3>4. QED BY <1>3, <3>2, <3>3 DEF RowsOfIp, Live
  <2>3. b.ip # ip /\ RowsOfIp(ip)' = {} BY <1>0, <1>12, <2>1, <2>2 DEF SyncPeer
  <2>4. [key |-> ip, ip |-> ip] \in todo' BY <1>2, <1>12, <2>0, <2>3 DEF Unlocked, SyncPeer
  <2>5. QED BY <1>3, <2>0, <2>3, <2>4 DEF Unlocked
<1>13. CASE UNCHANGED vars
  BY <1>2, <1>5, <1>13 DEF vars, registryVars, serverVars, Unlocked
<1>14. QED
  BY <1>0, <1>2, <1>3, <1>6, <1>7, <1>8, <1>9, <1>10, <1>11, <1>12, <1>13 DEF Next, Step,
    RegisterDevice, LoseConnection, BootStep, BootFails, Listen, Unlocked

\* The registry, and the map with it, stay sound in a step that fails nowhere.
LEMMA MapStep ==
  ASSUME "drop" \notin RevokeModes, TypeOK, Sound, MapInv, [Next]_vars, faults' = 0
  PROVE  Sound' /\ MapInv'
BY SoundStep, MapNamesKept, AnswersMapped, UnusedKept, RestoreKept, MapCoversKept,
   StaticLockedKept DEF MapInv

-----------------------------------------------------------------------------
(* As long as nobody enters a drone and nothing fails, bindings change nothing *)

\* The resolver names the holder of an address, or the temporary record of a
\* static peer's address.
ResolvedInv ==
  \A ip \in Ips : resolved[ip] # NoDevice =>
    Recorded(resolved[ip], ip) \/ (resolved[ip] = TempId(ip) /\ ip \in StaticIps)

\* Every binding is about to find the record that it asks for.
BindersInert ==
  \A b \in Binders :
    \/ BAt(b, "idle")
    \/ BAt(b, "byId") /\ bind[b].ip \in Ips /\ Recorded(bind[b].id, bind[b].ip)

Calm == Sound /\ MapInv /\ ResolvedInv /\ BindersInert

CalmInv == entered = 0 /\ faults = 0 => Calm

LEMMA InitCalm == BInit => CalmInv
BY InitMap DEF BInit, CalmInv, Calm, ResolvedInv, BindersInert, IdleBinder, BAt

\* What was entered, and what failed, was not undone.
LEMMA CountsStay ==
  BTypeOK /\ [BNext]_bvars /\ entered' = 0 /\ faults' = 0 => entered = 0 /\ faults = 0
<1> SUFFICES ASSUME BTypeOK, [BNext]_bvars, entered' = 0, faults' = 0
             PROVE  entered = 0 /\ faults = 0
  OBVIOUS
<1>0. TypeOK /\ entered \in Nat /\ ~Fault BY NoFault DEF BTypeOK
<1>1. CASE Step /\ UNCHANGED bindVars
  BY <1>0, <1>1, FaultsStay DEF Next, bindVars, countVars
<1>2. ASSUME NEW host \in BOOLEAN, BCrash(host) PROVE entered = 0 /\ faults = 0
  BY <1>0, <1>2 DEF BCrash, Crash, countVars
<1>3. ASSUME NEW b \in Binders, BindStep(b) PROVE entered = 0 /\ faults = 0
  BY <1>0, <1>3 DEF BindStep, FindById, FindConflict, DeleteConflict, MoveDevice, FindByIp,
    RenameDevice, CreateDiscovered, MapBoundId, countVars, budgetVars, vars
<1>4. ASSUME \/ \E ip \in Ips : Resolve(ip)
             \/ \E b \in Binders, ip \in Ips : Discover(b, ip)
             \/ \E id \in DeviceIds : Forget(id)
             \/ \E b \in Binders, input \in AdminInputs : EnterManually(b, input)
             \/ UNCHANGED bvars
      PROVE  entered = 0 /\ faults = 0
  BY <1>0, <1>4 DEF Resolve, Discover, Forget, EnterManually, countVars, budgetVars, vars,
    bvars, bindVars
<1>5. QED BY <1>1, <1>2, <1>3, <1>4 DEF BNext

\* Between two such states only provisioning has changed the registry.
LEMMA OnlyProvisioning ==
  ASSUME BTypeOK, Calm, [BNext]_bvars, entered' = 0, faults' = 0
  PROVE  /\ [Next]_vars
         /\ \A b \in Binders : BindStep(b) => UNCHANGED vars /\ Done(b)
<1>0. TypeOK /\ entered = 0 /\ ~Fault BY CountsStay, NoFault DEF BTypeOK
<1>1. ASSUME NEW b \in Binders, BindStep(b) PROVE UNCHANGED vars /\ Done(b)
  <2>1. ~BAt(b, "idle")
    BY <1>1 DEF BindStep, FindById, FindConflict, DeleteConflict, MoveDevice, FindByIp,
      RenameDevice, CreateDiscovered, MapBoundId, BAt
  <2>2. BAt(b, "byId") /\ Recorded(bind[b].id, bind[b].ip)
    BY <2>1 DEF Calm, BindersInert
  <2>3. FindById(b)
    BY <1>1, <2>2 DEF BindStep, FindConflict, DeleteConflict, MoveDevice, FindByIp,
      RenameDevice, CreateDiscovered, MapBoundId, BAt
  <2>4. PICK own \in RowsOfId(bind[b].id) : db[own].ip = bind[b].ip BY <2>2 DEF Recorded
  <2>5. \A row \in RowsOfId(bind[b].id) : row = own
    BY <2>4 DEF RowsOfId, Calm, Sound, TableInv, UniqueIds
  <2>6. QED BY <2>3, <2>4, <2>5 DEF FindById
<1>2. [Next]_vars
  BY <1>0, <1>1 DEF BNext, BCrash, Resolve, Discover, Forget, EnterManually, Next, vars, bvars,
    budgetVars, agentVars
<1>3. QED BY <1>1, <1>2

\* The resolver goes on naming holders.
LEMMA ResolvedKept ==
  ASSUME "drop" \notin RevokeModes, BTypeOK, Calm, [BNext]_bvars, entered' = 0, faults' = 0
  PROVE  ResolvedInv'
<1>0. /\ TypeOK /\ entered = 0 /\ ~Fault /\ [Next]_vars
      /\ resolved \in [Ips -> DeviceIds \cup {NoDevice}]
  BY CountsStay, NoFault, OnlyProvisioning DEF BTypeOK
<1>1. ASSUME NEW ip \in Ips, NEW id, id = resolved'[ip], id # NoDevice
      PROVE  Recorded(id, ip)' \/ (id = TempId(ip) /\ ip \in StaticIps)
  <2>1. CASE resolved'[ip] = resolved[ip]
    <3>1. Recorded(id, ip) \/ (id = TempId(ip) /\ ip \in StaticIps)
      BY <1>1, <2>1 DEF Calm, ResolvedInv
    <3>2. QED BY <1>0, <3>1, RecordedStays DEF Calm
  <2>2. CASE Resolve(ip)
    <3>1. CASE ipMap[ip] # NoDevice
      <4>1. id = ipMap[ip] BY <1>0, <1>1, <2>2, <3>1 DEF Resolve
      <4>2. Recorded(id, ip) BY <3>1, <4>1 DEF Calm, MapInv, MapNames
      <4>3. QED BY <1>0, <4>2, RecordedStays DEF Calm
    <3>2. CASE ipMap[ip] = NoDevice
      <4>1. id = TempId(ip) BY <1>0, <1>1, <2>2, <3>2 DEF Resolve
      <4>2. ASSUME NEW d \in Devices, conf[d] = [key |-> route[ip], ip |-> ip] PROVE FALSE
        <5>1. conf[d].ip = ip /\ conf[d] # NoConf BY <4>2 DEF NoConf
        <5>2. QED BY <3>2, <5>1 DEF Calm, MapInv, MappedAtDrone
      <4>3. ip \in StaticIps BY <2>2, <4>2 DEF Resolve, Sends, StaticRoute
      <4>4. QED BY <4>1, <4>3
    <3>3. QED BY <3>1, <3>2
  <2>3. ASSUME NEW host \in BOOLEAN, BCrash(host) PROVE resolved'[ip] = resolved[ip]
    BY <1>1, <2>3 DEF BCrash
  <2>4. ASSUME NEW other \in Ips, Resolve(other), other # ip PROVE resolved'[ip] = resolved[ip]
    BY <1>0, <2>4 DEF Resolve
  <2>5. CASE UNCHANGED resolved BY <2>1, <2>5
  <2>6. QED
    BY <2>1, <2>2, <2>3, <2>4, <2>5 DEF BNext, Discover, Forget, EnterManually, BindStep,
      FindById, FindConflict, DeleteConflict, MoveDevice, FindByIp, RenameDevice,
      CreateDiscovered, MapBoundId, bindVars, bvars
<1>2. QED BY <1>1 DEF ResolvedInv, Recorded, RowsOfId

\* Bindings stay without effect.
LEMMA BindersInertKept ==
  ASSUME "drop" \notin RevokeModes, BTypeOK, Calm, [BNext]_bvars, entered' = 0, faults' = 0
  PROVE  BindersInert'
<1>0. /\ TypeOK /\ entered = 0 /\ ~Fault /\ [Next]_vars /\ bind \in [Binders -> Binder]
  BY CountsStay, NoFault, OnlyProvisioning DEF BTypeOK
<1>1. ASSUME NEW b \in Binders, NEW h, h = bind'[b], h = bind[b]
      PROVE  h.pc = "idle" \/ (h.pc = "byId" /\ h.ip \in Ips /\ Recorded(h.id, h.ip)')
  <2>1. h.pc = "idle" \/ (h.pc = "byId" /\ h.ip \in Ips /\ Recorded(h.id, h.ip))
    BY <1>1 DEF Calm, BindersInert, BAt
  <2>2. QED BY <1>0, <2>1, RecordedStays DEF Calm
<1>2. ASSUME NEW b \in Binders, NEW h, h = bind'[b], h # bind[b]
      PROVE  h.pc = "idle" \/ (h.pc = "byId" /\ h.ip \in Ips /\ Recorded(h.id, h.ip)')
  <2>1. ASSUME NEW c \in Binders, BindStep(c) PROVE h.pc = "idle"
    <3>1. Done(c) BY <2>1, OnlyProvisioning
    <3>2. QED BY <1>0, <1>2, <3>1 DEF Done, IdleBinder
  <2>2. ASSUME NEW c \in Binders, NEW ip \in Ips, Discover(c, ip)
        PROVE  h.pc = "byId" /\ h.ip \in Ips /\ Recorded(h.id, h.ip)'
    <3>1. phase = "up" /\ resolved[ip] # NoDevice
          /\ bind' = [bind EXCEPT ![c] =
                        [IdleBinder EXCEPT !.pc = "byId", !.id = resolved[ip], !.ip = ip]]
      BY <2>2 DEF Discover, Start
    <3>2. h = [IdleBinder EXCEPT !.pc = "byId", !.id = resolved[ip], !.ip = ip]
      BY <1>0, <1>2, <3>1
    <3>3. h.pc = "byId" /\ h.id = resolved[ip] /\ h.ip = ip BY <3>2 DEF IdleBinder
    <3>4. Recorded(resolved[ip], ip)
      BY <3>1 DEF Calm, ResolvedInv, MapInv, StaticLocked, Unlocked
    <3>5. Recorded(h.id, h.ip) /\ h.ip \in Ips BY <3>3, <3>4
    <3>6. Recorded(h.id, h.ip)' BY <1>0, <3>5, RecordedStays DEF Calm
    <3>7. QED BY <3>3, <3>5, <3>6
  <2>3. ASSUME NEW host \in BOOLEAN, BCrash(host) PROVE h.pc = "idle"
    BY <1>2, <2>3 DEF BCrash, IdleBinder
  <2>4. ASSUME NEW c \in Binders, NEW input \in AdminInputs, EnterManually(c, input) PROVE FALSE
    BY <1>0, <2>4 DEF EnterManually
  <2>5. QED
    BY <1>2, <2>1, <2>2, <2>3, <2>4 DEF BNext, Resolve, Forget, bindVars, bvars
<1>3. ASSUME NEW b \in Binders, NEW h, h = bind'[b]
      PROVE  h.pc = "idle" \/ (h.pc = "byId" /\ h.ip \in Ips /\ Recorded(h.id, h.ip)')
  BY <1>1, <1>2, <1>3
<1>4. QED BY <1>3 DEF BindersInert, BAt, Recorded, RowsOfId

\* Calm is inductive, given the types.
LEMMA CalmStep ==
  ASSUME "drop" \notin RevokeModes
  PROVE  BTypeOK /\ CalmInv /\ [BNext]_bvars => CalmInv'
<1> SUFFICES ASSUME BTypeOK, CalmInv, [BNext]_bvars, entered' = 0, faults' = 0 PROVE Calm'
  BY DEF CalmInv
<1>1. TypeOK /\ Calm BY CountsStay DEF BTypeOK, CalmInv
<1>2. [Next]_vars BY <1>1, OnlyProvisioning
<1>3. Sound' /\ MapInv' BY <1>1, <1>2, MapStep DEF Calm
<1>4. ResolvedInv' /\ BindersInert' BY <1>1, ResolvedKept, BindersInertKept
<1>5. QED BY <1>3, <1>4 DEF Calm

LEMMA CalmInvariant ==
  ASSUME "drop" \notin RevokeModes
  PROVE  BSpec => [](BTypeOK /\ CalmInv)
<1>1. BTypeOK /\ CalmInv /\ [BNext]_bvars => CalmInv' BY CalmStep
<1>2. QED BY InitBinders, InitCalm, BTypeStep, <1>1, PTL DEF BSpec

\* As long as no write was lost and nobody entered a drone by hand, the map
\* names the device of every active record between handlers, whatever
\* registrations, crashes, boots, revocations that keep addresses, and
\* bindings from telemetry come in between.
THEOREM MapStaysMatched ==
  ASSUME "drop" \notin RevokeModes
  PROVE  BSpec => []MapMatchesTable
<1>1. BTypeOK /\ CalmInv => MapMatchesTable
  <2> SUFFICES ASSUME BTypeOK, Calm, BSettled, NEW row \in ActiveRows
               PROVE  ipMap[db[row].ip] = db[row].id
    BY DEF MapMatchesTable, CalmInv
  <2>1. row \in Rows /\ Live(row) /\ db[row].ip \in Ips
    BY DEF ActiveRows, Live, BTypeOK, TypeOK, RegistryTypeOK, Row
  <2>2. ipMap[db[row].ip] # NoDevice
    BY DEF Calm, MapInv, MapCovers, MapSoon, BSettled, Settled, At
  <2>3. PICK own \in RowsOfId(ipMap[db[row].ip]) : db[own].ip = db[row].ip
    BY <2>1, <2>2 DEF Calm, MapInv, MapNames, Recorded
  <2>4. own = row
    BY <2>1, <2>3 DEF RowsOfId, Calm, Sound, TableInv, UniqueIps, Holds
  <2>5. QED BY <2>3, <2>4 DEF RowsOfId
<1>2. BSpec => [](BTypeOK /\ CalmInv) BY CalmInvariant
<1>3. QED BY <1>1, <1>2, PTL

\* Under the same conditions no name in the map belongs to a drone whose record
\* is at another address: telemetry is never taken for another drone's.
THEOREM MapStaysTrue ==
  ASSUME "drop" \notin RevokeModes
  PROVE  BSpec => []MapNamesItsHolder
<1>1. BTypeOK /\ CalmInv => MapNamesItsHolder
  <2> SUFFICES ASSUME BTypeOK, Calm, NEW ip \in Ips, IsReal(ipMap[ip])
               PROVE  \E row \in RowsOfId(ipMap[ip]) : db[row].ip = ip
    BY DEF MapNamesItsHolder, CalmInv
  <2>1. ipMap[ip] # NoDevice BY DEF IsReal, DeviceIds
  <2>2. QED BY <2>1 DEF Calm, MapInv, MapNames, Recorded
<1>2. BSpec => [](BTypeOK /\ CalmInv) BY CalmInvariant
<1>3. QED BY <1>1, <1>2, PTL

\* And no record under a hardware identity ever loses it: what telemetry
\* renames, or deletes to make room, is a temporary record.
THEOREM IdentityIsKept ==
  ASSUME "drop" \notin RevokeModes
  PROVE  BSpec => TelemetryKeepsIdentity
<1>1. BTypeOK /\ CalmInv /\ [BNext]_bvars
        => [entered' = 0 /\ faults' = 0 =>
              \A row \in Rows : IsReal(db[row].id) => db'[row].id = db[row].id]_bvars
  <2> SUFFICES ASSUME BTypeOK, CalmInv, [BNext]_bvars, entered' = 0, faults' = 0,
                      NEW row \in Rows, IsReal(db[row].id)
               PROVE  db'[row].id = db[row].id
    OBVIOUS
  <2>1. TypeOK /\ Calm BY CountsStay DEF BTypeOK, CalmInv
  <2>2. [Next]_vars BY <2>1, OnlyProvisioning
  <2>3. Live(row)
    BY <2>1 DEF Calm, MapInv, UnusedNameless, IsReal, DeviceIds
  <2>4. CASE SameTable BY <2>4 DEF SameTable
  <2>5. CASE GainStep BY <2>3, <2>5 DEF GainStep, Gains
  <2>6. CASE UNCHANGED vars BY <2>6 DEF vars, registryVars
  <2>7. QED BY <2>1, <2>2, <2>4, <2>5, <2>6, StepTable DEF Calm, Sound
<1>2. BSpec => [](BTypeOK /\ CalmInv) BY CalmInvariant
<1>3. BSpec => [][BNext]_bvars BY DEF BSpec
<1>4. QED BY <1>1, <1>2, <1>3, PTL DEF TelemetryKeepsIdentity

-----------------------------------------------------------------------------
(* No two records share a key *)

\* Nobody revokes: every record is active, with an address of its own, and a
\* row that is not in use has no key.
RowsActive ==
  \A row \in Rows :
    /\ Live(row) => db[row].status = "ACTIVE" /\ db[row].ip \in Ips
    /\ ~Live(row) => db[row].key = NoKey

\* The kernel routes one address to a key at most.
OneRoute == \A i, j \in Ips : route[i] = route[j] /\ route[i] # NoKey => i = j

\* Every key in use was generated before.
KeysUsed ==
  /\ \A row \in Rows : db[row].key < nextKey
  /\ \A ip \in Ips : route[ip] < nextKey
  /\ \A r \in Requests : req[r].key < nextKey /\ req[r].old < nextKey
  /\ \A b \in todo : b.key < nextKey

\* The key that a handler is about to store is its own: no record has it, nor
\* another handler that is about to store one.
Pending(r) == req[r].pc \in {"removeOld", "add", "store"}
PendingNew ==
  \A r \in Requests : Pending(r) =>
    /\ \A row \in Rows : db[row].key # req[r].key
    /\ \A q \in Requests : Pending(q) /\ req[q].key = req[r].key => q = r

\* Until the server listens no binding runs.
BindersAlone == phase # "up" => \A b \in Binders : BAt(b, "idle")

NotShared == \A p, q \in Rows : p # q /\ IsRealKey(db[p].key) => db[p].key # db[q].key

\* If the kernel knows the key of a record, it routes the record's address to it.
RoutedHome(q) == \A j \in Ips : route[j] = db[q].key => db[q].ip = j

\* A boot that meets no failure brings every key back to its record's address
\* before it reads the kernel's peers into the table.
RestoreInv ==
  phase = "restore" =>
    /\ todo \subseteq PeersToRestore
    /\ \A q \in Rows : IsRealKey(db[q].key) =>
         [key |-> db[q].key, ip |-> db[q].ip] \in todo \/ RoutedHome(q)
SyncInv ==
  phase = "sync" =>
    todo \subseteq KernelPeers /\ \A q \in Rows : IsRealKey(db[q].key) => RoutedHome(q)

Apart ==
  /\ UniqueIps /\ RowsActive /\ OneRoute /\ KeysUsed /\ PendingNew /\ BootsAlone /\ BindersAlone
  /\ faults = 0 => NotShared /\ RestoreInv /\ SyncInv

LEMMA InitApart == BInit => Apart
<1> SUFFICES ASSUME BInit PROVE Apart OBVIOUS
<1>1. UniqueIps /\ RowsActive /\ NotShared
  BY DEF BInit, Init, RegistryInit, EmptyRow, UniqueIps, RowsActive, NotShared, Live, Holds,
    IsRealKey
<1>2. OneRoute BY DEF BInit, Init, RegistryInit, StaticRoute, OneRoute
<1>3. KeysUsed
  BY DEF BInit, Init, RegistryInit, StaticRoute, EmptyRow, IdleHandler, KeysUsed
<1>4. PendingNew /\ BootsAlone /\ BindersAlone
  BY DEF BInit, Init, IdleHandler, IdleBinder, PendingNew, Pending, BootsAlone, BindersAlone,
    At, BAt
<1>5. RestoreInv /\ SyncInv BY DEF BInit, Init, RestoreInv, SyncInv
<1>6. QED BY <1>1, <1>2, <1>3, <1>4, <1>5 DEF Apart

\* What is written to the table: row, active, with this address, that no other
\* row has, and this key.
Writes(row, ip, key) ==
  /\ \A q \in Rows \ {row} : db'[q] = db[q] /\ ~Holds(q, ip)
  /\ db'[row].status = "ACTIVE" /\ db'[row].ip = ip /\ db'[row].key = key

\* The key is the row's own, or that of a handler that stores it and moves on,
\* or that of a kernel peer that the boot reads into the table.
Sourced(row, ip, key) ==
  \/ key = ManualKey
  \/ key = db[row].key /\ Live(row)
  \/ /\ \E r \in Requests : At(r, "store") /\ key = req[r].key /\ req'[r].pc = "map"
                              /\ \A q \in Requests \ {r} : req'[q] = req[q]
     /\ phase = "up" /\ UNCHANGED <<route, nextKey, todo, phase>>
  \/ /\ \E b \in todo : key = b.key /\ ip = b.ip
     /\ phase = "sync" /\ UNCHANGED <<route, nextKey, req, phase>>

WriteStep ==
  \E row \in Rows, ip \in Ips, key \in Keys \cup {NoKey, ManualKey} :
    Writes(row, ip, key) /\ Sourced(row, ip, key)

DeleteStep == \E row \in Rows : db' = [db EXCEPT ![row] = EmptyRow]

\* An update writes a row, unless another holds the address.
LEMMA UpdateWrites ==
  ASSUME TypeOK, NEW row \in Rows, NEW ip \in Ips, NEW key, UpdateRow(row, ip, key),
         \A q \in Rows \ {row} : ~Holds(q, ip)
  PROVE  Writes(row, ip, key)
<1>1. db \in [Rows -> Row] /\ db[row] \in Row BY DEF TypeOK, RegistryTypeOK
<1>2. QED BY <1>1 DEF UpdateRow, Writes, Row

\* So does an insertion.
LEMMA CreateWrites ==
  ASSUME TypeOK, NEW id, NEW ip \in Ips, NEW key, CreateRow(id, ip, key),
         \A q \in Rows : ~Holds(q, ip)
  PROVE  nextRow \in Rows /\ Writes(nextRow, ip, key)
BY DEF TypeOK, RegistryTypeOK, CreateRow, Writes

\* Handlers write the key that they generated.
LEMMA HandlersWrite ==
  ASSUME TypeOK, HandlersHave, Apart, NEW r \in Requests,
         Handle(r) \/ FailsEarly(r) \/ AddNewPeerFails(r)
  PROVE  UNCHANGED db \/ WriteStep
<1>0. /\ req[r] \in Handler /\ HandlerHas(req[r]) /\ req \in [Requests -> Handler]
      /\ phase = "up" /\ \A q \in Requests \ {r} : req'[q] = req[q]
  BY HandlersRun DEF TypeOK, HandlersHave, Apart
<1>1. CASE CreateDevice(r) \/ UpdateDevice(r)
  <2>1. /\ At(r, "store") /\ req[r].ip \in Ips /\ req[r].key \in Keys
        /\ req'[r].pc = "map" /\ UNCHANGED <<route, nextKey, todo, phase>>
    BY <1>0, <1>1 DEF CreateDevice, UpdateDevice, At, HandlerHas, Handler
  <2>2. \A row \in Rows : Sourced(row, req[r].ip, req[r].key) BY <1>0, <2>1 DEF Sourced
  <2>3. ASSUME CreateDevice(r) PROVE WriteStep
    <3>1. nextRow \in Rows /\ Writes(nextRow, req[r].ip, req[r].key)
      BY <2>1, <2>3, CreateWrites DEF CreateDevice, CanCreate, IpAdmitted
    <3>2. QED BY <2>1, <2>2, <3>1 DEF WriteStep
  <2>4. ASSUME UpdateDevice(r) PROVE WriteStep
    <3>1. req[r].row \in Rows BY <1>0, <2>4 DEF UpdateDevice, IsRotation, Handler
    <3>2. Writes(req[r].row, req[r].ip, req[r].key)
      BY <2>1, <2>4, <3>1, UpdateWrites DEF UpdateDevice, CanUpdate, IpAdmitted
    <3>3. QED BY <2>1, <2>2, <3>1, <3>2 DEF WriteStep
  <2>5. QED BY <1>1, <2>3, <2>4
<1>2. CASE ~CreateDevice(r) /\ ~UpdateDevice(r)
  BY <1>2 DEF Handle, AllocateIp, GenerateKeypair, RemoveOldPeer, AddNewPeer, StoreFails,
    UndoPeer, RestoreOldPeer, MapIp, Reply, ReplyError, FailsEarly, AddNewPeerFails, registryVars
<1>3. QED BY <1>1, <1>2

\* The boot writes what the kernel routes: a peer's address and its key.
LEMMA SyncWrites ==
  ASSUME TypeOK, Apart, NEW b \in todo, SyncPeer(b)
  PROVE  UNCHANGED db \/ \E row \in Rows : Writes(row, b.ip, b.key)
<1>0. b.ip \in Ips BY DEF TypeOK, Binding
<1>1. ASSUME NEW row \in Rows, UpdateRow(row, b.ip, b.key), \A q \in Rows \ {row} : ~Holds(q, b.ip)
      PROVE  Writes(row, b.ip, b.key)
  BY <1>0, <1>1, UpdateWrites
<1>2. ASSUME NEW row \in Rows, AdoptKey(b, row)
      PROVE  UNCHANGED db \/ Writes(row, b.ip, b.key)
  <2>1. Holds(row, b.ip) BY <1>2 DEF AdoptKey
  <2>2. \A q \in Rows \ {row} : ~Holds(q, b.ip) BY <2>1 DEF Apart, UniqueIps, Holds
  <2>3. QED BY <1>1, <1>2, <2>2 DEF AdoptKey
<1>3. ASSUME LockAddress(b) PROVE \E row \in Rows : Writes(row, b.ip, b.key)
  <2>1. \A q \in Rows : ~Holds(q, b.ip) BY <1>3 DEF LockAddress, RowsOfIp, Holds
  <2>2. CASE CreateRow(TempId(b.ip), b.ip, b.key) BY <1>0, <2>1, <2>2, CreateWrites
  <2>3. QED BY <1>1, <1>3, <2>1, <2>2 DEF LockAddress, RowsOfId
<1>4. QED BY <1>2, <1>3 DEF SyncPeer

LEMMA BootWrites ==
  ASSUME TypeOK, Apart, BootStep
  PROVE  UNCHANGED db \/ WriteStep
<1>1. ASSUME NEW b \in todo, SyncPeer(b) PROVE UNCHANGED db \/ WriteStep
  <2>1. /\ b.ip \in Ips /\ b.key \in Keys /\ phase = "sync"
        /\ UNCHANGED <<route, nextKey, req, phase>>
    BY <1>1 DEF TypeOK, Binding, SyncPeer
  <2>2. \A row \in Rows : Sourced(row, b.ip, b.key) BY <2>1 DEF Sourced
  <2>3. QED BY <1>1, <2>1, <2>2, SyncWrites DEF WriteStep
<1>2. QED
  BY <1>1 DEF BootStep, Boot, BootFails, ReadKernel, Listen, RestorePeer, registryVars

\* Bindings write no key that a row did not have, or delete a row.
LEMMA BindingsWrite ==
  ASSUME BTypeOK, BindersHave, Apart, NEW b \in Binders, BindStep(b)
  PROVE  UNCHANGED db \/ WriteStep \/ DeleteStep
<1>0. TypeOK /\ BinderHas(bind[b]) /\ db \in [Rows -> Row]
  BY DEF BTypeOK, TypeOK, RegistryTypeOK, BindersHave
<1>1. CASE DeleteConflict(b)
  BY <1>0, <1>1 DEF DeleteConflict, BAt, BinderHas, DeleteStep
<1>2. CASE MoveDevice(b)
  <2> DEFINE row == bind[b].own
  <2>1. row \in Rows /\ bind[b].ip \in Ips BY <1>0, <1>2 DEF MoveDevice, BAt, BinderHas
  <2>2. db[row].key \in Keys \cup {NoKey, ManualKey} BY <1>0, <2>1 DEF Row
  <2>3. ASSUME CanUpdate(row, bind[b].ip), UpdateRow(row, bind[b].ip, db[row].key)
        PROVE  WriteStep
    <3>1. Writes(row, bind[b].ip, db[row].key)
      BY <1>0, <2>1, <2>3, UpdateWrites DEF CanUpdate, IpAdmitted
    <3>2. Sourced(row, bind[b].ip, db[row].key) BY <2>3 DEF Sourced, CanUpdate
    <3>3. QED BY <2>1, <2>2, <3>1, <3>2 DEF WriteStep
  <2>4. QED BY <1>2, <2>3 DEF MoveDevice
<1>3. CASE RenameDevice(b)
  <2> DEFINE row == bind[b].own
  <2>1. row \in Rows /\ db[row] \in Row BY <1>0, <1>3 DEF RenameDevice, BAt, BinderHas
  <2>2. ASSUME Live(row), db' = [db EXCEPT ![row].id = bind[b].id, ![row].status = "ACTIVE"]
        PROVE  WriteStep
    <3>1. db[row].ip \in Ips /\ db[row].key \in Keys \cup {NoKey, ManualKey}
      BY <2>1, <2>2 DEF Apart, RowsActive, Row
    <3>2. db'[row].status = "ACTIVE" /\ db'[row].ip = db[row].ip /\ db'[row].key = db[row].key
      BY <1>0, <2>1, <2>2 DEF Row
    <3>3. \A q \in Rows \ {row} : db'[q] = db[q] /\ ~Holds(q, db[row].ip)
      BY <1>0, <2>1, <2>2 DEF Apart, UniqueIps
    <3>4. Writes(row, db[row].ip, db[row].key) BY <3>2, <3>3 DEF Writes
    <3>5. Sourced(row, db[row].ip, db[row].key) BY <2>2 DEF Sourced
    <3>6. QED BY <2>1, <3>1, <3>4, <3>5 DEF WriteStep
  <2>3. QED BY <1>3, <2>2 DEF RenameDevice
<1>4. CASE CreateDiscovered(b)
  <2>1. bind[b].ip \in Ips BY <1>0, <1>4 DEF CreateDiscovered, BAt, BinderHas
  <2>2. ASSUME CanCreate(bind[b].id, bind[b].ip), CreateRow(bind[b].id, bind[b].ip, ManualKey)
        PROVE  WriteStep
    <3>1. nextRow \in Rows /\ Writes(nextRow, bind[b].ip, ManualKey)
      BY <1>0, <2>1, <2>2, CreateWrites DEF CanCreate, IpAdmitted
    <3>2. QED BY <2>1, <3>1 DEF WriteStep, Sourced
  <2>3. QED BY <1>4, <2>2 DEF CreateDiscovered
<1>5. CASE FindById(b) \/ FindConflict(b) \/ FindByIp(b) \/ MapBoundId(b)
  BY <1>5 DEF FindById, FindConflict, FindByIp, MapBoundId, vars, registryVars
<1>6. QED BY <1>1, <1>2, <1>3, <1>4, <1>5 DEF BindStep

\* What any step writes, while nobody revokes.
LEMMA TableWrites ==
  ASSUME RevokeModes = {}, BTypeOK, HandlersHave, BindersHave, Apart, [BNext]_bvars
  PROVE  UNCHANGED db \/ WriteStep \/ DeleteStep
<1>0. TypeOK BY DEF BTypeOK
<1>1. CASE Step
  BY <1>0, <1>1, HandlersWrite, BootWrites DEF Step, RegisterDevice, LoseConnection, registryVars
<1>2. ASSUME \/ \E host \in BOOLEAN : BCrash(host)
             \/ \E ip \in Ips : Resolve(ip)
             \/ \E b \in Binders, ip \in Ips : Discover(b, ip)
             \/ \E id \in DeviceIds : Forget(id)
             \/ \E b \in Binders, input \in AdminInputs : EnterManually(b, input)
             \/ UNCHANGED bvars
      PROVE  UNCHANGED db
  BY <1>2 DEF BCrash, Crash, Resolve, Discover, Forget, EnterManually, bvars, vars, registryVars
<1>3. QED BY <1>1, <1>2, BindingsWrite DEF BNext

\* The rows stay active, each with an address of its own.
LEMMA RowsApart ==
  ASSUME UniqueIps, RowsActive, db \in [Rows -> Row], UNCHANGED db \/ WriteStep \/ DeleteStep
  PROVE  UniqueIps' /\ RowsActive'
<1> USE DEF Live, Holds, UniqueIps, RowsActive
<1>1. CASE UNCHANGED db BY <1>1
<1>2. CASE WriteStep
  <2>1. PICK row \in Rows, ip \in Ips, key \in Keys \cup {NoKey, ManualKey} : Writes(row, ip, key)
    BY <1>2 DEF WriteStep
  <2>2. RowsActive' BY <2>1 DEF Writes
  <2>3. \A q \in Rows \ {row} : db'[q] = db[q] /\ ~Holds(q, ip) BY <2>1 DEF Writes
  <2>4. db'[row].ip = ip /\ ip # NoIp BY <2>1 DEF Writes
  <2>5. ASSUME NEW p \in Rows, NEW q \in Rows, p # q, Live(p)', Live(q)', db'[p].ip # NoIp
        PROVE  db'[p].ip # db'[q].ip
    <3>1. CASE p = row BY <2>3, <2>4, <2>5, <3>1
    <3>2. CASE q = row BY <2>3, <2>4, <2>5, <3>2
    <3>3. CASE p # row /\ q # row BY <2>3, <2>5, <3>3
    <3>4. QED BY <3>1, <3>2, <3>3
  <2>6. QED BY <2>2, <2>5
<1>3. CASE DeleteStep BY <1>3 DEF DeleteStep, EmptyRow
<1>4. QED BY <1>1, <1>2, <1>3

\* A binding runs in a server that listens, and leaves the peers, the boot and
\* the handlers alone.
LEMMA BindingsRun ==
  ASSUME BindersAlone, NEW b \in Binders, BindStep(b)
  PROVE  phase = "up" /\ UNCHANGED <<route, nextKey, req, phase, todo>>
<1>1. ~BAt(b, "idle")
  BY DEF BindStep, FindById, FindConflict, DeleteConflict, MoveDevice, FindByIp, RenameDevice,
    CreateDiscovered, MapBoundId, BAt
<1>2. UNCHANGED <<route, nextKey, req, phase, todo>>
  BY DEF BindStep, FindById, FindConflict, DeleteConflict, MoveDevice, FindByIp, RenameDevice,
    CreateDiscovered, MapBoundId, vars, registryVars, serverVars
<1>3. QED BY <1>1, <1>2 DEF BindersAlone

\* The steps that the keys depend on, while nobody revokes.
LEMMA StepKinds ==
  ASSUME RevokeModes = {}, [BNext]_bvars
  PROVE  \/ \E r \in Requests, d \in Devices : RegisterDevice(r, d)
         \/ \E r \in Requests : Handle(r) \/ FailsEarly(r) \/ AddNewPeerFails(r)
         \/ BootStep
         \/ \E host \in BOOLEAN : Crash(host)
         \/ \E b \in Binders : BindStep(b)
         \/ UNCHANGED <<db, route, nextKey, req, phase, todo>>
BY DEF BNext, Step, BCrash, LoseConnection, Resolve, Discover, Forget, EnterManually, bvars,
  vars, registryVars, serverVars

\* What a step does to the kernel's peers.
RouteStep ==
  \/ UNCHANGED route
  \/ route' = StaticRoute
  \/ \E k \in Keys, ip \in Ips :
       k < nextKey /\ (route' = RouteWith(k, ip) \/ route' = RouteWithout(k))

LEMMA PeersWrite ==
  ASSUME NEW k \in Keys \cup {NoKey, ManualKey}, k < nextKey, NEW ip \in Ips,
         AddPeer(k, ip) \/ RemovePeer(k)
  PROVE  RouteStep
BY DEF AddPeer, RemovePeer, IsRealKey, RouteStep

LEMMA RoutesWrite ==
  ASSUME RevokeModes = {}, BTypeOK, HandlersHave, Apart, [BNext]_bvars
  PROVE  RouteStep
<1>0. TypeOK /\ KeysUsed /\ BindersAlone BY DEF BTypeOK, Apart
<1>1. ASSUME NEW r \in Requests, Handle(r) \/ FailsEarly(r) \/ AddNewPeerFails(r)
      PROVE  RouteStep
  <2>1. /\ req[r] \in Handler /\ HandlerHas(req[r])
        /\ req[r].key < nextKey /\ req[r].old < nextKey
    BY <1>0 DEF TypeOK, HandlersHave, KeysUsed
  <2>2. CASE req[r].pc \in {"removeOld", "add", "undo", "restoreOld"}
    <3>1. /\ req[r].ip \in Ips /\ req[r].old \in Keys \cup {NoKey, ManualKey}
          /\ req[r].key \in Keys \cup {NoKey, ManualKey}
      BY <2>1, <2>2 DEF HandlerHas, Handler
    <3>2. \/ UNCHANGED route
          \/ AddPeer(req[r].key, req[r].ip) \/ AddPeer(req[r].old, req[r].ip)
          \/ RemovePeer(req[r].key) \/ RemovePeer(req[r].old)
      BY <1>1, <2>2 DEF Handle, AllocateIp, GenerateKeypair, RemoveOldPeer, AddNewPeer,
        CreateDevice, UpdateDevice, StoreFails, UndoPeer, RestoreOldPeer, MapIp, Reply,
        ReplyError, FailsEarly, AddNewPeerFails, registryVars
    <3>3. QED BY <2>1, <3>1, <3>2, PeersWrite DEF RouteStep
  <2>3. CASE req[r].pc \notin {"removeOld", "add", "undo", "restoreOld"}
    BY <1>1, <2>3 DEF Handle, AllocateIp, GenerateKeypair, RemoveOldPeer, AddNewPeer,
      CreateDevice, UpdateDevice, StoreFails, UndoPeer, RestoreOldPeer, MapIp, Reply,
      ReplyError, FailsEarly, AddNewPeerFails, registryVars, At, RouteStep
  <2>4. QED BY <2>2, <2>3
<1>2. ASSUME NEW b \in todo, RestorePeer(b) PROVE RouteStep
  <2>1. b.key \in Keys /\ b.ip \in Ips /\ b.key < nextKey
    BY <1>0 DEF TypeOK, Binding, KeysUsed
  <2>2. QED BY <1>2, <2>1, PeersWrite DEF RestorePeer, RouteStep
<1>3. ASSUME NEW b \in Binders, BindStep(b) PROVE UNCHANGED route BY <1>0, <1>3, BindingsRun
<1>4. QED
  BY <1>1, <1>2, <1>3, StepKinds DEF RegisterDevice, BootStep, Boot, BootFails, ReadKernel,
    Listen, SyncPeer, Crash, registryVars, RouteStep

\* The kernel goes on routing one address to a key.
LEMMA OneRouteKept ==
  ASSUME TypeOK, OneRoute, RouteStep
  PROVE  OneRoute'
<1>0. route \in [Ips -> Keys \cup {NoKey}] BY DEF TypeOK, RegistryTypeOK
<1>1. CASE UNCHANGED route BY <1>1 DEF OneRoute
<1>2. CASE route' = StaticRoute BY <1>2 DEF StaticRoute, OneRoute
<1>3. ASSUME NEW k \in Keys, NEW ip \in Ips, route' = RouteWith(k, ip) PROVE OneRoute'
  BY <1>0, <1>3 DEF RouteWith, OneRoute
<1>4. ASSUME NEW k \in Keys, route' = RouteWithout(k) PROVE OneRoute'
  BY <1>0, <1>4 DEF RouteWithout, OneRoute
<1>5. QED BY <1>1, <1>2, <1>3, <1>4 DEF RouteStep

\* What a step leaves in a handler: its keys, none, the next one, or that of a
\* record.
HandlerKeys(r) ==
  /\ \/ req'[r].key = req[r].key \/ req'[r].key = NoKey
     \/ req'[r].key = nextKey /\ nextKey' = nextKey + 1
  /\ \/ req'[r].old = req[r].old \/ req'[r].old = NoKey
     \/ \E row \in Rows : req'[r].old = db[row].key

LEMMA HandlersTake ==
  ASSUME RevokeModes = {}, BTypeOK, HandlersHave, Apart, [BNext]_bvars
  PROVE  (\A r \in Requests : HandlerKeys(r)) /\ nextKey' >= nextKey
<1>0. /\ TypeOK /\ BootsAlone /\ BindersAlone /\ nextKey \in Int
      /\ req \in [Requests -> Handler] /\ \A r \in Requests : req[r] \in Handler
  BY DEF BTypeOK, TypeOK, RegistryTypeOK, Apart
<1>1. ASSUME NEW r \in Requests, Handle(r) \/ FailsEarly(r) \/ AddNewPeerFails(r)
      PROVE  (\A q \in Requests : HandlerKeys(q)) /\ nextKey' >= nextKey
  <2>1. \A q \in Requests \ {r} : HandlerKeys(q) BY <1>0, <1>1, HandlersRun DEF HandlerKeys
  <2>2. CASE GenerateKeypair(r)
    <3>1. req'[r].key = nextKey /\ req'[r].old = req[r].old /\ nextKey' = nextKey + 1
      BY <1>0, <2>2 DEF GenerateKeypair, Handler
    <3>2. QED BY <1>0, <2>1, <3>1 DEF HandlerKeys
  <2>3. CASE ~GenerateKeypair(r)
    <3>1. req'[r].key \in {req[r].key, NoKey} /\ req'[r].old \in {req[r].old, NoKey}
      BY <1>0, <1>1, <2>3 DEF Handle, AllocateIp, RemoveOldPeer, AddNewPeer, CreateDevice,
        UpdateDevice, StoreFails, UndoPeer, RestoreOldPeer, MapIp, Reply, ReplyError, FailsEarly,
        AddNewPeerFails, Goto, Handler, IdleHandler
    <3>2. UNCHANGED nextKey
      BY <1>1, <2>3 DEF Handle, AllocateIp, RemoveOldPeer, AddNewPeer, CreateDevice,
        UpdateDevice, StoreFails, UndoPeer, RestoreOldPeer, MapIp, Reply, ReplyError, FailsEarly,
        AddNewPeerFails, registryVars
    <3>3. QED BY <1>0, <2>1, <3>1, <3>2 DEF HandlerKeys
  <2>4. QED BY <2>2, <2>3
<1>2. ASSUME NEW r \in Requests, NEW d \in Devices, RegisterDevice(r, d)
      PROVE  (\A q \in Requests : HandlerKeys(q)) /\ nextKey' >= nextKey
  <2>1. \A q \in Requests \ {r} : req'[q] = req[q] BY <1>0, <1>2, CallsStart
  <2>2. /\ req'[r].key = NoKey
        /\ req'[r].old = NoKey \/ \E row \in Rows : req'[r].old = db[row].key
    <3>1. CASE StartNew(r, d) BY <1>0, <3>1 DEF StartNew, IdleHandler
    <3>2. CASE StartRotation(r, d)
      <4>1. PICK row \in Rows :
              req' = [req EXCEPT ![r] =
                [IdleHandler EXCEPT !.pc = RotationStart(row), !.dev = d,
                                    !.row = row, !.ip = db[row].ip, !.old = db[row].key]]
        BY <3>2 DEF StartRotation, RowsOfId
      <4>2. QED BY <1>0, <4>1 DEF IdleHandler
    <3>3. CASE StartRefused(r, d) BY <1>0, <3>3 DEF StartRefused, IdleHandler
    <3>4. QED BY <1>2, <3>1, <3>2, <3>3 DEF RegisterDevice
  <2>3. UNCHANGED nextKey BY <1>2 DEF RegisterDevice, registryVars
  <2>4. QED BY <1>0, <2>1, <2>2, <2>3 DEF HandlerKeys
<1>3. ASSUME UNCHANGED <<req, nextKey>>
      PROVE  (\A q \in Requests : HandlerKeys(q)) /\ nextKey' >= nextKey
  BY <1>0, <1>3 DEF HandlerKeys
<1>4. ASSUME NEW host \in BOOLEAN, Crash(host)
      PROVE  (\A q \in Requests : HandlerKeys(q)) /\ nextKey' >= nextKey
  BY <1>0, <1>4 DEF Crash, IdleHandler, HandlerKeys
<1>5. ASSUME BootStep \/ \E b \in Binders : BindStep(b) PROVE UNCHANGED <<req, nextKey>>
  BY <1>0, <1>5, BindingsRun DEF BootStep, Boot, BootFails, ReadKernel, Listen, RestorePeer,
    SyncPeer, registryVars
<1>6. QED BY <1>1, <1>2, <1>3, <1>4, <1>5, StepKinds

\* What the boot still has to treat comes from the table or from the kernel.
LEMMA BootTakes ==
  ASSUME RevokeModes = {}, BTypeOK, Apart, [BNext]_bvars
  PROVE  todo' \subseteq todo \/ todo' = PeersToRestore \/ todo' = KernelPeers
<1>0. TypeOK /\ BootsAlone /\ BindersAlone BY DEF BTypeOK, Apart
<1>1. ASSUME NEW r \in Requests, Handle(r) \/ FailsEarly(r) \/ AddNewPeerFails(r)
      PROVE  UNCHANGED todo
  BY <1>1 DEF Handle, AllocateIp, GenerateKeypair, RemoveOldPeer, AddNewPeer, CreateDevice,
    UpdateDevice, StoreFails, UndoPeer, RestoreOldPeer, MapIp, Reply, ReplyError, FailsEarly,
    AddNewPeerFails
<1>2. ASSUME NEW b \in Binders, BindStep(b) PROVE UNCHANGED todo BY <1>0, <1>2, BindingsRun
<1>3. QED
  BY <1>1, <1>2, StepKinds DEF RegisterDevice, BootStep, Boot, BootFails, ReadKernel, Listen,
    RestorePeer, SyncPeer, Crash

\* A key that is used was generated before.
LEMMA KeysUsedKept ==
  ASSUME RevokeModes = {}, BTypeOK, HandlersHave, BindersHave, Apart, [BNext]_bvars
  PROVE  KeysUsed'
<1>0. /\ TypeOK /\ KeysUsed /\ db \in [Rows -> Row] /\ route \in [Ips -> Keys \cup {NoKey}]
      /\ nextKey \in Nat /\ nextKey > EndIp /\ nextKey' \in Nat /\ nextKey' >= nextKey
      /\ \A row \in Rows : db[row].key \in Int
      /\ \A r \in Requests : req[r].key \in Int /\ req[r].old \in Int
  <2>1. nextKey' \in EndIp + 1 .. MaxKey + 1
    BY BTypeStep DEF BTypeOK, TypeOK, RegistryTypeOK
  <2>2. \A row \in Rows : db[row] \in Row BY DEF BTypeOK, TypeOK, RegistryTypeOK
  <2>3. \A r \in Requests : req[r] \in Handler BY DEF BTypeOK, TypeOK
  <2>4. \A row \in Rows : db[row].key \in Int BY <2>2 DEF Row
  <2>5. \A r \in Requests : req[r].key \in Int /\ req[r].old \in Int BY <2>3 DEF Handler
  <2>6. nextKey' >= nextKey BY HandlersTake
  <2>7. QED BY <2>1, <2>4, <2>5, <2>6 DEF BTypeOK, TypeOK, RegistryTypeOK, Apart
<1> USE DEF KeysUsed
<1>1. \A row \in Rows : db'[row].key < nextKey'
  <2>1. CASE UNCHANGED db BY <1>0, <2>1
  <2>2. CASE DeleteStep BY <1>0, <2>2 DEF DeleteStep, EmptyRow
  <2>3. CASE WriteStep
    <3>1. PICK row \in Rows, ip \in Ips, key \in Keys \cup {NoKey, ManualKey} :
            Writes(row, ip, key) /\ Sourced(row, ip, key)
      BY <2>3 DEF WriteStep
    <3>2. key < nextKey BY <1>0, <3>1 DEF Sourced
    <3>3. \A q \in Rows \ {row} : db'[q] = db[q] BY <3>1 DEF Writes
    <3>4. db'[row].key = key BY <3>1 DEF Writes
    <3>5. QED BY <1>0, <3>2, <3>3, <3>4
  <2>4. QED BY <2>1, <2>2, <2>3, TableWrites
<1>2. \A ip \in Ips : route'[ip] < nextKey'
  <2>1. RouteStep BY RoutesWrite
  <2>2. \A ip \in Ips : route[ip] < nextKey /\ route[ip] \in Int BY <1>0
  <2>3. ASSUME NEW k \in Keys, NEW ip \in Ips, k < nextKey,
               route' = RouteWith(k, ip) \/ route' = RouteWithout(k)
        PROVE  \A i \in Ips : route'[i] < nextKey'
    <3>1. \A i \in Ips : route'[i] = k \/ route'[i] = NoKey \/ route'[i] = route[i]
      BY <2>3 DEF RouteWith, RouteWithout
    <3>2. nextKey \in Nat /\ nextKey' \in Nat /\ nextKey <= nextKey' BY <1>0
    <3>3. k < nextKey' BY <2>3, <3>2 DEF Keys
    <3>4. NoKey < nextKey' BY <1>0, <3>2 DEF NoKey
    <3>5. \A i \in Ips : route[i] < nextKey' BY <2>2, <3>2
    <3>6. QED BY <3>1, <3>3, <3>4, <3>5
  <2>4. CASE UNCHANGED route BY <1>0, <2>2, <2>4
  <2>5. CASE route' = StaticRoute BY <1>0, <2>5 DEF StaticRoute
  <2>6. QED BY <2>1, <2>3, <2>4, <2>5 DEF RouteStep
<1>3. ASSUME NEW r \in Requests PROVE req'[r].key < nextKey' /\ req'[r].old < nextKey'
  <2>1. HandlerKeys(r) BY HandlersTake
  <2>2. req'[r].key < nextKey' BY <1>0, <2>1 DEF HandlerKeys
  <2>3. req'[r].old < nextKey' BY <1>0, <2>1 DEF HandlerKeys
  <2>4. QED BY <2>2, <2>3
<1>4. \A b \in todo' : b.key < nextKey'
  <2>1. CASE todo' \subseteq todo
    <3>1. \A b \in todo : b.key < nextKey /\ b.key \in Int BY <1>0 DEF TypeOK, Binding
    <3>2. QED BY <1>0, <2>1, <3>1
  <2>2. CASE todo' = PeersToRestore
    BY <1>0, <2>2 DEF PeersToRestore, ActiveRows
  <2>3. CASE todo' = KernelPeers BY <1>0, <2>3 DEF KernelPeers, Binding
  <2>4. QED BY <2>1, <2>2, <2>3, BootTakes DEF Apart
<1>5. QED BY <1>1, <1>2, <1>3, <1>4

\* A handler that is about to store a key was before, or generates it.
LEMMA PendingComes ==
  ASSUME RevokeModes = {}, BTypeOK, HandlersHave, Apart, [BNext]_bvars,
         NEW r \in Requests, Pending(r)'
  PROVE  \/ Pending(r) /\ req'[r].key = req[r].key
         \/ /\ req'[r].key = nextKey /\ UNCHANGED db
            /\ \A q \in Requests \ {r} : req'[q] = req[q]
<1>0. /\ TypeOK /\ BootsAlone /\ BindersAlone
      /\ req \in [Requests -> Handler] /\ req[r] \in Handler
  BY DEF BTypeOK, TypeOK, Apart
<1>p. req'[r].pc \in {"removeOld", "add", "store"} BY DEF Pending
<1> USE DEF Pending
<1>1. CASE req'[r] = req[r] BY <1>p, <1>1
<1>2. CASE req'[r] # req[r]
  <2>1. ASSUME NEW q \in Requests, Handle(q) \/ FailsEarly(q) \/ AddNewPeerFails(q)
        PROVE  Handle(r) \/ FailsEarly(r) \/ AddNewPeerFails(r)
    BY <1>0, <1>2, <2>1, HandlersRun
  <2>2. ASSUME NEW q \in Requests, NEW d \in Devices, RegisterDevice(q, d) PROVE FALSE
    BY <1>0, <1>2, <2>2, CallsStart
  <2>3. ASSUME NEW host \in BOOLEAN, Crash(host) PROVE FALSE
    BY <2>3 DEF Crash, IdleHandler
  <2>4. ASSUME BootStep \/ \E b \in Binders : BindStep(b) PROVE UNCHANGED req
    BY <1>0, <2>4, BindingsRun DEF BootStep, Boot, BootFails, ReadKernel, Listen, RestorePeer,
      SyncPeer
  <2>5. Handle(r) \/ FailsEarly(r) \/ AddNewPeerFails(r)
    BY <1>2, <2>1, <2>2, <2>3, <2>4, StepKinds
  <2>6. CASE GenerateKeypair(r)
    BY <1>0, <2>5, <2>6, HandlersRun DEF GenerateKeypair
  <2>7. CASE RemoveOldPeer(r) \/ AddNewPeer(r)
    BY <1>0, <2>7 DEF RemoveOldPeer, AddNewPeer, At, Goto, Handler
  <2>8. CASE AllocateIp(r)
    <3>1. req'[r].pc \in {"generate", "failed"} BY <1>0, <2>8 DEF AllocateIp, Goto, Handler
    <3>2. QED BY <1>p, <3>1
  <2>9. CASE CreateDevice(r) \/ UpdateDevice(r) \/ Reply(r) \/ ReplyError(r)
    <3>1. req'[r].pc \in {"map", "idle"}
      BY <1>0, <2>9 DEF CreateDevice, UpdateDevice, Reply, ReplyError, IdleHandler, Handler
    <3>2. QED BY <1>p, <3>1
  <2>10. CASE StoreFails(r) \/ UndoPeer(r) \/ RestoreOldPeer(r) \/ MapIp(r) \/ FailsEarly(r)
              \/ AddNewPeerFails(r)
    <3>1. req'[r].pc \in {"undo", "restoreOld", "failed", "reply"}
      BY <1>0, <2>10 DEF StoreFails, UndoPeer, RestoreOldPeer, MapIp, FailsEarly,
        AddNewPeerFails, Goto, Handler
    <3>2. QED BY <1>p, <3>1
  <2>11. QED BY <2>5, <2>6, <2>7, <2>8, <2>9, <2>10 DEF Handle
<1>3. QED BY <1>1, <1>2

\* It stays the only one that has this key.
LEMMA PendingNewKept ==
  ASSUME RevokeModes = {}, BTypeOK, HandlersHave, BindersHave, Apart, [BNext]_bvars
  PROVE  PendingNew'
<1>0. /\ \A row \in Rows : db[row].key < nextKey /\ db[row].key \in Int
      /\ \A r \in Requests : req[r].key < nextKey /\ req[r].key \in Int
      /\ nextKey \in Nat /\ nextKey > EndIp
  <2>1. \A row \in Rows : db[row] \in Row BY DEF BTypeOK, TypeOK, RegistryTypeOK
  <2>2. \A r \in Requests : req[r] \in Handler BY DEF BTypeOK, TypeOK
  <2>3. \A row \in Rows : db[row].key \in Int BY <2>1 DEF Row
  <2>4. \A r \in Requests : req[r].key \in Int BY <2>2 DEF Handler
  <2>5. QED BY <2>3, <2>4 DEF BTypeOK, TypeOK, RegistryTypeOK, Apart, KeysUsed
<1>1. ASSUME NEW r \in Requests, Pending(r)', NEW row \in Rows
      PROVE  db'[row].key # req'[r].key
  <2>1. CASE req'[r].key = nextKey /\ UNCHANGED db BY <1>0, <2>1
  <2>2. CASE Pending(r) /\ req'[r].key = req[r].key
    <3>1. req[r].key \in Keys /\ \A q \in Rows : db[q].key # req[r].key
      BY <2>2 DEF Pending, HandlersHave, HandlerHas, Apart, PendingNew
    <3>2. CASE UNCHANGED db BY <2>2, <3>1, <3>2
    <3>3. CASE DeleteStep BY <1>0, <2>2, <3>1, <3>3 DEF DeleteStep, EmptyRow, BTypeOK, TypeOK,
            RegistryTypeOK
    <3>4. CASE WriteStep
      <4>1. PICK own \in Rows, ip \in Ips, key \in Keys \cup {NoKey, ManualKey} :
              Writes(own, ip, key) /\ Sourced(own, ip, key)
        BY <3>4 DEF WriteStep
      <4>2. key # req[r].key
        <5>1. CASE key = ManualKey BY <3>1, <5>1
        <5>2. CASE key = db[own].key BY <3>1, <5>2
        <5>3. ASSUME NEW q \in Requests, At(q, "store"), key = req[q].key, req'[q].pc = "map"
              PROVE  key # req[r].key
          BY <1>1, <2>2, <5>3 DEF Pending, At, Apart, PendingNew
        <5>4. ASSUME phase = "sync" PROVE FALSE
          BY <2>2, <5>4 DEF Apart, BootsAlone, At, Pending
        <5>5. QED BY <4>1, <5>1, <5>2, <5>3, <5>4 DEF Sourced
      <4>3. db'[row] = db[row] \/ db'[row].key = key BY <4>1 DEF Writes
      <4>4. QED BY <2>2, <3>1, <4>2, <4>3
    <3>5. QED BY <3>2, <3>3, <3>4, TableWrites
  <2>3. QED BY <1>1, <2>1, <2>2, PendingComes
<1>2. ASSUME NEW r \in Requests, NEW q \in Requests, Pending(r)', Pending(q)',
             req'[q].key = req'[r].key
      PROVE  q = r
  <2>1. CASE Pending(r) /\ req'[r].key = req[r].key /\ Pending(q) /\ req'[q].key = req[q].key
    BY <1>2, <2>1 DEF Apart, PendingNew
  <2>2. CASE req'[r].key = nextKey /\ \A p \in Requests \ {r} : req'[p] = req[p]
    BY <1>0, <1>2, <2>2
  <2>3. CASE req'[q].key = nextKey /\ \A p \in Requests \ {q} : req'[p] = req[p]
    <3>1. r # q => req'[r].key = req[r].key BY <2>3
    <3>2. QED BY <1>0, <1>2, <2>3, <3>1
  <2>4. QED BY <1>2, <2>1, <2>2, <2>3, PendingComes
<1>3. QED BY <1>1, <1>2 DEF PendingNew, Pending

\* Until the server listens neither a handler nor a binding runs.
LEMMA AloneKept ==
  ASSUME RevokeModes = {}, BTypeOK, HandlersHave, Apart, [BNext]_bvars
  PROVE  BootsAlone' /\ BindersAlone'
<1>0. TypeOK /\ BootsAlone /\ BindersAlone /\ bind \in [Binders -> Binder]
  BY DEF BTypeOK, Apart
<1>1. ASSUME NEW r \in Requests, Handle(r) \/ FailsEarly(r) \/ AddNewPeerFails(r)
      PROVE  phase' = "up"
  BY <1>0, <1>1, HandlersRun
<1>2. ASSUME BootStep PROVE UNCHANGED req
  BY <1>2 DEF BootStep, Boot, BootFails, ReadKernel, Listen, RestorePeer, SyncPeer
<1>3. ASSUME BootStep PROVE phase # "up"
  BY <1>3 DEF BootStep, Boot, BootFails, ReadKernel, Listen, RestorePeer, SyncPeer
<1>4. BootsAlone'
  BY <1>0, <1>1, <1>2, <1>3, StepKinds, BindingsRun DEF RegisterDevice, Crash, IdleHandler,
    BootsAlone, At
<1>5. BindersAlone'
  <2>1. ASSUME NEW host \in BOOLEAN, BCrash(host) PROVE BindersAlone'
    BY <2>1 DEF BCrash, IdleBinder, BindersAlone, BAt
  <2>2. ASSUME \/ \E b \in Binders, ip \in Ips : Discover(b, ip)
               \/ \E b \in Binders, input \in AdminInputs : EnterManually(b, input)
        PROVE  phase' = "up"
    BY <2>2 DEF Discover, EnterManually, Start, vars, serverVars
  <2>3. ASSUME NEW b \in Binders, BindStep(b) PROVE phase' = "up"
    BY <1>0, <2>3, BindingsRun
  <2>4. ASSUME \/ Step /\ UNCHANGED bindVars
               \/ \E ip \in Ips : Resolve(ip)
               \/ \E id \in DeviceIds : Forget(id)
               \/ UNCHANGED bvars
        PROVE  UNCHANGED bind /\ (phase = "up" => phase' = "up")
    <3>1. UNCHANGED bind BY <2>4 DEF Resolve, Forget, bindVars, bvars
    <3>2. CASE Step
      BY <3>1, <1>1, <1>3, <3>2 DEF Step, RegisterDevice, LoseConnection, Revoke, serverVars
    <3>3. CASE ~Step BY <3>1, <2>4, <3>3 DEF Resolve, Forget, serverVars, vars, bvars
    <3>4. QED BY <3>1, <3>2, <3>3
  <2>5. QED BY <1>0, <2>1, <2>2, <2>3, <2>4 DEF BNext, BindersAlone, BAt
<1>6. QED BY <1>4, <1>5

\* No record takes a key that another record has.
LEMMA NotSharedKept ==
  ASSUME RevokeModes = {}, BTypeOK, HandlersHave, BindersHave, Apart, NotShared, SyncInv,
         [BNext]_bvars
  PROVE  NotShared'
<1> USE DEF NotShared, IsRealKey
<1>1. CASE UNCHANGED db BY <1>1
<1>2. CASE DeleteStep
  BY <1>2 DEF DeleteStep, EmptyRow, BTypeOK, TypeOK, RegistryTypeOK
<1>3. CASE WriteStep
  <2>1. PICK row \in Rows, ip \in Ips, key \in Keys \cup {NoKey, ManualKey} :
          Writes(row, ip, key) /\ Sourced(row, ip, key)
    BY <1>3 DEF WriteStep
  <2>2. db'[row].key = key /\ \A q \in Rows \ {row} : db'[q] = db[q] /\ ~Holds(q, ip)
    BY <2>1 DEF Writes
  <2>3. \A q \in Rows \ {row} : IsRealKey(key) => db[q].key # key
    <3>1. CASE key = ManualKey BY <3>1
    <3>2. CASE key = db[row].key BY <3>2
    <3>3. ASSUME NEW r \in Requests, At(r, "store"), key = req[r].key
          PROVE  \A q \in Rows : db[q].key # key
      BY <3>3 DEF At, Pending, Apart, PendingNew
    <3>4. ASSUME NEW b \in todo, key = b.key, ip = b.ip, phase = "sync",
                 NEW q \in Rows \ {row}, IsRealKey(key), db[q].key = key
          PROVE  FALSE
      <4>1. route[ip] = key BY <3>4 DEF SyncInv, KernelPeers
      <4>2. db[q].ip = ip BY <3>4, <4>1 DEF SyncInv, RoutedHome
      <4>3. Live(q) BY <3>4 DEF Apart, RowsActive
      <4>4. QED BY <2>2, <3>4, <4>2, <4>3 DEF Holds
    <3>5. QED BY <2>1, <3>1, <3>2, <3>3, <3>4 DEF Sourced
  <2>4. ASSUME NEW p \in Rows, NEW q \in Rows, p # q, IsRealKey(db'[p].key)
        PROVE  db'[p].key # db'[q].key
    <3>1. CASE p = row BY <2>2, <2>3, <2>4, <3>1
    <3>2. CASE q = row BY <2>2, <2>3, <2>4, <3>2
    <3>3. CASE p # row /\ q # row BY <2>2, <2>4, <3>3
    <3>4. QED BY <3>1, <3>2, <3>3
  <2>5. QED BY <2>4
<1>4. QED BY <1>1, <1>2, <1>3, TableWrites

\* A boot that meets no failure routes every key to its record's address, and
\* reads into the table what the kernel routes.
LEMMA BootRoutes ==
  ASSUME RevokeModes = {}, BTypeOK, HandlersHave, BindersHave, Apart, NotShared, RestoreInv,
         SyncInv, [BNext]_bvars, ~Fault
  PROVE  RestoreInv' /\ SyncInv'
<1>0. /\ TypeOK /\ BootsAlone /\ BindersAlone /\ RowsActive /\ OneRoute
      /\ route \in [Ips -> Keys \cup {NoKey}]
      /\ \A row \in Rows : db[row] \in Row
  BY DEF BTypeOK, TypeOK, RegistryTypeOK, Apart
<1>1. ASSUME phase' \notin {"restore", "sync"} PROVE RestoreInv' /\ SyncInv'
  BY <1>1 DEF RestoreInv, SyncInv
<1>2. CASE Boot
  <2>1. todo' = PeersToRestore' /\ phase' = "restore"
    BY <1>2 DEF Boot, PeersToRestore, ActiveRows
  <2>2. ASSUME NEW q \in Rows, IsRealKey(db[q].key)
        PROVE  [key |-> db[q].key, ip |-> db[q].ip] \in PeersToRestore
    BY <1>0, <2>2 DEF RowsActive, IsRealKey, PeersToRestore, ActiveRows
  <2>3. UNCHANGED db BY <1>2 DEF Boot
  <2>4. RestoreInv' BY <2>1, <2>2, <2>3 DEF RestoreInv, PeersToRestore, ActiveRows
  <2>5. QED BY <2>1, <2>4 DEF SyncInv
<1>3. CASE ReadKernel
  <2>1. /\ phase = "restore" /\ todo = {} /\ phase' = "sync" /\ todo' = KernelPeers
        /\ UNCHANGED <<db, route>>
    BY <1>3 DEF ReadKernel, registryVars
  <2>2. \A q \in Rows : IsRealKey(db[q].key) => RoutedHome(q) BY <2>1 DEF RestoreInv
  <2>3. SyncInv' BY <2>1, <2>2 DEF SyncInv, RoutedHome, KernelPeers
  <2>4. QED BY <2>1, <2>3 DEF RestoreInv
<1>4. ASSUME NEW b \in todo, RestorePeer(b) PROVE RestoreInv' /\ SyncInv'
  <2>1. /\ phase = "restore" /\ phase' = "restore" /\ todo' = todo \ {b}
        /\ route' = RouteWith(b.key, b.ip) /\ b \in Binding /\ UNCHANGED db
    BY <1>0, <1>4 DEF RestorePeer, AddPeer, IsRealKey, TypeOK, Binding
  <2>2. PICK own \in Rows : b = [key |-> db[own].key, ip |-> db[own].ip]
    BY <2>1 DEF RestoreInv, PeersToRestore, ActiveRows
  <2>3. b.key = db[own].key /\ b.ip = db[own].ip /\ b.key \in Keys /\ b.ip \in Ips
    BY <2>1, <2>2 DEF Binding
  <2>4. \A j \in Ips : route'[j] = b.key => j = b.ip BY <1>0, <2>1, <2>3 DEF RouteWith
  <2>5. ASSUME NEW q \in Rows, NEW j \in Ips, IsRealKey(db[q].key), RoutedHome(q),
               route'[j] = db[q].key
        PROVE  db[q].ip = j
    <3>1. CASE db[q].key = b.key
      <4>1. q = own BY <2>3, <2>5, <3>1 DEF NotShared
      <4>2. QED BY <2>3, <2>4, <2>5, <3>1, <4>1
    <3>2. CASE db[q].key # b.key
      <4>1. route[j] = db[q].key BY <2>1, <2>3, <2>5, <3>2 DEF RouteWith, IsRealKey
      <4>2. QED BY <2>5, <4>1 DEF RoutedHome
    <3>3. QED BY <3>1, <3>2
  <2>6. ASSUME NEW q \in Rows, IsRealKey(db[q].key)
        PROVE  \/ [key |-> db[q].key, ip |-> db[q].ip] \in todo \ {b}
               \/ \A j \in Ips : route'[j] = db[q].key => db[q].ip = j
    <3>1. CASE [key |-> db[q].key, ip |-> db[q].ip] = b
      <4>1. db[q].key = b.key /\ db[q].ip = b.ip BY <3>1
      <4>2. QED BY <2>4, <4>1
    <3>2. CASE RoutedHome(q) BY <2>5, <2>6, <3>2
    <3>3. QED BY <2>1, <2>6, <3>1, <3>2 DEF RestoreInv
  <2>7. RestoreInv'
    BY <2>1, <2>6 DEF RestoreInv, RoutedHome, PeersToRestore, ActiveRows
  <2>8. QED BY <2>1, <2>7 DEF SyncInv
<1>5. ASSUME NEW b \in todo, SyncPeer(b) PROVE RestoreInv' /\ SyncInv'
  <2>1. /\ phase = "sync" /\ phase' = "sync" /\ todo' = todo \ {b} /\ UNCHANGED route
        /\ todo \subseteq KernelPeers
    BY <1>5 DEF SyncPeer, SyncInv
  <2>2. route[b.ip] = b.key /\ b.ip \in Ips /\ b.key \in Keys
    BY <2>1 DEF KernelPeers, Binding
  <2>3. \A j \in Ips : route[j] = b.key => j = b.ip BY <1>0, <2>2 DEF OneRoute
  <2>4. ASSUME NEW q \in Rows, NEW j \in Ips, IsRealKey(db'[q].key), route'[j] = db'[q].key
        PROVE  db'[q].ip = j
    <3>1. CASE db'[q] = db[q] BY <2>1, <2>4, <3>1 DEF SyncInv, RoutedHome
    <3>2. CASE db'[q].ip = b.ip /\ db'[q].key = b.key BY <2>1, <2>3, <2>4, <3>2
    <3>3. QED BY <1>0, <1>5, <3>1, <3>2, SyncWrites DEF Writes
  <2>5. SyncInv' BY <2>1, <2>4 DEF SyncInv, RoutedHome, KernelPeers
  <2>6. QED BY <2>1, <2>5 DEF RestoreInv
<1>6. CASE UNCHANGED <<db, route, todo, phase>>
  BY <1>6 DEF RestoreInv, SyncInv, RoutedHome, PeersToRestore, ActiveRows, KernelPeers
<1>7. ASSUME NEW r \in Requests, Handle(r) \/ FailsEarly(r) \/ AddNewPeerFails(r)
      PROVE  phase' = "up"
  BY <1>0, <1>7, HandlersRun
<1>8. ASSUME NEW b \in Binders, BindStep(b) PROVE phase' = "up" BY <1>0, <1>8, BindingsRun
<1>9. QED
  BY <1>1, <1>2, <1>3, <1>4, <1>5, <1>6, <1>7, <1>8, StepKinds DEF RegisterDevice, BootStep,
    BootFails, Listen, Crash

\* A failure that was counted stays counted.
LEMMA BFaultsStay == BTypeOK /\ [BNext]_bvars /\ faults' = 0 => faults = 0 /\ ~Fault
<1> SUFFICES ASSUME BTypeOK, [BNext]_bvars, faults' = 0 PROVE faults = 0 /\ ~Fault OBVIOUS
<1>0. TypeOK /\ ~Fault BY NoFault DEF BTypeOK
<1>1. CASE Step /\ UNCHANGED bindVars BY <1>0, <1>1, FaultsStay DEF Next
<1>2. ASSUME NEW host \in BOOLEAN, BCrash(host) PROVE faults = 0 BY <1>2 DEF BCrash, Crash
<1>3. ASSUME NEW b \in Binders, BindStep(b) PROVE faults = 0
  BY <1>0, <1>3 DEF BindStep, FindById, FindConflict, DeleteConflict, MoveDevice, FindByIp,
    RenameDevice, CreateDiscovered, MapBoundId, budgetVars, vars
<1>4. ASSUME \/ \E ip \in Ips : Resolve(ip)
             \/ \E b \in Binders, ip \in Ips : Discover(b, ip)
             \/ \E id \in DeviceIds : Forget(id)
             \/ \E b \in Binders, input \in AdminInputs : EnterManually(b, input)
             \/ UNCHANGED bvars
      PROVE  faults = 0
  BY <1>0, <1>4 DEF Resolve, Discover, Forget, EnterManually, budgetVars, vars, bvars
<1>5. QED BY <1>0, <1>1, <1>2, <1>3, <1>4 DEF BNext

\* Apart is inductive, given the types.
LEMMA ApartStep ==
  ASSUME RevokeModes = {}
  PROVE  BTypeOK /\ HandlersHave /\ BindersHave /\ Apart /\ [BNext]_bvars => Apart'
<1> SUFFICES ASSUME BTypeOK, HandlersHave, BindersHave, Apart, [BNext]_bvars PROVE Apart'
  OBVIOUS
<1>1. UniqueIps' /\ RowsActive'
  BY RowsApart, TableWrites DEF BTypeOK, TypeOK, RegistryTypeOK, Apart
<1>2. OneRoute' BY OneRouteKept, RoutesWrite DEF BTypeOK, Apart
<1>3. KeysUsed' BY KeysUsedKept
<1>4. PendingNew' BY PendingNewKept
<1>5. BootsAlone' /\ BindersAlone' BY AloneKept
<1>6. ASSUME faults' = 0 PROVE NotShared' /\ RestoreInv' /\ SyncInv'
  <2>1. ~Fault /\ NotShared /\ RestoreInv /\ SyncInv BY <1>6, BFaultsStay DEF Apart
  <2>2. QED BY <2>1, NotSharedKept, BootRoutes
<1>7. QED BY <1>1, <1>2, <1>3, <1>4, <1>5, <1>6 DEF Apart

\* As long as no command failed, no two records share a WireGuard key, whatever
\* registrations, crashes, boots and bindings interleave, entered by hand or
\* not.  Nobody revokes: a boot restores the peers of active records only, so
\* it would read the key of a revoked and moved one back under its old address.
THEOREM KeysStayApart ==
  ASSUME RevokeModes = {}
  PROVE  BSpec => []KeyNotShared
<1>1. BTypeOK /\ HandlersHave /\ BindersHave /\ Apart /\ [BNext]_bvars => Apart' BY ApartStep
<1>2. Apart => KeyNotShared BY DEF Apart, NotShared, KeyNotShared
<1>3. QED BY InitBinders, InitApart, BTypeStep, <1>1, <1>2, PTL DEF BSpec
=============================================================================
