--------------------------- MODULE DeviceRegistry ---------------------------
(***************************************************************************)
(* What the provisioning handlers, the boot synchronisation and the        *)
(* identity binding share:                                                 *)
(*                                                                         *)
(*   - the Device table of PostgreSQL, behind DeviceService and Prisma,    *)
(*     with its two unique columns deviceId and vpnIp;                     *)
(*   - the peers of the kernel's WireGuard interface wg0, behind           *)
(*     WireguardService.  The kernel routes an address to at most one peer *)
(*     (cryptokey routing), so the peer table is the function from an      *)
(*     address to the public key of the peer that has it among its allowed *)
(*     IPs.  A peer left without an allowed IP carries no traffic and the  *)
(*     boot synchronisation skips it: it does not appear here;             *)
(*   - the Redis hash drone:ip_map, from an address to a deviceId.         *)
(*                                                                         *)
(* An address is its last octet.  A key is a number: key ip is the one a   *)
(* static configuration gives address ip, the keys above EndIp are the     *)
(* ones generateKeypair returns, in the order it returns them.             *)
(***************************************************************************)
EXTENDS Integers, FiniteSets

CONSTANTS
  Devices,   \* hardware identities of the drones (CPU serial)
  NoDevice,  \* no deviceId
  StartIp,   \* first address of the pool (2 in the code)
  EndIp,     \* last address of the pool (254 in the code)
  StaticIps, \* addresses of the peers that wg0.conf lists by hand
  MaxRow,    \* bound: rows ever inserted in the Device table
  MaxKey     \* bound: largest key ever generated

Ips == StartIp .. EndIp
Rows == 1 .. MaxRow

\* `DRONE-IP-...`, the identity of a record that only locks an address.
TempId(ip) == <<"DRONE-IP", ip>>
DeviceIds == Devices \cup {TempId(ip) : ip \in Ips}

NoIp == 0
NoKey == 0
NoRow == 0
\* 'MANUAL_TELEMETRY', the public key of a device without a WireGuard key.
ManualKey == -1
IsRealKey(k) == k > 0

ASSUME RegistryAssumption ==
  /\ StartIp \in Nat /\ StartIp > 1
  /\ EndIp \in Nat /\ StartIp <= EndIp
  /\ StaticIps \subseteq Ips
  /\ MaxRow \in Nat
  /\ MaxKey \in Nat /\ MaxKey >= EndIp
  /\ NoDevice \notin DeviceIds
  /\ \A ip \in Ips : TempId(ip) \notin Devices

VARIABLES
  db,       \* db[row]: a record of the Device table, or EmptyRow
  nextRow,  \* the row that the next insertion takes (ids are never reused)
  route,    \* route[ip]: the peer the kernel routes ip to, or NoKey
  nextKey,  \* the key that the next generateKeypair returns
  ipMap     \* drone:ip_map

registryVars == <<db, nextRow, route, nextKey, ipMap>>

Keys == 1 .. MaxKey

Row ==
  [status : {"NONE", "ACTIVE", "REVOKED"},
   id     : DeviceIds \cup {NoDevice},
   ip     : Ips \cup {NoIp},
   key    : Keys \cup {NoKey, ManualKey}]

EmptyRow == [status |-> "NONE", id |-> NoDevice, ip |-> NoIp, key |-> NoKey]

RegistryTypeOK ==
  /\ db \in [Rows -> Row]
  /\ nextRow \in 1 .. MaxRow + 1
  /\ route \in [Ips -> Keys \cup {NoKey}]
  /\ nextKey \in EndIp + 1 .. MaxKey + 1
  /\ ipMap \in [Ips -> DeviceIds \cup {NoDevice}]

StaticRoute == [ip \in Ips |-> IF ip \in StaticIps THEN ip ELSE NoKey]

RegistryInit ==
  /\ db = [r \in Rows |-> EmptyRow]
  /\ nextRow = 1
  /\ route = StaticRoute
  /\ nextKey = EndIp + 1
  /\ ipMap = [ip \in Ips |-> NoDevice]

-----------------------------------------------------------------------------
(* The Device table *)

Live(r) == db[r].status # "NONE"
RowsOfId(id) == {r \in Rows : Live(r) /\ db[r].id = id}
RowsOfIp(ip) == {r \in Rows : Live(r) /\ db[r].ip = ip}
Holds(r, ip) == Live(r) /\ db[r].ip = ip /\ ip # NoIp

\* The unique index on vpnIp admits ip in row r (nulls do not collide).
IpAdmitted(r, ip) == \A q \in Rows \ {r} : ~Holds(q, ip)

\* The unique index on deviceId admits id in row r.
IdAdmitted(r, id) == \A q \in Rows \ {r} : ~(Live(q) /\ db[q].id = id)

\* prisma.device.create: neither unique index refuses the new row.
CanCreate(id, ip) == IdAdmitted(NoRow, id) /\ IpAdmitted(NoRow, ip)

CreateRow(id, ip, key) ==
  /\ nextRow \in Rows
  /\ db' = [db EXCEPT ![nextRow] =
              [status |-> "ACTIVE", id |-> id, ip |-> ip, key |-> key]]
  /\ nextRow' = nextRow + 1

\* prisma.device.update: the row still exists and vpnIp stays unique.
CanUpdate(r, ip) == Live(r) /\ IpAdmitted(r, ip)

UpdateRow(r, ip, key) ==
  /\ db' = [db EXCEPT ![r] = [@ EXCEPT !.status = "ACTIVE", !.ip = ip, !.key = key]]
  /\ UNCHANGED nextRow

ActiveRows == {r \in Rows : db[r].status = "ACTIVE" /\ db[r].ip # NoIp}

-----------------------------------------------------------------------------
(* The address pool *)

\* findActiveOrPendingIps: the addresses of the records that are not revoked.
UsedIps == {db[r].ip : r \in ActiveRows}

\* Mutant: the scan runs one address past the end of the pool.
FreeIpsPastEnd == (StartIp .. EndIp + 1) \ UsedIps
\* Mutant: the used addresses are not excluded.
FreeIpsUnfiltered == Ips

FreeIps == Ips \ UsedIps

\* allocateIp: the smallest address that is not used.
SmallestFree(ip) == \A i \in FreeIps : ip <= i

-----------------------------------------------------------------------------
(* The kernel's peers *)

\* wg set wg0 peer k allowed-ips ip/32: k has this address and no other, and
\* the peer that had it loses it.
RouteWith(k, ip) ==
  [i \in Ips |-> IF i = ip THEN k ELSE IF route[i] = k THEN NoKey ELSE route[i]]

\* wg set wg0 peer k remove
RouteWithout(k) == [i \in Ips |-> IF route[i] = k THEN NoKey ELSE route[i]]

\* addPeer: `wg` refuses what is not a key.
AddPeer(k, ip) == route' = IF IsRealKey(k) THEN RouteWith(k, ip) ELSE route

\* removePeer returns at once on a key that is not a real one.
RemovePeer(k) == route' = IF IsRealKey(k) THEN RouteWithout(k) ELSE route

-----------------------------------------------------------------------------
(* drone:ip_map *)

MapIpToDevice(ip, id) ==
  ipMap' = IF ip \in Ips THEN [ipMap EXCEPT ![ip] = id] ELSE ipMap
=============================================================================
