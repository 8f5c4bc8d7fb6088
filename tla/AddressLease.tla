---------------------------- MODULE AddressLease ----------------------------
(***************************************************************************)
(* What provisioning promises of the VPN addresses: an address is leased   *)
(* to one device at a time, a device has at most one, and a lease lasts    *)
(* until an operator ends it.  No address passes from one device to        *)
(* another in a step, whoever asks, fails or crashes.                      *)
(***************************************************************************)
CONSTANTS Addresses, Ids, NoDevice

VARIABLE lease  \* lease[ip]: the device that ip is leased to, or NoDevice

TypeOK == lease \in [Addresses -> Ids \cup {NoDevice}]

Init == lease = [ip \in Addresses |-> NoDevice]

Grant(id, ip) ==
  /\ lease[ip] = NoDevice
  /\ \A other \in Addresses : lease[other] # id
  /\ lease' = [lease EXCEPT ![ip] = id]

Release(ip) ==
  /\ lease[ip] # NoDevice
  /\ lease' = [lease EXCEPT ![ip] = NoDevice]

Next == \E ip \in Addresses : Release(ip) \/ \E id \in Ids : Grant(id, ip)

Spec == Init /\ [][Next]_lease
=============================================================================
