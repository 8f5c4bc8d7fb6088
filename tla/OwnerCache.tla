----------------------------- MODULE OwnerCache -----------------------------
(***************************************************************************)
(* Who owns a drone: claimDrone of AuthService, which reads, tests and     *)
(* writes, and the cache of owners in TelemetryGateway, which decides to   *)
(* which pilot's room telemetry goes.  No drone bears on another, so there *)
(* is one.  setDeviceOwnerCache is not modelled: nothing calls it.         *)
(***************************************************************************)
EXTENDS Naturals

CONSTANTS
  Users,       \* pilots with an account
  Nobody,      \* null
  Unknown,     \* no entry in the map
  Claims,      \* bound: claims under way at a time
  Lookups,     \* bound: queries of broadcastTelemetry under way at a time
  MaxFailures  \* bound: queries that fail

ASSUME OwnerAssumption ==
  /\ Nobody \notin Users
  /\ Unknown \notin Users \cup {Nobody}
  /\ MaxFailures \in Nat

VARIABLES
  present,  \* the Device table has the drone's record
  owner,    \* its userId
  claim,    \* the claims under way: who, and the owner that was read
  told,     \* the users who were told that the drone is theirs
  cache,    \* deviceOwnerCache
  fresh,    \* lastCacheCheck is at most 5 s old
  lookup,   \* the queries under way: sent, or the owner that was read
  sent,     \* the users whose room got telemetry
  lost,     \* an owner lost the drone: to a claim that raced, or with the record
  failures

table == <<present, owner, lost>>
ownerVars == <<table, claim, told, cache, fresh, lookup, sent, failures>>

Idle == [by |-> Nobody, read |-> Nobody]

\* The shape of the state; a record that is not there has no owner.
OTypeOK ==
  /\ present \in BOOLEAN
  /\ owner \in Users \cup {Nobody}
  /\ claim \in [Claims -> [by : Users \cup {Nobody}, read : Users \cup {Nobody}]]
  /\ told \subseteq Users
  /\ cache \in Users \cup {Nobody, Unknown}
  /\ fresh \in BOOLEAN
  /\ lookup \in [Lookups -> Users \cup {Nobody} \cup {"idle", "asked"}]
  /\ sent \subseteq Users
  /\ lost \in BOOLEAN
  /\ failures \in 0 .. MaxFailures
  /\ ~present => owner = Nobody

OwnerInit ==
  /\ present \in BOOLEAN
  /\ owner = Nobody
  /\ claim = [c \in Claims |-> Idle]
  /\ told = {}
  /\ cache = Unknown
  /\ fresh = FALSE
  /\ lookup = [l \in Lookups |-> "idle"]
  /\ sent = {}
  /\ lost = FALSE
  /\ failures = 0

-----------------------------------------------------------------------------
(* claimDrone *)

ClaimReads(c, p) ==
  /\ claim[c] = Idle
  /\ present
  /\ claim' = [claim EXCEPT ![c] = [by |-> p, read |-> owner]]
  /\ UNCHANGED <<table, told, cache, fresh, lookup, sent, failures>>

ClaimRefused(c) ==
  /\ claim[c] # Idle
  /\ claim[c].read \notin {Nobody, claim[c].by}
  /\ claim' = [claim EXCEPT ![c] = Idle]
  /\ UNCHANGED <<table, told, cache, fresh, lookup, sent, failures>>

\* Mutant: the owner that was read is not looked at.
ClaimUpdatesUnchecked(c) ==
  /\ claim[c] # Idle
  /\ present
  /\ owner' = claim[c].by
  /\ lost' = (lost \/ (owner # owner' /\ owner \notin {Nobody, claim[c].read}))
  /\ told' = told \cup {claim[c].by}
  /\ claim' = [claim EXCEPT ![c] = Idle]
  /\ UNCHANGED <<present, cache, fresh, lookup, sent, failures>>

\* The update names the drone only: an owner that came in between is replaced.
ClaimUpdates(c) ==
  /\ claim[c] # Idle
  /\ claim[c].read \in {Nobody, claim[c].by}
  /\ present
  /\ owner' = claim[c].by
  /\ lost' = (lost \/ (owner # owner' /\ owner \notin {Nobody, claim[c].read}))
  /\ told' = told \cup {claim[c].by}
  /\ claim' = [claim EXCEPT ![c] = Idle]
  /\ UNCHANGED <<present, cache, fresh, lookup, sent, failures>>

\* The record is gone, or the query fails.
ClaimFails(c) ==
  /\ claim[c] # Idle
  /\ claim' = [claim EXCEPT ![c] = Idle]
  /\ IF present THEN failures < MaxFailures /\ failures' = failures + 1 ELSE UNCHANGED failures
  /\ UNCHANGED <<table, told, cache, fresh, lookup, sent>>

\* The registry deletes a record with its owner, and makes one without.
RecordDeleted ==
  /\ present
  /\ present' = FALSE
  /\ owner' = Nobody
  /\ lost' = (lost \/ owner # Nobody)
  /\ UNCHANGED <<claim, told, cache, fresh, lookup, sent, failures>>

RecordCreated ==
  /\ ~present
  /\ present' = TRUE
  /\ UNCHANGED <<owner, lost, claim, told, cache, fresh, lookup, sent, failures>>

-----------------------------------------------------------------------------
(* broadcastTelemetry, the part about the owner *)

\* Mutant: an entry that says Nobody is kept as one that names an owner is.
MustAskOnce == cache = Unknown

\* Nobody is asked about again after 5 s, an owner never.
MustAsk == cache = Unknown \/ (cache = Nobody /\ ~fresh)

\* Every frame asks until the first answer is there.
BroadcastAsks(l) ==
  /\ MustAsk
  /\ lookup[l] = "idle"
  /\ fresh' = TRUE
  /\ lookup' = [lookup EXCEPT ![l] = "asked"]
  /\ UNCHANGED <<table, claim, told, cache, sent, failures>>

BroadcastSends ==
  /\ cache \in Users
  /\ sent' = sent \cup {cache}
  /\ UNCHANGED <<table, claim, told, cache, fresh, lookup, failures>>

LookupReads(l) ==
  /\ lookup[l] = "asked"
  /\ lookup' = [lookup EXCEPT ![l] = owner]
  /\ UNCHANGED <<table, claim, told, cache, fresh, sent, failures>>

\* Mutant: the promise of the answer is cached, not the answer.
LookupAnswersPromise(l) ==
  /\ lookup[l] # "idle"
  /\ cache' = lookup[l]
  /\ lookup' = [lookup EXCEPT ![l] = "idle"]
  /\ UNCHANGED <<table, claim, told, fresh, sent, failures>>

\* The answer replaces the entry, whatever it says by then.
LookupAnswers(l) ==
  /\ lookup[l] \notin {"idle", "asked"}
  /\ cache' = lookup[l]
  /\ sent' = sent \cup ({lookup[l]} \ {Nobody})
  /\ lookup' = [lookup EXCEPT ![l] = "idle"]
  /\ UNCHANGED <<table, claim, told, fresh, failures>>

LookupFails(l) ==
  /\ lookup[l] = "asked"
  /\ failures < MaxFailures /\ failures' = failures + 1
  /\ lookup' = [lookup EXCEPT ![l] = "idle"]
  /\ UNCHANGED <<table, claim, told, cache, fresh, sent>>

\* Five seconds go by.
Elapse ==
  /\ fresh
  /\ fresh' = FALSE
  /\ UNCHANGED <<table, claim, told, cache, lookup, sent, failures>>

-----------------------------------------------------------------------------

OwnerNext ==
  \/ RecordDeleted \/ RecordCreated \/ BroadcastSends \/ Elapse
  \/ \E c \in Claims :
       ClaimRefused(c) \/ ClaimUpdates(c) \/ ClaimFails(c) \/ \E p \in Users : ClaimReads(c, p)
  \/ \E l \in Lookups : BroadcastAsks(l) \/ LookupReads(l) \/ LookupAnswers(l) \/ LookupFails(l)

OwnerSpec == OwnerInit /\ [][OwnerNext]_ownerVars

\* The drone goes on sending, time goes on and the database answers.
OwnerFairSpec ==
  /\ OwnerSpec
  /\ WF_ownerVars(Elapse)
  /\ WF_ownerVars(\E l \in Lookups : BroadcastAsks(l))
  /\ \A l \in Lookups : WF_ownerVars(LookupReads(l)) /\ WF_ownerVars(LookupAnswers(l))

-----------------------------------------------------------------------------
(* Properties *)

\* As long as no owner loses the drone, to a claim that passed the test beside
\* theirs or with the record, only the owner was ever told that the drone is
\* theirs, and telemetry only ever went to the owner's room.
OwnerAlone == ~lost => told \cup sent \subseteq {owner}

\* As long as no owner loses the drone, the telemetry of an owned drone goes to
\* its owner in the end and for good, however many queries from before the
\* claim still answer that it has none.
OwnerIsServed == <>[](owner \in Users /\ ~lost => cache = owner)
=============================================================================
