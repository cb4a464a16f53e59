--------------------- MODULE LifecycleCoordinator_proofs ---------------------
(***************************************************************************)
(* Proofs about LifecycleCoordinator, for every set of coordinators,       *)
(* epochs and targets and every limit of the counters.                     *)
(***************************************************************************)
EXTENDS LifecycleCoordinator, TLAPS

(* The operations by name, so that a proof can go through them one by one. *)

\* The steps of the coordinators, their owners and the clock, one by one.
LEMMA StepCases ==
    ASSUME Next
    PROVE  \/ \E c \in Coordinators, e \in Epochs : RegisterEpoch(c, e)
           \/ \E c \in Coordinators : TakeInstance(c)
           \/ \E c \in Coordinators : InstanceExhausted(c)
           \/ \E c \in Coordinators : Drop(c)
           \/ \E c \in Coordinators, now \in 0..clock, t \in Targets, timeout \in LoginTimeouts :
                 BeginLogin(c, t, timeout, now)
           \/ \E c \in Coordinators, now \in 0..clock, h \in handles, expected \in 1..MaxRevision :
                 PublishPending(c, h, expected, now)
           \/ \E c \in Coordinators, now \in 0..clock, h \in handles, expected \in 1..MaxRevision :
                 Resume(c, h, expected, now)
           \/ \E c \in Coordinators, now \in 0..clock, h \in handles : Heartbeat(c, h, now)
           \/ \E c \in Coordinators, now \in 0..clock, h \in handles : RequestCancel(c, h, now)
           \/ \E c \in Coordinators, now \in 0..clock, h \in handles, outcome \in Outcomes :
                 Complete(c, h, outcome, now)
           \/ \E c \in Coordinators, now \in 0..clock : StaleRecoveryTickets(c, now)
           \/ \E c \in Coordinators, k \in tickets : FinishStaleRecovery(c, k)
           \/ Tick
  BY Zenon DEF Next, Lifetime, Owner, Recovery

(* What the operations do to one lease record. *)

LeaseTables == [Coordinators -> [Targets -> Leases \cup {NoLease}]]

\* A handle that is exact names a lease of its target.
LEMMA ExactLease ==
    ASSUME TypeOK, NEW c \in Coordinators, NEW h \in handles, Exact(c, h)
    PROVE  h.target \in Targets /\ h.id \in LeaseIds /\ leases[c][h.target] \in Leases
  BY DEF TypeOK, Exact, Handles

\* A lease that moves to another state keeps its identity and advances its revision.
LEMMA MovedLease ==
    ASSUME NEW r \in Leases, HasNextRevision(r), NEW state \in LeaseStates
    PROVE  /\ Moved(r, state) \in Leases
           /\ Moved(r, state).id = r.id
           /\ Moved(r, state).state = state
           /\ Moved(r, state).revision = r.revision + 1
<1>1. Moved(r, state) \in Leases
  <2>1. r.revision \in 1..MaxRevision /\ r.revision < MaxRevision
    BY DEF Leases, HasNextRevision
  <2>2. r.revision + 1 \in 1..MaxRevision
    BY <2>1, BoundsAssumption
  <2> QED
    BY <2>2 DEF Moved, Leases
<1>2. Moved(r, state).id = r.id
  BY DEF Moved, Leases
<1>3. Moved(r, state).state = state
  BY DEF Moved, Leases
<1>4. Moved(r, state).revision = r.revision + 1
  BY DEF Moved, Leases
<1> QED
  BY <1>1, <1>2, <1>3, <1>4

\* A heartbeat changes no more than the time of a lease.
LEMMA TouchedLease ==
    ASSUME NEW r \in Leases, NEW now \in Nat
    PROVE  /\ Touched(r, now) \in Leases
           /\ Touched(r, now).id = r.id
           /\ Touched(r, now).state = r.state
           /\ Touched(r, now).revision = r.revision
<1>1. Touched(r, now) \in Leases
  BY DEF Touched, Leases
<1>2. Touched(r, now).id = r.id
  BY DEF Touched, Leases
<1>3. Touched(r, now).state = r.state
  BY DEF Touched, Leases
<1>4. Touched(r, now).revision = r.revision
  BY DEF Touched, Leases
<1> QED
  BY <1>1, <1>2, <1>3, <1>4

\* The records an owner's operation or a sweep leaves behind.
LEMMA NextLease ==
    ASSUME NEW r \in Leases, HasNextRevision(r), NEW state \in LeaseStates, NEW now \in Nat
    PROVE  /\ Touched(Moved(r, state), now) \in Leases
           /\ Touched(Moved(r, state), now).id = r.id
           /\ Touched(Moved(r, state), now).state = state
           /\ Touched(Moved(r, state), now).revision = r.revision + 1
  BY MovedLease, TouchedLease

\* A new lease is a lease, with an identity of its own.
LEMMA NewLease ==
    ASSUME NEW c \in Coordinators, next_sequence[c] \in 1..MaxSequence,
           instance[c] \in 1..MaxInstance, process_epoch[c] \in Epochs,
           NEW now \in Nat, NEW timeout \in Nat
    PROVE  /\ NewLeaseId(c) \in LeaseIds
           /\ [id |-> NewLeaseId(c), revision |-> 1, state |-> "running",
               last_activity |-> now, deadline |-> now + timeout] \in Leases
<1>1. NewLeaseId(c) \in LeaseIds
  BY DEF NewLeaseId, LeaseIdOf, LeaseIds
<1> QED
  BY <1>1, BoundsAssumption DEF Leases, LeaseStates

\* An update of one lease leaves a table of leases.
LEMMA LeaseUpdate ==
    ASSUME TypeOK, NEW c \in Coordinators, NEW t \in Targets, NEW r \in Leases \cup {NoLease}
    PROVE  [leases EXCEPT ![c][t] = r] \in LeaseTables
  BY DEF TypeOK, LeaseTables

-----------------------------------------------------------------------------
(* Type correctness.  A lease identity is well formed only because a live  *)
(* coordinator has an epoch, an instance and a sequence, so the invariant  *)
(* that is inductive says that too.                                        *)

LiveIdentity ==
    \A c \in Coordinators :
        /\ phase[c] # "absent" => process_epoch[c] \in Epochs
        /\ phase[c] = "live" =>
              instance[c] \in 1..MaxInstance /\ next_sequence[c] \in 1..MaxSequence

TypeInv == TypeOK /\ LiveIdentity

\* The initial states are well typed.
LEMMA TypeInit == Init => TypeInv
  BY BoundsAssumption DEF Init, TypeInv, TypeOK, LiveIdentity, Instants

\* Every step keeps them so.
LEMMA TypeNext == TypeInv /\ [Next]_vars => TypeInv'
<1> SUFFICES ASSUME TypeInv, [Next]_vars PROVE TypeInv'
  OBVIOUS
<1> USE DEF TypeInv
<1>0. clock \in Nat /\ \A now \in 0..clock : now \in Nat
  BY BoundsAssumption DEF TypeOK, Instants
<1>1. ASSUME NEW c \in Coordinators, NEW e \in Epochs, RegisterEpoch(c, e)
      PROVE  TypeInv'
  BY <1>1 DEF RegisterEpoch, TypeOK, LiveIdentity, history
<1>2. ASSUME NEW c \in Coordinators, TakeInstance(c) PROVE TypeInv'
  BY <1>2, BoundsAssumption DEF TakeInstance, TypeOK, LiveIdentity, history
<1>3. ASSUME NEW c \in Coordinators, InstanceExhausted(c) PROVE TypeInv'
  BY <1>3 DEF InstanceExhausted, TypeOK, LiveIdentity, history
<1>4. ASSUME NEW c \in Coordinators, Drop(c) PROVE TypeInv'
  <2>1. active_epochs' \subseteq Epochs
    BY <1>4 DEF Drop, TypeOK
  <2>2. CASE Occupied(c) = {}
    <3>1. /\ phase' = [phase EXCEPT ![c] = "absent"]
          /\ process_epoch' = [process_epoch EXCEPT ![c] = NoEpoch]
          /\ instance' = [instance EXCEPT ![c] = 0]
          /\ next_sequence' = [next_sequence EXCEPT ![c] = 0]
      BY <1>4, <2>2 DEF Drop
    <3>2. UNCHANGED <<clock, next_instance, leases, handles, tickets, history>>
      BY <1>4 DEF Drop
    <3>3. TypeOK'
      BY <2>1, <3>1, <3>2, BoundsAssumption DEF TypeOK, history
    <3>4. LiveIdentity'
      BY <3>1 DEF TypeOK, LiveIdentity
    <3> QED
      BY <3>3, <3>4
  <2>3. CASE Occupied(c) # {}
    <3>1. /\ phase' = [phase EXCEPT ![c] = "abandoned"]
          /\ UNCHANGED <<process_epoch, instance, next_sequence>>
      BY <1>4, <2>3 DEF Drop
    <3>2. UNCHANGED <<clock, next_instance, leases, handles, tickets, history>>
      BY <1>4 DEF Drop
    <3>3. TypeOK'
      BY <2>1, <3>1, <3>2 DEF TypeOK, history
    <3>4. LiveIdentity'
      BY <1>4, <3>1 DEF Drop, TypeOK, LiveIdentity
    <3> QED
      BY <3>3, <3>4
  <2> QED
    BY <2>2, <2>3
<1>5. ASSUME NEW c \in Coordinators, NEW now \in 0..clock, NEW t \in Targets,
             NEW timeout \in LoginTimeouts, BeginLogin(c, t, timeout, now)
      PROVE  TypeInv'
  <2> DEFINE r == [id |-> NewLeaseId(c), revision |-> 1, state |-> "running",
                   last_activity |-> now, deadline |-> now + timeout]
  <2>1. NewLeaseId(c) \in LeaseIds /\ r \in Leases
    BY <1>0, <1>5, NewLease, BoundsAssumption DEF BeginLogin, LiveIdentity
  <2>2. leases' \in LeaseTables
    BY <1>5, <2>1, LeaseUpdate DEF BeginLogin
  <2>3. handles' \subseteq Handles
    BY <1>5, <2>1 DEF BeginLogin, TypeOK, Handles
  <2>4. next_sequence' \in [Coordinators -> 0..MaxSequence]
        /\ \A d \in Coordinators : phase[d] = "live" => next_sequence'[d] \in 1..MaxSequence
    BY <1>5, BoundsAssumption DEF BeginLogin, TypeOK, LiveIdentity
  <2> QED
    BY <1>5, <2>2, <2>3, <2>4
    DEF BeginLogin, TypeOK, LiveIdentity, LeaseTables, history, registry, identity
<1>6. ASSUME NEW c \in Coordinators, NEW now \in 0..clock, NEW h \in handles,
             NEW expected \in 1..MaxRevision, PublishPending(c, h, expected, now)
      PROVE  TypeInv'
  <2>1. leases' \in LeaseTables
    BY <1>0, <1>6, ExactLease, NextLease, LeaseUpdate DEF PublishPending, LeaseStates
  <2> QED
    BY <1>6, <2>1
    DEF PublishPending, TypeOK, LiveIdentity, LeaseTables, history, registry, identity
<1>7. ASSUME NEW c \in Coordinators, NEW now \in 0..clock, NEW h \in handles,
             NEW expected \in 1..MaxRevision, Resume(c, h, expected, now)
      PROVE  TypeInv'
  <2>1. leases' \in LeaseTables
    BY <1>0, <1>7, ExactLease, NextLease, LeaseUpdate DEF Resume, LeaseStates
  <2> QED
    BY <1>7, <2>1 DEF Resume, TypeOK, LiveIdentity, LeaseTables, history, registry, identity
<1>8. ASSUME NEW c \in Coordinators, NEW now \in 0..clock, NEW h \in handles,
             Heartbeat(c, h, now)
      PROVE  TypeInv'
  <2>1. leases' \in LeaseTables
    BY <1>0, <1>8, ExactLease, TouchedLease, LeaseUpdate DEF Heartbeat
  <2> QED
    BY <1>8, <2>1 DEF Heartbeat, TypeOK, LiveIdentity, LeaseTables, history, registry, identity
<1>9. ASSUME NEW c \in Coordinators, NEW now \in 0..clock, NEW h \in handles,
             RequestCancel(c, h, now)
      PROVE  TypeInv'
  <2>1. leases' \in LeaseTables
    BY <1>0, <1>9, ExactLease, NextLease, LeaseUpdate
    DEF RequestCancel, CancelledRecord, LeaseStates
  <2>2. cancelled' \subseteq LeaseIds
    BY <1>9, ExactLease DEF RequestCancel, TypeOK
  <2> QED
    BY <1>9, <2>1, <2>2
    DEF RequestCancel, TypeOK, LiveIdentity, LeaseTables, registry, identity
<1>10. ASSUME NEW c \in Coordinators, NEW now \in 0..clock, NEW h \in handles,
              NEW outcome \in Outcomes, Complete(c, h, outcome, now)
       PROVE  TypeInv'
  <2>1. leases' \in LeaseTables
    BY <1>10, ExactLease, LeaseUpdate DEF Complete
  <2>2. succeeded' \subseteq LeaseIds
    BY <1>10, ExactLease DEF Complete, TypeOK
  <2> QED
    BY <1>10, <2>1, <2>2
    DEF Complete, TypeOK, LiveIdentity, LeaseTables, registry, identity
<1>11. ASSUME NEW c \in Coordinators, NEW now \in 0..clock, StaleRecoveryTickets(c, now)
       PROVE  TypeInv'
  <2>1. ASSUME NEW t \in Due(c, now)
        PROVE  /\ t \in Targets
               /\ leases[c][t] \in Leases
               /\ HasNextRevision(leases[c][t])
    BY <1>11, <2>1 DEF StaleRecoveryTickets, Due, Unmarked, Occupied, TypeOK
  <2>2. \A t \in Due(c, now) :
           /\ Moved(leases[c][t], "recovery_required") \in Leases
           /\ leases[c][t].id \in LeaseIds
           /\ leases[c][t].revision + 1 \in 1..MaxRevision
    BY <2>1, BoundsAssumption, MovedLease DEF LeaseStates, Leases, HasNextRevision
  <2>3. leases' \in LeaseTables
    BY <1>11, <2>2 DEF StaleRecoveryTickets, TypeOK, LeaseTables
  <2>4. tickets' \subseteq Tickets
    BY <1>11, <2>1, <2>2 DEF StaleRecoveryTickets, TypeOK, Tickets
  <2>5. ticketed' \subseteq LeaseIds
    BY <1>11, <2>2 DEF StaleRecoveryTickets, TypeOK
  <2> QED
    BY <1>11, <2>3, <2>4, <2>5
    DEF StaleRecoveryTickets, TypeOK, LiveIdentity, LeaseTables, registry, identity
<1>12. ASSUME NEW c \in Coordinators, NEW k \in tickets, FinishStaleRecovery(c, k)
       PROVE  TypeInv'
  <2>1. k.target \in Targets
    BY DEF TypeOK, Tickets
  <2>2. leases' \in LeaseTables
    BY <1>12, <2>1, LeaseUpdate DEF FinishStaleRecovery, TypeOK, LeaseTables
  <2>3. tickets' \subseteq Tickets
    BY <1>12 DEF FinishStaleRecovery, TypeOK
  <2> QED
    BY <1>12, <2>2, <2>3
    DEF FinishStaleRecovery, TypeOK, LiveIdentity, LeaseTables, registry, identity, history
<1>13. CASE Tick
  BY <1>13, BoundsAssumption
  DEF Tick, TypeOK, LiveIdentity, Instants, registry, identity, history
<1>14. CASE UNCHANGED vars
  BY <1>14 DEF TypeOK, LiveIdentity, vars, registry, identity, history
<1> QED
  BY <1>1, <1>2, <1>3, <1>4, <1>5, <1>6, <1>7, <1>8, <1>9, <1>10, <1>11, <1>12, <1>13, <1>14,
     StepCases

\* Every variable stays in its domain: no counter of the coordinator passes
\* the limit of its type, and no lease or ticket carries a malformed identity.
THEOREM TypeCorrect == Spec => []TypeOK
<1>1. TypeInv => TypeOK
  BY DEF TypeInv
<1> QED
  BY <1>1, TypeInit, TypeNext, PTL DEF Spec

-----------------------------------------------------------------------------
(* The inductive invariant behind the safety theorems.  Identities are     *)
(* fresh because the counters run ahead of every identity handed out, and  *)
(* an epoch has one coordinator because a registered coordinator keeps its *)
(* epoch registered until no login is left.                                *)

Owns(c) == phase[c] \in {"live", "abandoned"}
Held(c, t) == leases[c][t] # NoLease
Aborted == cancelled \cup ticketed

EpochsRegistered ==
    \A c \in Coordinators : phase[c] # "absent" => process_epoch[c] \in active_epochs

OneCoordinatorPerEpoch ==
    \A c, d \in Coordinators :
        /\ phase[c] # "absent"
        /\ phase[d] # "absent"
        /\ process_epoch[c] = process_epoch[d]
        => c = d

LeasesOfOwner ==
    \A c \in Coordinators, t \in Targets :
        Held(c, t) => Owns(c) /\ leases[c][t].id.epoch = process_epoch[c]

InstancesAhead ==
    /\ \A c \in Coordinators : Owns(c) => instance[c] < next_instance
    /\ \A h \in handles : h.id.instance < next_instance

DistinctInstances ==
    \A c, d \in Coordinators : Owns(c) /\ Owns(d) /\ instance[c] = instance[d] => c = d

SequencesAhead ==
    \A c \in Coordinators, h \in handles :
        phase[c] = "live" /\ h.id.instance = instance[c] => h.id.sequence < next_sequence[c]

LeasesHandedOut ==
    \A c \in Coordinators, t \in Targets :
        Held(c, t) => [id |-> leases[c][t].id, target |-> t] \in handles

OnePlacePerLease ==
    \A c, d \in Coordinators, t, u \in Targets :
        Held(c, t) /\ Held(d, u) /\ leases[c][t].id = leases[d][u].id => c = d /\ t = u

HistoryHandedOut ==
    \A id \in Aborted \cup succeeded : \E h \in handles : h.id = id

AbortedAreMarked ==
    \A c \in Coordinators, t \in Targets :
        Held(c, t) /\ leases[c][t].id \in Aborted
        => leases[c][t].state \in {"cancelling", "recovery_required"}

SucceededAreGone ==
    \A c \in Coordinators, t \in Targets : Held(c, t) => leases[c][t].id \notin succeeded

OwnershipInv == EpochsRegistered /\ OneCoordinatorPerEpoch /\ LeasesOfOwner
IdentityInv == InstancesAhead /\ DistinctInstances /\ SequencesAhead
LeaseInv == LeasesHandedOut /\ OnePlacePerLease
HistoryInv == HistoryHandedOut /\ AbortedAreMarked /\ SucceededAreGone /\ NoSuccessAfterAbort

IInv == OwnershipInv /\ IdentityInv /\ LeaseInv /\ HistoryInv

-----------------------------------------------------------------------------
(* Most operations leave the coordinators alone and neither start a login  *)
(* nor change the identity of one.                                         *)

KeepsIdentities ==
    \A c \in Coordinators, t \in Targets :
        Held(c, t)' => Held(c, t) /\ leases'[c][t].id = leases[c][t].id

OwnerStep == UNCHANGED <<registry, identity, next_sequence, handles>> /\ KeepsIdentities

\* A lease that is replaced by one of its identity keeps all identities.
LEMMA ReplacedLease ==
    ASSUME TypeOK, NEW c \in Coordinators, NEW t \in Targets, Held(c, t),
           NEW r, r = NoLease \/ r.id = leases[c][t].id,
           leases' = [leases EXCEPT ![c][t] = r]
    PROVE  KeepsIdentities
<1> SUFFICES ASSUME NEW d \in Coordinators, NEW u \in Targets, Held(d, u)'
             PROVE  Held(d, u) /\ leases'[d][u].id = leases[d][u].id
  BY DEF KeepsIdentities
<1>1. CASE d = c /\ u = t
  <2>1. leases'[c][t] = r
    BY DEF TypeOK
  <2> QED
    BY <1>1, <2>1 DEF Held
<1>2. CASE ~(d = c /\ u = t)
  <2>1. leases'[d][u] = leases[d][u]
    BY <1>2 DEF TypeOK
  <2> QED
    BY <2>1 DEF Held
<1> QED
  BY <1>1, <1>2

\* The steps of the owners of leases move no identity.
LEMMA OwnerSteps ==
    ASSUME TypeInv,
           \/ \E c \in Coordinators, now \in 0..clock, h \in handles, expected \in 1..MaxRevision :
                 PublishPending(c, h, expected, now) \/ Resume(c, h, expected, now)
           \/ \E c \in Coordinators, now \in 0..clock, h \in handles : Heartbeat(c, h, now)
           \/ \E c \in Coordinators, now \in 0..clock, h \in handles : RequestCancel(c, h, now)
           \/ \E c \in Coordinators, now \in 0..clock, h \in handles, outcome \in Outcomes :
                 Complete(c, h, outcome, now)
           \/ \E c \in Coordinators, now \in 0..clock : StaleRecoveryTickets(c, now)
           \/ \E c \in Coordinators, k \in tickets : FinishStaleRecovery(c, k)
           \/ Tick
           \/ UNCHANGED vars
    PROVE  OwnerStep
<1> USE DEF TypeInv
<1>0. clock \in Nat /\ \A now \in 0..clock : now \in Nat
  BY BoundsAssumption DEF TypeOK, Instants
<1>1. ASSUME NEW c \in Coordinators, NEW now \in 0..clock, NEW h \in handles,
             NEW expected \in 1..MaxRevision, PublishPending(c, h, expected, now)
      PROVE  OwnerStep
  <2>1. Held(c, h.target) /\ h.target \in Targets
    BY <1>1, ExactLease DEF PublishPending, Exact, Held
  <2>2. Touched(Moved(leases[c][h.target], "pending"), now).id = leases[c][h.target].id
    BY <1>0, <1>1, ExactLease, NextLease DEF PublishPending, LeaseStates
  <2>3. KeepsIdentities
    BY <1>1, <2>1, <2>2, ReplacedLease DEF PublishPending
  <2> QED
    BY <1>1, <2>3 DEF PublishPending, OwnerStep
<1>2. ASSUME NEW c \in Coordinators, NEW now \in 0..clock, NEW h \in handles,
             NEW expected \in 1..MaxRevision, Resume(c, h, expected, now)
      PROVE  OwnerStep
  <2>1. Held(c, h.target) /\ h.target \in Targets
    BY <1>2, ExactLease DEF Resume, Exact, Held
  <2>2. Touched(Moved(leases[c][h.target], "running"), now).id = leases[c][h.target].id
    BY <1>0, <1>2, ExactLease, NextLease DEF Resume, LeaseStates
  <2>3. KeepsIdentities
    BY <1>2, <2>1, <2>2, ReplacedLease DEF Resume
  <2> QED
    BY <1>2, <2>3 DEF Resume, OwnerStep
<1>3. ASSUME NEW c \in Coordinators, NEW now \in 0..clock, NEW h \in handles,
             Heartbeat(c, h, now)
      PROVE  OwnerStep
  <2>1. Held(c, h.target) /\ h.target \in Targets
    BY <1>3, ExactLease DEF Heartbeat, Exact, Held
  <2>2. Touched(leases[c][h.target], now).id = leases[c][h.target].id
    BY <1>0, <1>3, ExactLease, TouchedLease DEF Heartbeat
  <2>3. KeepsIdentities
    BY <1>3, <2>1, <2>2, ReplacedLease DEF Heartbeat
  <2> QED
    BY <1>3, <2>3 DEF Heartbeat, OwnerStep
<1>4. ASSUME NEW c \in Coordinators, NEW now \in 0..clock, NEW h \in handles,
             RequestCancel(c, h, now)
      PROVE  OwnerStep
  <2>1. Held(c, h.target) /\ h.target \in Targets
    BY <1>4, ExactLease DEF RequestCancel, Exact, Held
  <2>2. CancelledRecord(leases[c][h.target], now).id = leases[c][h.target].id
    BY <1>0, <1>4, ExactLease, NextLease DEF RequestCancel, CancelledRecord, LeaseStates
  <2>3. KeepsIdentities
    BY <1>4, <2>1, <2>2, ReplacedLease DEF RequestCancel
  <2> QED
    BY <1>4, <2>3 DEF RequestCancel, OwnerStep
<1>5. ASSUME NEW c \in Coordinators, NEW now \in 0..clock, NEW h \in handles,
             NEW outcome \in Outcomes, Complete(c, h, outcome, now)
      PROVE  OwnerStep
  <2>1. Held(c, h.target) /\ h.target \in Targets
    BY <1>5, ExactLease DEF Complete, Exact, Held
  <2>2. KeepsIdentities
    BY <1>5, <2>1, ReplacedLease DEF Complete
  <2> QED
    BY <1>5, <2>2 DEF Complete, OwnerStep
<1>6. ASSUME NEW c \in Coordinators, NEW now \in 0..clock, StaleRecoveryTickets(c, now)
      PROVE  OwnerStep
  <2>1. ASSUME NEW d \in Coordinators, NEW u \in Targets, Held(d, u)'
        PROVE  Held(d, u) /\ leases'[d][u].id = leases[d][u].id
    <3>1. CASE d = c /\ u \in Due(c, now)
      <4>1. leases'[c][u] = Moved(leases[c][u], "recovery_required")
        BY <1>6, <3>1 DEF StaleRecoveryTickets, TypeOK
      <4>2. leases[c][u] \in Leases /\ leases[c][u] # NoLease /\ HasNextRevision(leases[c][u])
        BY <1>6, <3>1 DEF StaleRecoveryTickets, Due, Unmarked, Occupied, TypeOK
      <4> QED
        BY <3>1, <4>1, <4>2, MovedLease DEF Held, LeaseStates
    <3>2. CASE ~(d = c /\ u \in Due(c, now))
      <4>1. leases'[d][u] = leases[d][u]
        BY <1>6, <3>2 DEF StaleRecoveryTickets, TypeOK
      <4> QED
        BY <2>1, <4>1 DEF Held
    <3> QED
      BY <3>1, <3>2
  <2> QED
    BY <1>6, <2>1 DEF StaleRecoveryTickets, OwnerStep, KeepsIdentities
<1>7. ASSUME NEW c \in Coordinators, NEW k \in tickets, FinishStaleRecovery(c, k)
      PROVE  OwnerStep
  <2>1. k.target \in Targets
    BY DEF TypeOK, Tickets
  <2>2. CASE Confirms(c, k)
    <3>1. Held(c, k.target) /\ leases' = [leases EXCEPT ![c][k.target] = NoLease]
      BY <1>7, <2>2 DEF FinishStaleRecovery, Confirms, Held
    <3>2. KeepsIdentities
      BY <2>1, <3>1, ReplacedLease
    <3> QED
      BY <1>7, <3>2 DEF FinishStaleRecovery, OwnerStep
  <2>3. CASE ~Confirms(c, k)
    BY <1>7, <2>3 DEF FinishStaleRecovery, OwnerStep, KeepsIdentities, Held
  <2> QED
    BY <2>2, <2>3
<1>8. CASE Tick
  BY <1>8 DEF Tick, OwnerStep, KeepsIdentities, Held
<1>9. CASE UNCHANGED vars
  BY <1>9 DEF vars, OwnerStep, KeepsIdentities, Held
<1> QED
  BY <1>1, <1>2, <1>3, <1>4, <1>5, <1>6, <1>7, <1>8, <1>9

\* Every step, by what it does to coordinators and to the identities of logins.
LEMMA StepKinds ==
    ASSUME TypeInv, [Next]_vars
    PROVE  \/ \E c \in Coordinators, e \in Epochs : RegisterEpoch(c, e)
           \/ \E c \in Coordinators : TakeInstance(c)
           \/ \E c \in Coordinators : InstanceExhausted(c)
           \/ \E c \in Coordinators : Drop(c)
           \/ \E c \in Coordinators, now \in 0..clock, t \in Targets, timeout \in LoginTimeouts :
                 BeginLogin(c, t, timeout, now)
           \/ OwnerStep
  BY StepCases, OwnerSteps, Zenon

-----------------------------------------------------------------------------
(* Preservation of the invariant, part by part.                            *)

\* Every step keeps who owns a lease.
LEMMA OwnershipNext ==
    ASSUME TypeInv, OwnershipInv, [Next]_vars
    PROVE  OwnershipInv'
<1> USE DEF OwnershipInv, EpochsRegistered, OneCoordinatorPerEpoch, LeasesOfOwner, Owns, Held
<1>1. ASSUME NEW c \in Coordinators, NEW e \in Epochs, RegisterEpoch(c, e)
      PROVE  OwnershipInv'
  <2>1. \A d \in Coordinators : d # c => phase'[d] = phase[d] /\ process_epoch'[d] = process_epoch[d]
    BY <1>1 DEF RegisterEpoch, TypeInv, TypeOK
  <2>2. phase'[c] = "registered" /\ process_epoch'[c] = e
    BY <1>1 DEF RegisterEpoch, TypeInv, TypeOK
  <2>3. EpochsRegistered'
    BY <1>1, <2>1, <2>2 DEF RegisterEpoch
  <2>4. OneCoordinatorPerEpoch'
    BY <1>1, <2>1, <2>2 DEF RegisterEpoch
  <2>5. LeasesOfOwner'
    BY <1>1, <2>1, <2>2 DEF RegisterEpoch
  <2> QED
    BY <2>3, <2>4, <2>5
<1>2. ASSUME NEW c \in Coordinators, TakeInstance(c) PROVE OwnershipInv'
  <2>1. /\ phase[c] = "registered" /\ phase'[c] = "live"
        /\ \A d \in Coordinators : d # c => phase'[d] = phase[d]
    BY <1>2 DEF TakeInstance, TypeInv, TypeOK
  <2> QED
    BY <1>2, <2>1 DEF TakeInstance
<1>3. ASSUME NEW c \in Coordinators, phase[c] # "absent", phase'[c] = "absent",
             \A t \in Targets : ~Held(c, t), leases' = leases,
             \A d \in Coordinators : d # c => phase'[d] = phase[d] /\ process_epoch'[d] = process_epoch[d],
             active_epochs' = active_epochs \ {process_epoch[c]}
      PROVE  OwnershipInv'
  BY <1>3
<1>4. ASSUME NEW c \in Coordinators, InstanceExhausted(c) PROVE OwnershipInv'
  <2>1. /\ phase[c] = "registered" /\ phase'[c] = "absent"
        /\ \A d \in Coordinators : d # c => phase'[d] = phase[d] /\ process_epoch'[d] = process_epoch[d]
    BY <1>4 DEF InstanceExhausted, TypeInv, TypeOK
  <2>2. \A t \in Targets : ~Held(c, t)
    BY <2>1
  <2> QED
    BY <1>3, <1>4, <2>1, <2>2 DEF InstanceExhausted
<1>5. ASSUME NEW c \in Coordinators, Drop(c) PROVE OwnershipInv'
  <2>1. CASE Occupied(c) = {}
    <3>1. /\ phase[c] = "live" /\ phase'[c] = "absent"
          /\ \A d \in Coordinators : d # c => phase'[d] = phase[d] /\ process_epoch'[d] = process_epoch[d]
      BY <1>5, <2>1 DEF Drop, TypeInv, TypeOK
    <3>2. \A t \in Targets : ~Held(c, t)
      BY <2>1 DEF Occupied
    <3> QED
      BY <1>3, <1>5, <2>1, <3>1, <3>2 DEF Drop, UnregistersOnDrop
  <2>2. CASE Occupied(c) # {}
    <3>1. /\ phase[c] = "live" /\ phase'[c] = "abandoned"
          /\ \A d \in Coordinators : d # c => phase'[d] = phase[d]
      BY <1>5, <2>2 DEF Drop, TypeInv, TypeOK
    <3>2. UNCHANGED <<active_epochs, process_epoch, leases>>
      BY <1>5, <2>2 DEF Drop, UnregistersOnDrop
    <3> QED
      BY <3>1, <3>2
  <2> QED
    BY <2>1, <2>2
<1>6. ASSUME NEW c \in Coordinators, NEW now \in 0..clock, NEW t \in Targets,
             NEW timeout \in LoginTimeouts, BeginLogin(c, t, timeout, now)
      PROVE  OwnershipInv'
  <2>1. leases'[c][t].id = NewLeaseId(c) /\ NewLeaseId(c).epoch = process_epoch[c]
    BY <1>6 DEF BeginLogin, NewLeaseId, LeaseIdOf, TypeInv, TypeOK
  <2>2. \A d \in Coordinators, u \in Targets : d # c \/ u # t => leases'[d][u] = leases[d][u]
    BY <1>6 DEF BeginLogin, TypeInv, TypeOK
  <2>3. LeasesOfOwner'
    BY <1>6, <2>1, <2>2 DEF BeginLogin, identity
  <2> QED
    BY <1>6, <2>3 DEF BeginLogin, identity, registry
<1>7. CASE OwnerStep
  BY <1>7 DEF OwnerStep, KeepsIdentities, identity, registry
<1> QED
  BY <1>1, <1>2, <1>4, <1>5, <1>6, <1>7, StepKinds

\* Every step keeps identities apart.
LEMMA IdentityNext ==
    ASSUME TypeInv, IdentityInv, [Next]_vars
    PROVE  IdentityInv'
<1> USE DEF IdentityInv, InstancesAhead, DistinctInstances, SequencesAhead, Owns
<1>0. next_instance \in Nat /\ \A h \in handles : h.id.instance \in Nat /\ h.id.sequence \in Nat
  BY BoundsAssumption DEF TypeInv, TypeOK, Handles, LeaseIds
<1>1. ASSUME NEW c \in Coordinators, NEW e \in Epochs, RegisterEpoch(c, e)
      PROVE  IdentityInv'
  <2>1. /\ phase'[c] = "registered"
        /\ \A d \in Coordinators : d # c => phase'[d] = phase[d]
    BY <1>1 DEF RegisterEpoch, TypeInv, TypeOK
  <2> QED
    BY <1>1, <2>1 DEF RegisterEpoch
<1>2. ASSUME NEW c \in Coordinators, TakeInstance(c) PROVE IdentityInv'
  <2>1. /\ phase'[c] = "live" /\ instance'[c] = next_instance /\ next_sequence'[c] = 1
        /\ \A d \in Coordinators : d # c =>
              /\ phase'[d] = phase[d]
              /\ instance'[d] = instance[d]
              /\ next_sequence'[d] = next_sequence[d]
        /\ next_instance' = next_instance + 1
        /\ handles' = handles
    BY <1>2 DEF TakeInstance, TypeInv, TypeOK
  <2>2. \A d \in Coordinators : instance[d] \in Nat
    BY BoundsAssumption DEF TypeInv, TypeOK
  <2>3. InstancesAhead'
    BY <1>0, <2>1, <2>2
  <2>4. DistinctInstances'
    BY <1>0, <2>1, <2>2
  <2>5. SequencesAhead'
    BY <1>0, <2>1, <2>2
  <2> QED
    BY <2>3, <2>4, <2>5
<1>3. ASSUME NEW c \in Coordinators, phase'[c] = "absent",
             \A d \in Coordinators : d # c =>
                /\ phase'[d] = phase[d]
                /\ instance'[d] = instance[d]
                /\ next_sequence'[d] = next_sequence[d],
             UNCHANGED <<next_instance, handles>>
      PROVE  IdentityInv'
  BY <1>3
<1>4. ASSUME NEW c \in Coordinators, InstanceExhausted(c) PROVE IdentityInv'
  <2>1. /\ phase'[c] = "absent"
        /\ \A d \in Coordinators : d # c => phase'[d] = phase[d]
    BY <1>4 DEF InstanceExhausted, TypeInv, TypeOK
  <2> QED
    BY <1>3, <1>4, <2>1 DEF InstanceExhausted
<1>5. ASSUME NEW c \in Coordinators, Drop(c) PROVE IdentityInv'
  <2>1. CASE Occupied(c) = {}
    <3>1. /\ phase'[c] = "absent"
          /\ \A d \in Coordinators : d # c =>
                /\ phase'[d] = phase[d]
                /\ instance'[d] = instance[d]
                /\ next_sequence'[d] = next_sequence[d]
      BY <1>5, <2>1 DEF Drop, TypeInv, TypeOK
    <3> QED
      BY <1>3, <1>5, <3>1 DEF Drop
  <2>2. CASE Occupied(c) # {}
    <3>1. /\ phase[c] = "live" /\ phase'[c] = "abandoned"
          /\ \A d \in Coordinators : d # c => phase'[d] = phase[d]
      BY <1>5, <2>2 DEF Drop, TypeInv, TypeOK
    <3>2. UNCHANGED <<next_instance, instance, next_sequence, handles>>
      BY <1>5, <2>2 DEF Drop
    <3> QED
      BY <3>1, <3>2
  <2> QED
    BY <2>1, <2>2
<1>6. ASSUME NEW c \in Coordinators, NEW now \in 0..clock, NEW t \in Targets,
             NEW timeout \in LoginTimeouts, BeginLogin(c, t, timeout, now)
      PROVE  IdentityInv'
  <2> DEFINE h == [id |-> NewLeaseId(c), target |-> t]
  <2>1. h.id.instance = instance[c] /\ h.id.sequence = next_sequence[c]
    BY DEF NewLeaseId, LeaseIdOf
  <2>2. handles' = handles \cup {h} /\ UNCHANGED <<phase, instance, next_instance>>
    BY <1>6 DEF BeginLogin, identity, registry
  <2>3. /\ next_sequence[c] \in Nat /\ next_sequence'[c] = next_sequence[c] + 1
        /\ \A d \in Coordinators : d # c => next_sequence'[d] = next_sequence[d]
    BY <1>6, BoundsAssumption DEF BeginLogin, TypeInv, TypeOK
  <2> HIDE DEF h
  <2>4. phase[c] = "live"
    BY <1>6 DEF BeginLogin
  <2>5. InstancesAhead'
    BY <2>1, <2>2, <2>4
  <2>6. SequencesAhead'
    <3> SUFFICES ASSUME NEW d \in Coordinators, NEW g \in handles',
                        phase'[d] = "live", g.id.instance = instance'[d]
                 PROVE  g.id.sequence < next_sequence'[d]
      OBVIOUS
    <3>1. CASE d # c
      <4>1. g # h
        BY <2>1, <2>2, <2>4, <3>1
      <4> QED
        BY <2>2, <2>3, <3>1, <4>1
    <3>2. CASE d = c
      <4>1. CASE g = h
        BY <2>1, <2>3, <3>2, <4>1
      <4>2. CASE g # h
        BY <1>0, <2>2, <2>3, <3>2, <4>2
      <4> QED
        BY <4>1, <4>2
    <3> QED
      BY <3>1, <3>2
  <2> QED
    BY <2>2, <2>5, <2>6
<1>7. CASE OwnerStep
  BY <1>7 DEF OwnerStep, identity, registry
<1> QED
  BY <1>1, <1>2, <1>4, <1>5, <1>6, <1>7, StepKinds

\* The identity of the next login is nobody's: sequences run ahead.
LEMMA NextIdIsFresh ==
    ASSUME TypeInv, IdentityInv, NEW c \in Coordinators, phase[c] = "live", NEW h \in handles
    PROVE  h.id # NewLeaseId(c)
<1>1. NewLeaseId(c).instance = instance[c] /\ NewLeaseId(c).sequence = next_sequence[c]
  BY DEF NewLeaseId, LeaseIdOf
<1>2. next_sequence[c] \in Nat
  BY BoundsAssumption DEF TypeInv, TypeOK
<1>3. h.id.instance = instance[c] => h.id.sequence < next_sequence[c]
  BY DEF IdentityInv, SequencesAhead
<1> QED
  BY <1>1, <1>2, <1>3

\* What begin_login leaves behind, place by place.
LEMMA AfterBegin ==
    ASSUME TypeInv, NEW c \in Coordinators, NEW now \in 0..clock, NEW t \in Targets,
           NEW timeout \in LoginTimeouts, BeginLogin(c, t, timeout, now)
    PROVE  /\ leases'[c][t].id = NewLeaseId(c)
           /\ leases'[c][t].state = "running"
           /\ \A d \in Coordinators, u \in Targets : d # c \/ u # t => leases'[d][u] = leases[d][u]
           /\ handles' = handles \cup {[id |-> NewLeaseId(c), target |-> t]}
           /\ UNCHANGED <<ticketed, cancelled, succeeded>>
<1>1. \A d \in Coordinators, u \in Targets : d # c \/ u # t => leases'[d][u] = leases[d][u]
  BY DEF BeginLogin, TypeInv, TypeOK
<1>2. leases'[c][t].id = NewLeaseId(c)
  BY DEF BeginLogin, TypeInv, TypeOK
<1>3. leases'[c][t].state = "running"
  BY DEF BeginLogin, TypeInv, TypeOK
<1> QED
  BY <1>1, <1>2, <1>3 DEF BeginLogin, history

\* Every step keeps leases within their bounds.
LEMMA LeaseNext ==
    ASSUME TypeInv, IdentityInv, LeaseInv, [Next]_vars
    PROVE  LeaseInv'
<1> USE DEF LeaseInv, LeasesHandedOut, OnePlacePerLease, Held
<1>1. ASSUME UNCHANGED <<leases, handles>> PROVE LeaseInv'
  BY <1>1
<1>2. ASSUME NEW c \in Coordinators, NEW e \in Epochs, RegisterEpoch(c, e)
      PROVE  LeaseInv'
  BY <1>1, <1>2 DEF RegisterEpoch
<1>3. ASSUME NEW c \in Coordinators, TakeInstance(c) PROVE LeaseInv'
  BY <1>1, <1>3 DEF TakeInstance
<1>4. ASSUME NEW c \in Coordinators, InstanceExhausted(c) PROVE LeaseInv'
  BY <1>1, <1>4 DEF InstanceExhausted
<1>5. ASSUME NEW c \in Coordinators, Drop(c) PROVE LeaseInv'
  BY <1>1, <1>5 DEF Drop
<1>6. ASSUME NEW c \in Coordinators, NEW now \in 0..clock, NEW t \in Targets,
             NEW timeout \in LoginTimeouts, BeginLogin(c, t, timeout, now)
      PROVE  LeaseInv'
  <2>1. phase[c] = "live"
    BY <1>6 DEF BeginLogin
  <2>2. \A d \in Coordinators, u \in Targets : Held(d, u) => leases[d][u].id # NewLeaseId(c)
    BY <2>1, NextIdIsFresh
  <2>3. LeasesHandedOut'
    BY <1>6, AfterBegin
  <2>4. OnePlacePerLease'
    BY <1>6, <2>2, AfterBegin
  <2> QED
    BY <2>3, <2>4
<1>7. CASE OwnerStep
  BY <1>7 DEF OwnerStep, KeepsIdentities
<1> QED
  BY <1>2, <1>3, <1>4, <1>5, <1>6, <1>7, StepKinds

-----------------------------------------------------------------------------
(* The history: what was cancelled, found stale or succeeded.              *)

\* An owner's change of one lease that stays.
LEMMA LeaseChanged ==
    ASSUME TypeOK, NEW c \in Coordinators, NEW h \in handles, NEW r \in Leases, Exact(c, h),
           r.id = leases[c][h.target].id,
           leases' = [leases EXCEPT ![c][h.target] = r]
    PROVE  /\ KeepsIdentities
           /\ leases'[c][h.target] = r
           /\ \A d \in Coordinators, u \in Targets :
                 d # c \/ u # h.target => leases'[d][u] = leases[d][u]
<1>1. h.target \in Targets
  BY ExactLease
<1>2. KeepsIdentities
  BY <1>1, ReplacedLease DEF Exact, Held
<1>3. leases'[c][h.target] = r
  BY <1>1 DEF TypeOK
<1>4. \A d \in Coordinators, u \in Targets :
         d # c \/ u # h.target => leases'[d][u] = leases[d][u]
  BY <1>1 DEF TypeOK
<1> QED
  BY <1>2, <1>3, <1>4

\* Every step keeps the history of the leases.
LEMMA HistoryNext ==
    ASSUME TypeInv, IdentityInv, LeaseInv, HistoryInv, [Next]_vars
    PROVE  HistoryInv'
<1> USE DEF HistoryInv, HistoryHandedOut, AbortedAreMarked, SucceededAreGone, NoSuccessAfterAbort,
            Aborted, Held
<1>0. clock \in Nat /\ \A now \in 0..clock : now \in Nat
  BY BoundsAssumption DEF TypeInv, TypeOK, Instants
\* A step that aborts nothing new, and leaves marked what is marked.
<1>1. ASSUME UNCHANGED history, handles \subseteq handles', KeepsIdentities,
             \A c \in Coordinators, t \in Targets :
                Held(c, t)' /\ leases[c][t].id \in Aborted
                => leases'[c][t].state \in {"cancelling", "recovery_required"}
      PROVE  HistoryInv'
  BY <1>1 DEF history, KeepsIdentities
<1>2. ASSUME NEW c \in Coordinators, NEW e \in Epochs, RegisterEpoch(c, e)
      PROVE  HistoryInv'
  BY <1>2 DEF RegisterEpoch, history
<1>3. ASSUME NEW c \in Coordinators, TakeInstance(c) PROVE HistoryInv'
  BY <1>3 DEF TakeInstance, history
<1>4. ASSUME NEW c \in Coordinators, InstanceExhausted(c) PROVE HistoryInv'
  BY <1>4 DEF InstanceExhausted, history
<1>5. ASSUME NEW c \in Coordinators, Drop(c) PROVE HistoryInv'
  BY <1>5 DEF Drop, history
<1>6. ASSUME NEW c \in Coordinators, NEW now \in 0..clock, NEW t \in Targets,
             NEW timeout \in LoginTimeouts, BeginLogin(c, t, timeout, now)
      PROVE  HistoryInv'
  <2>1. phase[c] = "live"
    BY <1>6 DEF BeginLogin
  <2>2. NewLeaseId(c) \notin Aborted \cup succeeded
    BY <2>1, NextIdIsFresh
  <2>3. HistoryHandedOut' /\ NoSuccessAfterAbort'
    BY <1>6, AfterBegin
  <2>4. AbortedAreMarked'
    BY <1>6, <2>2, AfterBegin
  <2>5. SucceededAreGone'
    BY <1>6, <2>2, AfterBegin
  <2> QED
    BY <2>3, <2>4, <2>5
<1>8. ASSUME NEW c \in Coordinators, NEW now \in 0..clock, NEW h \in handles,
             NEW expected \in 1..MaxRevision,
             PublishPending(c, h, expected, now) \/ Resume(c, h, expected, now)
      PROVE  HistoryInv'
  <2> DEFINE old == leases[c][h.target]
  <2>1. /\ TypeOK /\ Exact(c, h) /\ old \in Leases /\ h.target \in Targets
        /\ old.state \in {"running", "pending"}
    BY <1>8, ExactLease DEF PublishPending, Resume, TypeInv
  <2>2. old.id \notin Aborted
    BY <2>1 DEF Exact
  <2>3. PICK state \in LeaseStates :
           /\ HasNextRevision(old)
           /\ leases' = [leases EXCEPT ![c][h.target] = Touched(Moved(old, state), now)]
    BY <1>8 DEF PublishPending, Resume, LeaseStates
  <2>4. UNCHANGED <<handles, history>>
    BY <1>8 DEF PublishPending, Resume
  <2> DEFINE new == Touched(Moved(old, state), now)
  <2>5. new \in Leases /\ new.id = old.id
    BY <1>0, <2>1, <2>3, NextLease
  <2> HIDE DEF new, old
  <2>6. /\ KeepsIdentities
        /\ \A d \in Coordinators, u \in Targets :
              d # c \/ u # h.target => leases'[d][u] = leases[d][u]
    <3>1. new.id = leases[c][h.target].id /\ leases' = [leases EXCEPT ![c][h.target] = new]
      BY <2>3, <2>5 DEF new, old
    <3> QED
      BY <2>1, <2>5, <3>1, LeaseChanged, Zenon
  <2> QED
    BY <1>1, <2>2, <2>4, <2>6 DEF old, KeepsIdentities
<1>9. ASSUME NEW c \in Coordinators, NEW now \in 0..clock, NEW h \in handles,
             Heartbeat(c, h, now)
      PROVE  HistoryInv'
  <2> DEFINE old == leases[c][h.target]
  <2>1. /\ TypeOK /\ Exact(c, h) /\ old \in Leases /\ h.target \in Targets
        /\ old.state \in {"running", "pending"}
    BY <1>9, ExactLease DEF Heartbeat, TypeInv
  <2>2. old.id \notin Aborted
    BY <2>1 DEF Exact
  <2>3. leases' = [leases EXCEPT ![c][h.target] = Touched(old, now)] /\ UNCHANGED <<handles, history>>
    BY <1>9 DEF Heartbeat
  <2> DEFINE new == Touched(old, now)
  <2>4. new \in Leases /\ new.id = old.id
    BY <1>0, <2>1, TouchedLease
  <2>5. new.id = leases[c][h.target].id /\ leases' = [leases EXCEPT ![c][h.target] = new]
    BY <2>3, <2>4 DEF new, old
  <2> HIDE DEF new, old
  <2>6. /\ KeepsIdentities
        /\ \A d \in Coordinators, u \in Targets :
              d # c \/ u # h.target => leases'[d][u] = leases[d][u]
    BY <2>1, <2>4, <2>5, LeaseChanged, Zenon
  <2> QED
    BY <1>1, <2>2, <2>3, <2>6 DEF old, KeepsIdentities
<1>10. ASSUME NEW c \in Coordinators, NEW now \in 0..clock, NEW h \in handles,
              RequestCancel(c, h, now)
       PROVE  HistoryInv'
  <2> DEFINE old == leases[c][h.target]
  <2> DEFINE new == CancelledRecord(old, now)
  <2>1. /\ TypeOK /\ Exact(c, h) /\ old \in Leases /\ HasNextRevision(old)
        /\ h.target \in Targets /\ Held(c, h.target) /\ old.id = h.id
    BY <1>10, ExactLease DEF RequestCancel, TypeInv, Exact
  <2>2. new \in Leases /\ new.id = old.id /\ new.state = "cancelling"
    BY <1>0, <2>1, NextLease DEF CancelledRecord, LeaseStates
  <2>3. leases' = [leases EXCEPT ![c][h.target] = new]
    BY <1>10 DEF RequestCancel
  <2> HIDE DEF new
  <2>4. /\ KeepsIdentities
        /\ leases'[c][h.target] = new
        /\ \A d \in Coordinators, u \in Targets :
              d # c \/ u # h.target => leases'[d][u] = leases[d][u]
    <3>1. new.id = leases[c][h.target].id /\ leases' = [leases EXCEPT ![c][h.target] = new]
      BY <2>2, <2>3
    <3> QED
      BY <2>1, <2>2, <3>1, LeaseChanged, Zenon
  <2>5. cancelled' = cancelled \cup {h.id} /\ UNCHANGED <<handles, ticketed, succeeded>>
    BY <1>10 DEF RequestCancel
  <2>6. HistoryHandedOut' /\ SucceededAreGone'
    BY <2>4, <2>5 DEF KeepsIdentities
  <2>7. NoSuccessAfterAbort'
    BY <2>1, <2>5
  <2>8. AbortedAreMarked'
    <3> SUFFICES ASSUME NEW d \in Coordinators, NEW u \in Targets,
                        Held(d, u)', leases'[d][u].id \in Aborted'
                 PROVE  leases'[d][u].state \in {"cancelling", "recovery_required"}
      OBVIOUS
    <3>1. CASE d = c /\ u = h.target
      BY <2>2, <2>4, <3>1
    <3>2. CASE ~(d = c /\ u = h.target)
      <4>1. leases'[d][u] = leases[d][u] /\ Held(d, u)
        BY <2>4, <3>2
      <4>2. leases[d][u].id # h.id
        BY <2>1, <3>2, <4>1 DEF LeaseInv, OnePlacePerLease
      <4> QED
        BY <2>5, <4>1, <4>2
    <3> QED
      BY <3>1, <3>2
  <2> QED
    BY <2>6, <2>7, <2>8
<1>11. ASSUME NEW c \in Coordinators, NEW now \in 0..clock, NEW h \in handles,
              NEW outcome \in Outcomes, Complete(c, h, outcome, now)
       PROVE  HistoryInv'
  <2>1. /\ Exact(c, h) /\ h.target \in Targets /\ Held(c, h.target)
        /\ leases[c][h.target].id = h.id
    BY <1>11, ExactLease DEF Complete, TypeInv, Exact
  <2>2. /\ leases' = [leases EXCEPT ![c][h.target] = NoLease]
        /\ UNCHANGED <<handles, ticketed, cancelled>>
    BY <1>11 DEF Complete
  <2>3. KeepsIdentities /\ ~Held(c, h.target)'
    <3>1. KeepsIdentities
      BY <2>1, <2>2, ReplacedLease DEF TypeInv
    <3>2. ~Held(c, h.target)'
      BY <2>1, <2>2 DEF TypeInv, TypeOK
    <3> QED
      BY <3>1, <3>2
  <2>4. \A d \in Coordinators, u \in Targets : Held(d, u)' => leases'[d][u] = leases[d][u]
    BY <2>1, <2>2, <2>3 DEF TypeInv, TypeOK
  <2>5. \A d \in Coordinators, u \in Targets : Held(d, u)' => leases'[d][u].id # h.id
    BY <2>1, <2>3, <2>4 DEF LeaseInv, OnePlacePerLease, KeepsIdentities
  <2>6. succeeded' = succeeded \/ (succeeded' = succeeded \cup {h.id} /\ h.id \notin Aborted)
    <3>1. CASE outcome = "succeeded"
      <4>1. leases[c][h.target].state \notin {"cancelling", "recovery_required"}
        BY <1>11, <3>1 DEF Complete, MaySucceed
      <4>2. h.id \notin Aborted
        BY <2>1, <4>1
      <4> QED
        BY <1>11, <3>1, <4>2 DEF Complete
    <3>2. CASE outcome # "succeeded"
      BY <1>11, <3>2 DEF Complete
    <3> QED
      BY <3>1, <3>2
  <2>7. HistoryHandedOut' /\ NoSuccessAfterAbort'
    BY <2>2, <2>6
  <2>8. AbortedAreMarked'
    BY <2>2, <2>3, <2>4 DEF KeepsIdentities
  <2>9. SucceededAreGone'
    BY <2>3, <2>4, <2>5, <2>6 DEF KeepsIdentities
  <2> QED
    BY <2>7, <2>8, <2>9
<1>12. ASSUME NEW c \in Coordinators, NEW now \in 0..clock, StaleRecoveryTickets(c, now)
       PROVE  HistoryInv'
  <2> DEFINE due == Due(c, now)
  <2>1. \A t \in due : /\ t \in Targets /\ Held(c, t) /\ leases[c][t] \in Leases
                       /\ HasNextRevision(leases[c][t])
    BY <1>12 DEF StaleRecoveryTickets, Due, Unmarked, Occupied, TypeInv, TypeOK
  <2>2. /\ ticketed' = ticketed \cup {leases[c][t].id : t \in due}
        /\ UNCHANGED <<handles, cancelled, succeeded>>
    BY <1>12 DEF StaleRecoveryTickets
  <2>3. KeepsIdentities
    BY <1>12, OwnerSteps DEF OwnerStep
  <2>4. \A t \in due : leases'[c][t] = Moved(leases[c][t], "recovery_required")
    BY <1>12, <2>1 DEF StaleRecoveryTickets, TypeInv, TypeOK
  <2>5. \A t \in due : leases'[c][t].state = "recovery_required"
    BY <2>1, <2>4, MovedLease DEF LeaseStates
  <2>6. \A d \in Coordinators, u \in Targets : d # c \/ u \notin due => leases'[d][u] = leases[d][u]
    BY <1>12 DEF StaleRecoveryTickets, TypeInv, TypeOK
  <2> HIDE DEF due
  <2>7. HistoryHandedOut' /\ NoSuccessAfterAbort'
    <3>1. \A t \in due : /\ leases[c][t].id \notin succeeded
                         /\ \E h \in handles : h.id = leases[c][t].id
      <4> SUFFICES ASSUME NEW t \in due
                   PROVE  /\ leases[c][t].id \notin succeeded
                          /\ \E h \in handles : h.id = leases[c][t].id
        OBVIOUS
      <4>1. [id |-> leases[c][t].id, target |-> t] \in handles
        BY <2>1 DEF LeaseInv, LeasesHandedOut
      <4> QED
        BY <2>1, <4>1
    <3> QED
      BY <2>2, <3>1
  <2>8. SucceededAreGone'
    BY <2>2, <2>3 DEF KeepsIdentities
  <2>9. AbortedAreMarked'
    <3> SUFFICES ASSUME NEW d \in Coordinators, NEW u \in Targets,
                        Held(d, u)', leases'[d][u].id \in Aborted'
                 PROVE  leases'[d][u].state \in {"cancelling", "recovery_required"}
      OBVIOUS
    <3>1. CASE d = c /\ u \in due
      BY <2>5, <3>1
    <3>2. CASE ~(d = c /\ u \in due)
      <4>1. leases'[d][u] = leases[d][u] /\ Held(d, u)
        BY <2>6, <3>2
      <4>2. \A t \in due : leases[d][u].id # leases[c][t].id
        BY <2>1, <3>2, <4>1 DEF LeaseInv, OnePlacePerLease
      <4> QED
        BY <2>2, <4>1, <4>2
    <3> QED
      BY <3>1, <3>2
  <2> QED
    BY <2>7, <2>8, <2>9
<1>13. ASSUME NEW c \in Coordinators, NEW k \in tickets, FinishStaleRecovery(c, k)
       PROVE  HistoryInv'
  <2>1. KeepsIdentities /\ UNCHANGED <<handles, history>>
    BY <1>13, OwnerSteps DEF OwnerStep, FinishStaleRecovery
  <2>2. \A d \in Coordinators, u \in Targets : Held(d, u)' => leases'[d][u] = leases[d][u]
    <3>1. k.target \in Targets
      BY DEF TypeInv, TypeOK, Tickets
    <3> QED
      BY <1>13, <3>1 DEF FinishStaleRecovery, TypeInv, TypeOK
  <2> QED
    BY <1>1, <2>1, <2>2 DEF KeepsIdentities
<1>14. CASE Tick
  BY <1>14 DEF Tick, history
<1>15. CASE UNCHANGED vars
  BY <1>15 DEF vars, history
<1> QED
  BY <1>2, <1>3, <1>4, <1>5, <1>6, <1>8, <1>9, <1>10, <1>11, <1>12, <1>13, <1>14, <1>15, StepCases

-----------------------------------------------------------------------------
(* The safety theorems.                                                    *)

\* The initial states satisfy the invariant.
LEMMA InvInit == Init => IInv
<1> SUFFICES ASSUME Init PROVE IInv
  OBVIOUS
<1> USE DEF Init, Owns, Held, Aborted
<1>1. OwnershipInv
  BY DEF OwnershipInv, EpochsRegistered, OneCoordinatorPerEpoch, LeasesOfOwner
<1>2. IdentityInv
  BY DEF IdentityInv, InstancesAhead, DistinctInstances, SequencesAhead
<1>3. LeaseInv
  BY DEF LeaseInv, LeasesHandedOut, OnePlacePerLease
<1>4. HistoryInv
  BY DEF HistoryInv, HistoryHandedOut, AbortedAreMarked, SucceededAreGone, NoSuccessAfterAbort
<1> QED
  BY <1>1, <1>2, <1>3, <1>4 DEF IInv

\* Every step preserves it.
LEMMA InvNext == TypeInv /\ IInv /\ [Next]_vars => IInv'
  BY OwnershipNext, IdentityNext, LeaseNext, HistoryNext DEF IInv

\* The invariant that the safety theorems rest on.
THEOREM Invariant == Spec => [](TypeInv /\ IInv)
<1>1. Init => TypeInv /\ IInv
  BY TypeInit, InvInit
<1>2. (TypeInv /\ IInv) /\ [Next]_vars => (TypeInv /\ IInv)'
  BY TypeNext, InvNext
<1> QED
  BY <1>1, <1>2, PTL DEF Spec

\* At most one login per epoch and target, over every coordinator the process
\* ever had (begin_login, with the registry of `new` and Drop).
THEOREM OneLogin == Spec => []OneLoginPerTarget
<1>1. TypeInv /\ IInv => OneLoginPerTarget
  BY DEF IInv, OwnershipInv, OneCoordinatorPerEpoch, LeasesOfOwner, Held, Owns, OneLoginPerTarget
<1> QED
  BY <1>1, Invariant, PTL

\* A login that was cancelled or found stale never completes as a success.
THEOREM AbortIsFinal == Spec => []NoSuccessAfterAbort
<1>1. TypeInv /\ IInv => NoSuccessAfterAbort
  BY DEF IInv, HistoryInv
<1> QED
  BY <1>1, Invariant, PTL

\* Every login gets an identity that no login of the process had before.
THEOREM IdentitiesAreFresh == Spec => FreshLeaseId
<1> DEFINE Fresh == \A c \in Coordinators, t \in Targets :
                       leases[c][t] = NoLease /\ leases'[c][t] # NoLease
                       => \A h \in handles : h.id # leases'[c][t].id
<1>1. TypeInv /\ IInv /\ [Next]_vars => [Fresh]_vars
  <2> SUFFICES ASSUME TypeInv, IInv, [Next]_vars PROVE Fresh
    OBVIOUS
  <2>1. CASE OwnerStep
    BY <2>1 DEF OwnerStep, KeepsIdentities, Held
  <2>2. ASSUME NEW c \in Coordinators, NEW now \in 0..clock, NEW t \in Targets,
               NEW timeout \in LoginTimeouts, BeginLogin(c, t, timeout, now)
        PROVE  Fresh
    <3>1. \A h \in handles : h.id # NewLeaseId(c)
      BY <2>2, NextIdIsFresh DEF BeginLogin, IInv
    <3> QED
      BY <2>2, <3>1, AfterBegin
  <2>3. ASSUME leases' = leases PROVE Fresh
    BY <2>3
  <2> QED
    BY <2>1, <2>2, <2>3, StepKinds DEF RegisterEpoch, TakeInstance, InstanceExhausted, Drop
<1>2. FreshLeaseId <=> [][Fresh]_vars
  BY DEF FreshLeaseId
<1> QED
  BY <1>1, <1>2, Invariant, PTL DEF Spec

\* A revision names one state of a lease.
THEOREM RevisionsNameStates == Spec => RevisionNamesState
<1> DEFINE Same(c, t) == leases[c][t] # NoLease /\ leases'[c][t] # NoLease
                         /\ leases'[c][t].id = leases[c][t].id
           Kept(c, t) == /\ leases'[c][t].revision = leases[c][t].revision
                         /\ leases'[c][t].state = leases[c][t].state
           Named == \A c \in Coordinators, t \in Targets :
                       leases[c][t] # NoLease /\ leases'[c][t] # NoLease
                       /\ leases'[c][t].id = leases[c][t].id
                       => \/ leases'[c][t].revision > leases[c][t].revision
                          \/ /\ leases'[c][t].revision = leases[c][t].revision
                             /\ leases'[c][t].state = leases[c][t].state
<1>1. TypeInv /\ [Next]_vars => [Named]_vars
  <2> SUFFICES ASSUME TypeInv, [Next]_vars PROVE Named
    OBVIOUS
  <2>0. clock \in Nat /\ \A now \in 0..clock : now \in Nat
    BY BoundsAssumption DEF TypeInv, TypeOK, Instants
  <2>1. ASSUME leases' = leases PROVE Named
    BY <2>1
  \* One lease changes, and what it becomes is no older than what it was.
  <2>2. ASSUME NEW c \in Coordinators, NEW u \in Targets, NEW r,
               leases' = [leases EXCEPT ![c][u] = r],
               \/ leases[c][u] = NoLease
               \/ r = NoLease
               \/ r.revision > leases[c][u].revision
               \/ r.revision = leases[c][u].revision /\ r.state = leases[c][u].state
        PROVE  Named
    <3> SUFFICES ASSUME NEW d \in Coordinators, NEW t \in Targets, Same(d, t)
                 PROVE  leases'[d][t].revision > leases[d][t].revision \/ Kept(d, t)
      OBVIOUS
    <3>1. CASE d = c /\ t = u
      <4>1. leases'[c][u] = r
        BY <2>2 DEF TypeInv, TypeOK
      <4> QED
        BY <2>2, <3>1, <4>1
    <3>2. CASE ~(d = c /\ t = u)
      <4>1. leases'[d][t] = leases[d][t]
        BY <2>2, <3>2 DEF TypeInv, TypeOK
      <4> QED
        BY <4>1
    <3> QED
      BY <3>1, <3>2
  <2> HIDE DEF Named
  <2>3. ASSUME NEW c \in Coordinators, NEW now \in 0..clock, NEW t \in Targets,
               NEW timeout \in LoginTimeouts, BeginLogin(c, t, timeout, now)
        PROVE  Named
    BY <2>2, <2>3 DEF BeginLogin, Admits
  <2>4. ASSUME NEW c \in Coordinators, NEW now \in 0..clock, NEW h \in handles, NEW state \in LeaseStates,
               Exact(c, h), HasNextRevision(leases[c][h.target]),
               leases' = [leases EXCEPT ![c][h.target] =
                             Touched(Moved(leases[c][h.target], state), now)]
        PROVE  Named
    <3>1. h.target \in Targets /\ leases[c][h.target] \in Leases
      BY <2>4, ExactLease DEF TypeInv
    <3>2. Touched(Moved(leases[c][h.target], state), now).revision = leases[c][h.target].revision + 1
      BY <2>0, <2>4, <3>1, NextLease
    <3>3. leases[c][h.target].revision \in Int
      BY <3>1 DEF Leases
    <3>4. Touched(Moved(leases[c][h.target], state), now).revision > leases[c][h.target].revision
      BY <3>2, <3>3
    <3> QED
      BY <2>2, <2>4, <3>1, <3>4
  <2>5. ASSUME NEW c \in Coordinators, NEW now \in 0..clock, NEW h \in handles, Heartbeat(c, h, now)
        PROVE  Named
    <3>1. h.target \in Targets /\ leases[c][h.target] \in Leases
      BY <2>5, ExactLease DEF TypeInv, Heartbeat
    <3>2. /\ Touched(leases[c][h.target], now).revision = leases[c][h.target].revision
          /\ Touched(leases[c][h.target], now).state = leases[c][h.target].state
      BY <2>0, <3>1, TouchedLease
    <3> QED
      BY <2>2, <2>5, <3>1, <3>2 DEF Heartbeat
  <2>6. ASSUME NEW c \in Coordinators, NEW now \in 0..clock, NEW h \in handles,
               NEW outcome \in Outcomes, Complete(c, h, outcome, now)
        PROVE  Named
    <3>1. h.target \in Targets
      BY <2>6, ExactLease DEF TypeInv, Complete
    <3> QED
      BY <2>2, <2>6, <3>1 DEF Complete
  <2>7. ASSUME NEW c \in Coordinators, NEW now \in 0..clock, StaleRecoveryTickets(c, now)
        PROVE  Named
    <3> SUFFICES ASSUME NEW d \in Coordinators, NEW t \in Targets, Same(d, t)
                 PROVE  leases'[d][t].revision > leases[d][t].revision \/ Kept(d, t)
      BY DEF Named
    <3>1. CASE d = c /\ t \in Due(c, now)
      <4>1. leases'[c][t] = Moved(leases[c][t], "recovery_required")
        BY <2>7, <3>1 DEF StaleRecoveryTickets, TypeInv, TypeOK
      <4>2. leases[c][t] \in Leases /\ HasNextRevision(leases[c][t])
        BY <2>7, <3>1 DEF StaleRecoveryTickets, Due, Unmarked, Occupied, TypeInv, TypeOK
      <4>3. leases'[c][t].revision = leases[c][t].revision + 1
        BY <4>1, <4>2, MovedLease DEF LeaseStates
      <4>4. leases[c][t].revision \in Int
        BY <4>2 DEF Leases
      <4> QED
        BY <3>1, <4>3, <4>4
    <3>2. CASE ~(d = c /\ t \in Due(c, now))
      <4>1. leases'[d][t] = leases[d][t]
        BY <2>7, <3>2 DEF StaleRecoveryTickets, TypeInv, TypeOK
      <4> QED
        BY <4>1
    <3> QED
      BY <3>1, <3>2
  <2>8. ASSUME NEW c \in Coordinators, NEW k \in tickets, FinishStaleRecovery(c, k)
        PROVE  Named
    <3>1. k.target \in Targets
      BY DEF TypeInv, TypeOK, Tickets
    <3> QED
      BY <2>1, <2>2, <2>8, <3>1 DEF FinishStaleRecovery
  <2>9. ASSUME NEW c \in Coordinators, NEW now \in 0..clock, NEW h \in handles,
               NEW expected \in 1..MaxRevision, PublishPending(c, h, expected, now)
        PROVE  Named
    BY <2>4, <2>9 DEF PublishPending, LeaseStates
  <2>10. ASSUME NEW c \in Coordinators, NEW now \in 0..clock, NEW h \in handles,
                NEW expected \in 1..MaxRevision, Resume(c, h, expected, now)
         PROVE  Named
    BY <2>4, <2>10 DEF Resume, LeaseStates
  <2>11. ASSUME NEW c \in Coordinators, NEW now \in 0..clock, NEW h \in handles,
                RequestCancel(c, h, now)
         PROVE  Named
    BY <2>4, <2>11 DEF RequestCancel, CancelledRecord, LeaseStates
  <2>12. ASSUME \/ \E c \in Coordinators, e \in Epochs : RegisterEpoch(c, e)
                \/ \E c \in Coordinators : TakeInstance(c)
                \/ \E c \in Coordinators : InstanceExhausted(c)
                \/ \E c \in Coordinators : Drop(c)
                \/ Tick
                \/ UNCHANGED vars
         PROVE  Named
    BY <2>1, <2>12 DEF RegisterEpoch, TakeInstance, InstanceExhausted, Drop, Tick, vars
  <2> QED
    BY <2>3, <2>5, <2>6, <2>7, <2>8, <2>9, <2>10, <2>11, <2>12, StepCases
<1>2. RevisionNamesState <=> [][Named]_vars
  BY DEF RevisionNamesState
<1> QED
  BY <1>1, <1>2, Invariant, PTL DEF Spec

\* Consuming a ticket frees at most its own login, and only a marked one.
THEOREM TicketsFreeTheirLogin == Spec => TicketFreesItsLogin
<1> DEFINE Frees == \A k \in tickets \ tickets', c \in Coordinators, t \in Targets :
                       leases[c][t] # NoLease /\ leases'[c][t] = NoLease
                       => /\ leases[c][t].id = k.id
                          /\ leases[c][t].state = "recovery_required"
<1>1. TypeInv /\ [Next]_vars => [Frees]_vars
  <2> SUFFICES ASSUME TypeInv, [Next]_vars PROVE Frees
    OBVIOUS
  <2>1. ASSUME tickets \subseteq tickets' PROVE Frees
    BY <2>1
  <2>2. ASSUME NEW d \in Coordinators, NEW j \in tickets, FinishStaleRecovery(d, j)
        PROVE  Frees
    <3> SUFFICES ASSUME NEW k \in tickets \ tickets', NEW c \in Coordinators, NEW t \in Targets,
                        leases[c][t] # NoLease, leases'[c][t] = NoLease
                 PROVE  leases[c][t].id = k.id /\ leases[c][t].state = "recovery_required"
      OBVIOUS
    <3>1. k = j
      BY <2>2 DEF FinishStaleRecovery
    <3>2. Confirms(d, j) /\ leases' = [leases EXCEPT ![d][j.target] = NoLease]
      BY <2>2 DEF FinishStaleRecovery
    <3>3. c = d /\ t = j.target
      BY <3>2 DEF TypeInv, TypeOK
    <3> QED
      BY <3>1, <3>2, <3>3 DEF Confirms
  <2>3. ASSUME NEW c \in Coordinators, NEW now \in 0..clock, StaleRecoveryTickets(c, now)
        PROVE  tickets \subseteq tickets'
    BY <2>3 DEF StaleRecoveryTickets
  <2>4. ASSUME \/ \E c \in Coordinators, e \in Epochs : RegisterEpoch(c, e)
               \/ \E c \in Coordinators : TakeInstance(c)
               \/ \E c \in Coordinators : InstanceExhausted(c)
               \/ \E c \in Coordinators : Drop(c)
               \/ \E c \in Coordinators, now \in 0..clock, t \in Targets, timeout \in LoginTimeouts :
                     BeginLogin(c, t, timeout, now)
        PROVE  tickets' = tickets
    BY <2>4 DEF RegisterEpoch, TakeInstance, InstanceExhausted, Drop, BeginLogin
  <2>5. ASSUME \/ \E c \in Coordinators, now \in 0..clock, h \in handles, expected \in 1..MaxRevision :
                     PublishPending(c, h, expected, now)
               \/ \E c \in Coordinators, now \in 0..clock, h \in handles, expected \in 1..MaxRevision :
                     Resume(c, h, expected, now)
               \/ \E c \in Coordinators, now \in 0..clock, h \in handles : Heartbeat(c, h, now)
               \/ \E c \in Coordinators, now \in 0..clock, h \in handles : RequestCancel(c, h, now)
               \/ \E c \in Coordinators, now \in 0..clock, h \in handles, outcome \in Outcomes :
                     Complete(c, h, outcome, now)
               \/ Tick
               \/ UNCHANGED vars
        PROVE  tickets' = tickets
    BY <2>5 DEF PublishPending, Resume, Heartbeat, RequestCancel, Complete, Tick, vars
  <2> HIDE DEF Frees
  <2> QED
    BY <2>1, <2>2, <2>3, <2>4, <2>5, StepCases
<1>2. TicketFreesItsLogin <=> [][Frees]_vars
  BY DEF TicketFreesItsLogin
<1> QED
  BY <1>1, <1>2, Invariant, PTL DEF Spec
-----------------------------------------------------------------------------
(* The refinement of ExclusiveLogin.  A slot has at most one holder, so    *)
(* the owner the refinement mapping chooses is the lease of that holder.   *)

Slots == Epochs \X Targets
Holds(c, s) == Held(c, s[2]) /\ leases[c][s[2]].id.epoch = s[1]

\* The owner of a slot is the lease whoever holds the slot holds.
SlotsAnswer ==
    \A s \in Slots :
        /\ \A c \in Coordinators : Holds(c, s) => SlotOwner(s) = leases[c][s[2]].id
        /\ (\A c \in Coordinators : ~Holds(c, s)) => SlotOwner(s) = NoLease

\* Within the invariant, no target has two logins.
LEMMA OneHolder == TypeInv /\ IInv => OneLoginPerTarget
  BY DEF IInv, OwnershipInv, OneCoordinatorPerEpoch, LeasesOfOwner, Held, Owns, OneLoginPerTarget

\* Within the invariant, the slots answer for the logins.
LEMMA HolderOwnsSlot == TypeInv /\ IInv => SlotsAnswer
<1> SUFFICES ASSUME TypeInv, IInv, NEW s \in Slots
             PROVE  /\ \A c \in Coordinators : Holds(c, s) => SlotOwner(s) = leases[c][s[2]].id
                    /\ (\A c \in Coordinators : ~Holds(c, s)) => SlotOwner(s) = NoLease
  BY DEF SlotsAnswer
<1>1. ASSUME NEW c \in Coordinators, Holds(c, s) PROVE SlotOwner(s) = leases[c][s[2]].id
  <2> DEFINE d == CHOOSE d \in Coordinators :
                     leases[d][s[2]] # NoLease /\ leases[d][s[2]].id.epoch = s[1]
  <2>1. \E e \in Coordinators : leases[e][s[2]] # NoLease /\ leases[e][s[2]].id.epoch = s[1]
    BY <1>1 DEF Holds, Held
  <2>2. d \in Coordinators /\ leases[d][s[2]] # NoLease /\ leases[d][s[2]].id.epoch = s[1]
    BY <2>1, Zenon
  <2>3. d = c
    BY <1>1, <2>2, OneHolder DEF OneLoginPerTarget, Holds, Held, Slots
  <2>4. SlotOwner(s) = leases[d][s[2]].id
    BY <2>1, Zenon DEF SlotOwner
  <2> QED
    BY <2>3, <2>4
<1>2. (\A c \in Coordinators : ~Holds(c, s)) => SlotOwner(s) = NoLease
  BY DEF SlotOwner, Holds, Held
<1> QED
  BY <1>1, <1>2

\* A slot whose holders and their lease stay the same keeps its owner.
LEMMA SlotKept ==
    ASSUME SlotsAnswer, SlotsAnswer', NEW s \in Slots,
           \A c \in Coordinators : Holds(c, s)' <=> Holds(c, s),
           \A c \in Coordinators : Holds(c, s) => leases'[c][s[2]].id = leases[c][s[2]].id
    PROVE  SlotOwner(s)' = SlotOwner(s)
<1>1. CASE \E c \in Coordinators : Holds(c, s)
  <2>1. PICK c \in Coordinators : Holds(c, s)
    BY <1>1
  <2>2. SlotOwner(s) = leases[c][s[2]].id
    BY <2>1 DEF SlotsAnswer
  <2>3. SlotOwner(s)' = leases'[c][s[2]].id
    BY <2>1 DEF SlotsAnswer
  <2> QED
    BY <2>1, <2>2, <2>3
<1>2. CASE \A c \in Coordinators : ~Holds(c, s)
  BY <1>2 DEF SlotsAnswer
<1> QED
  BY <1>1, <1>2

\* The logins that are running stay the same, whatever else is noted of them.
SameLogins ==
    \A c \in Coordinators, t \in Targets :
        /\ Held(c, t)' <=> Held(c, t)
        /\ Held(c, t) => leases'[c][t].id = leases[c][t].id

\* A step that moves no login moves no slot.
LEMMA SlotsKept ==
    ASSUME SlotsAnswer, SlotsAnswer', SameLogins
    PROVE  \A s \in Slots : SlotOwner(s)' = SlotOwner(s)
<1> SUFFICES ASSUME NEW s \in Slots PROVE SlotOwner(s)' = SlotOwner(s)
  OBVIOUS
<1>1. s[2] \in Targets
  BY DEF Slots
<1> QED
  BY <1>1, SlotKept DEF SameLogins, Holds

\* What changes one target of one coordinator leaves every other slot alone.
LEMMA OtherSlotsKept ==
    ASSUME TypeInv, IInv, IInv', SlotsAnswer, SlotsAnswer', NEW c \in Coordinators, NEW t \in Targets,
           NEW r, leases' = [leases EXCEPT ![c][t] = r], UNCHANGED process_epoch,
           NEW s \in Slots, s # <<process_epoch[c], t>>
    PROVE  SlotOwner(s)' = SlotOwner(s)
<1>1. s = <<s[1], s[2]>> /\ s[2] \in Targets
  BY DEF Slots
<1>2. ASSUME NEW d \in Coordinators, d # c \/ s[2] # t
      PROVE  leases'[d][s[2]] = leases[d][s[2]]
  BY <1>1, <1>2 DEF TypeInv, TypeOK
<1>3. ASSUME s[2] = t PROVE ~Holds(c, s) /\ ~Holds(c, s)'
  <2>1. s[1] # process_epoch[c]
    BY <1>1, <1>3
  <2> QED
    BY <1>3, <2>1 DEF IInv, OwnershipInv, LeasesOfOwner, Holds
<1>4. ASSUME NEW d \in Coordinators
      PROVE  /\ Holds(d, s)' <=> Holds(d, s)
             /\ Holds(d, s) => leases'[d][s[2]].id = leases[d][s[2]].id
  <2>1. CASE d # c \/ s[2] # t
    BY <1>2, <2>1 DEF Holds, Held
  <2>2. CASE d = c /\ s[2] = t
    BY <1>3, <2>2
  <2> QED
    BY <2>1, <2>2
<1> QED
  BY <1>4, SlotKept

\* A lease that is replaced by another record of the same login.
LEMMA SameLogin ==
    ASSUME TypeInv, NEW c \in Coordinators, NEW t \in Targets, Held(c, t),
           NEW r \in Leases, r.id = leases[c][t].id,
           leases' = [leases EXCEPT ![c][t] = r]
    PROVE  SameLogins
<1> SUFFICES ASSUME NEW d \in Coordinators, NEW u \in Targets
             PROVE  /\ Held(d, u)' <=> Held(d, u)
                    /\ Held(d, u) => leases'[d][u].id = leases[d][u].id
  BY DEF SameLogins
<1>1. leases'[d][u] = IF d = c /\ u = t THEN r ELSE leases[d][u]
  BY DEF TypeInv, TypeOK
<1> QED
  BY <1>1, NullAssumption DEF Held

\* What the operations of a running login's owner do to the logins.
LEMMA OperationsKeepLogins ==
    ASSUME TypeInv, NEW c \in Coordinators, NEW now \in 0..clock, NEW h \in handles,
           \/ \E expected \in 1..MaxRevision :
                 PublishPending(c, h, expected, now) \/ Resume(c, h, expected, now)
           \/ Heartbeat(c, h, now)
           \/ RequestCancel(c, h, now)
    PROVE  SameLogins
<1>0. now \in Nat
  BY BoundsAssumption DEF TypeInv, TypeOK, Instants
<1>1. /\ h.target \in Targets /\ Held(c, h.target)
      /\ leases[c][h.target] \in Leases
  BY ExactLease DEF TypeInv, PublishPending, Resume, Heartbeat, RequestCancel, Exact, Held
<1>2. ASSUME NEW state \in LeaseStates, HasNextRevision(leases[c][h.target]),
             leases' = [leases EXCEPT ![c][h.target] =
                           Touched(Moved(leases[c][h.target], state), now)]
      PROVE  SameLogins
  <2>1. /\ Touched(Moved(leases[c][h.target], state), now) \in Leases
        /\ Touched(Moved(leases[c][h.target], state), now).id = leases[c][h.target].id
    BY <1>0, <1>1, <1>2, NextLease
  <2> QED
    BY <1>1, <1>2, <2>1, SameLogin
<1>3. CASE \E expected \in 1..MaxRevision : PublishPending(c, h, expected, now)
  BY <1>2, <1>3 DEF PublishPending, LeaseStates
<1>4. CASE \E expected \in 1..MaxRevision : Resume(c, h, expected, now)
  BY <1>2, <1>4 DEF Resume, LeaseStates
<1>5. CASE Heartbeat(c, h, now)
  BY <1>0, <1>1, <1>5, TouchedLease, SameLogin DEF Heartbeat
<1>6. CASE RequestCancel(c, h, now)
  BY <1>2, <1>6 DEF RequestCancel, CancelledRecord, LeaseStates
<1> QED
  BY <1>3, <1>4, <1>5, <1>6

\* The sweep of stale tickets moves no login.
LEMMA SweepKeepsLogins ==
    ASSUME TypeInv, NEW c \in Coordinators, NEW now \in 0..clock, StaleRecoveryTickets(c, now)
    PROVE  SameLogins
<1> SUFFICES ASSUME NEW d \in Coordinators, NEW u \in Targets
             PROVE  /\ Held(d, u)' <=> Held(d, u)
                    /\ Held(d, u) => leases'[d][u].id = leases[d][u].id
  BY DEF SameLogins
<1>1. CASE d = c /\ u \in Due(c, now)
  <2>1. leases'[c][u] = Moved(leases[c][u], "recovery_required")
    BY <1>1 DEF StaleRecoveryTickets, TypeInv, TypeOK
  <2>2. leases[c][u] \in Leases /\ leases[c][u] # NoLease /\ HasNextRevision(leases[c][u])
    BY <1>1 DEF StaleRecoveryTickets, Due, Unmarked, Occupied, TypeInv, TypeOK
  <2> QED
    BY <1>1, <2>1, <2>2, MovedLease, NullAssumption DEF Held, LeaseStates
<1>2. CASE ~(d = c /\ u \in Due(c, now))
  <2>1. leases'[d][u] = leases[d][u]
    BY <1>2 DEF StaleRecoveryTickets, TypeInv, TypeOK
  <2> QED
    BY <2>1 DEF Held
<1> QED
  BY <1>1, <1>2

\* The login that holds a target owns the slot of its coordinator's epoch.
LEMMA HeldSlot ==
    ASSUME TypeInv, IInv, SlotsAnswer, NEW c \in Coordinators, NEW t \in Targets, Held(c, t)
    PROVE  /\ <<process_epoch[c], t>> \in Slots
           /\ leases[c][t].id \in LeaseIds
           /\ SlotOwner(<<process_epoch[c], t>>) = leases[c][t].id
<1>1. leases[c][t] \in Leases /\ leases[c][t].id.epoch = process_epoch[c]
  BY DEF TypeInv, TypeOK, Held, IInv, OwnershipInv, LeasesOfOwner
<1>2. leases[c][t].id \in LeaseIds /\ process_epoch[c] \in Epochs
  BY <1>1 DEF Leases, LeaseIds
<1> DEFINE s == <<process_epoch[c], t>>
<1>3. s \in Slots /\ s[1] = process_epoch[c] /\ s[2] = t
  BY <1>2 DEF Slots
<1>4. Holds(c, s)
  BY <1>1, <1>3 DEF Holds
<1> HIDE DEF s
<1>5. SlotOwner(s) = leases[c][t].id
  BY <1>3, <1>4 DEF SlotsAnswer
<1> QED
  BY <1>2, <1>3, <1>5 DEF s

\* A slot whose coordinator does not hold the target has no owner.
LEMMA FreeSlot ==
    ASSUME IInv, SlotsAnswer, NEW c \in Coordinators, phase[c] # "absent",
           NEW t \in Targets, ~Held(c, t), <<process_epoch[c], t>> \in Slots
    PROVE  SlotOwner(<<process_epoch[c], t>>) = NoLease
<1> DEFINE s == <<process_epoch[c], t>>
<1>1. s[1] = process_epoch[c] /\ s[2] = t /\ s \in Slots
  OBVIOUS
<1> HIDE DEF s
<1>2. ASSUME NEW d \in Coordinators PROVE ~Holds(d, s)
  BY <1>1, <1>2
  DEF Holds, IInv, OwnershipInv, LeasesOfOwner, OneCoordinatorPerEpoch, Owns
<1>3. SlotOwner(s) = NoLease
  BY <1>1, <1>2 DEF SlotsAnswer
<1> QED
  BY <1>3 DEF s

SlotOwners == [s \in Slots |-> SlotOwner(s)]
Admitted == {h.id : h \in handles}

\* A step that moves no login keeps the owners of the slots.
LEMMA OwnersKept ==
    ASSUME SlotsAnswer, SlotsAnswer', SameLogins
    PROVE  SlotOwners' = SlotOwners
  BY SlotsKept DEF SlotOwners

\* A login that begins is admitted to the free slot of its epoch and target.
LEMMA BeginAdmits ==
    ASSUME TypeInv, IInv, IInv', SlotsAnswer, SlotsAnswer',
           NEW c \in Coordinators, NEW now \in 0..clock, NEW t \in Targets,
           NEW timeout \in LoginTimeouts, BeginLogin(c, t, timeout, now)
    PROVE  Exclusive!Next
<1>1. now \in Nat /\ timeout \in Nat /\ phase[c] = "live"
  BY BoundsAssumption DEF TypeInv, TypeOK, Instants, BeginLogin
<1>2. PICK id \in LeaseIds : id = NewLeaseId(c)
  BY <1>1, NewLease DEF TypeInv, LiveIdentity
<1>3. PICK r \in Leases : r = [id |-> id, revision |-> 1, state |-> "running",
                               last_activity |-> now, deadline |-> now + timeout]
  BY <1>1, <1>2, NewLease DEF TypeInv, LiveIdentity
<1>4. PICK s \in Slots : s = <<process_epoch[c], t>>
  BY <1>1 DEF Slots, TypeInv, LiveIdentity
<1>5. /\ leases' = [leases EXCEPT ![c][t] = r]
      /\ UNCHANGED <<process_epoch, cancelled, ticketed, succeeded>>
      /\ handles' = handles \cup {[id |-> id, target |-> t]}
      /\ ~Held(c, t)
  BY <1>2, <1>3 DEF BeginLogin, Admits, Held, identity, history
<1>6. SlotOwner(s) = NoLease
  BY <1>1, <1>4, <1>5, FreeSlot
<1>7. SlotOwner(s)' = id
  <2>1. leases'[c][t] = r /\ r.id = id /\ r # NoLease
    BY <1>3, <1>5, NullAssumption DEF TypeInv, TypeOK
  <2>2. s[1] = id.epoch /\ s[2] = t
    BY <1>2, <1>4 DEF NewLeaseId, LeaseIdOf
  <2>3. Holds(c, s)'
    BY <2>1, <2>2 DEF Holds, Held
  <2>4. SlotOwner(s)' = leases'[c][s[2]].id
    BY <2>3 DEF SlotsAnswer
  <2> QED
    BY <2>1, <2>2, <2>4
<1>8. \A u \in Slots : u # s => SlotOwner(u)' = SlotOwner(u)
  BY <1>4, <1>5, OtherSlotsKept
<1>9. SlotOwners' = [SlotOwners EXCEPT ![s] = id]
  BY <1>7, <1>8 DEF SlotOwners
<1>10. id \notin Admitted
  BY <1>1, <1>2, NextIdIsFresh DEF Admitted, IInv
<1>11. Admitted' = Admitted \cup {id}
  <2>1. [id |-> id, target |-> t].id = id
    OBVIOUS
  <2> QED
    BY <1>5, <2>1 DEF Admitted
<1>12. SlotOwners[s] = NoLease
  BY <1>6 DEF SlotOwners
<1>13. Exclusive!Admit(s, id)
  BY <1>5, <1>9, <1>10, <1>11, <1>12 DEF Exclusive!Admit, SlotOwners, Admitted, Slots
<1> QED
  BY <1>13 DEF Exclusive!Next, Slots

\* The end of a login frees its slot.
LEMMA EndFreesSlot ==
    ASSUME TypeInv, IInv, IInv', SlotsAnswer, SlotsAnswer',
           NEW c \in Coordinators, NEW t \in Targets, Held(c, t),
           leases' = [leases EXCEPT ![c][t] = NoLease], UNCHANGED identity
    PROVE  \E s \in Slots : /\ SlotOwners[s] = leases[c][t].id
                            /\ SlotOwners' = [SlotOwners EXCEPT ![s] = NoLease]
<1>1. PICK s \in Slots : s = <<process_epoch[c], t>> /\ SlotOwner(s) = leases[c][t].id
  BY HeldSlot
<1>2. SlotOwner(s)' = NoLease
  <2>1. s[1] = process_epoch[c] /\ s[2] = t
    BY <1>1
  <2>2. Holds(c, s)
    BY <2>1 DEF Holds, IInv, OwnershipInv, LeasesOfOwner
  <2>3. ASSUME NEW d \in Coordinators PROVE ~Holds(d, s)'
    <3>1. CASE d = c
      BY <2>1, <3>1 DEF Holds, Held, TypeInv, TypeOK
    <3>2. CASE d # c
      <4>1. leases'[d][t] = leases[d][t]
        BY <3>2 DEF TypeInv, TypeOK
      <4>2. ~Holds(d, s)
        BY <2>1, <2>2, <3>2, OneHolder DEF Holds, Held, OneLoginPerTarget
      <4> QED
        BY <2>1, <4>1, <4>2 DEF Holds, Held
    <3> QED
      BY <3>1, <3>2
  <2> QED
    BY <2>3 DEF SlotsAnswer
<1>3. \A u \in Slots : u # s => SlotOwner(u)' = SlotOwner(u)
  BY <1>1, OtherSlotsKept DEF identity
<1>4. SlotOwners[s] = leases[c][t].id
  BY <1>1 DEF SlotOwners
<1>5. SlotOwners' = [SlotOwners EXCEPT ![s] = NoLease]
  BY <1>2, <1>3 DEF SlotOwners
<1> QED
  BY <1>4, <1>5

\* Every step of the coordinators is a step of ExclusiveLogin, or none.
LEMMA StepRefines ==
    ASSUME TypeInv, IInv, TypeInv', IInv', [Next]_vars
    PROVE  [Exclusive!Next]_(Exclusive!elVars)
<1>1. SlotsAnswer /\ SlotsAnswer'
  <2>1. TypeInv /\ IInv => SlotsAnswer
    BY HolderOwnsSlot
  <2>2. (TypeInv /\ IInv => SlotsAnswer)'
    BY HolderOwnsSlot, PTL
  <2> QED
    BY <2>1, <2>2
<1>2. ASSUME SlotOwners' = SlotOwners, UNCHANGED <<handles, cancelled, ticketed, succeeded>>
      PROVE  UNCHANGED Exclusive!elVars
  BY <1>2 DEF Exclusive!elVars, SlotOwners, Slots
<1>3. ASSUME UNCHANGED leases PROVE SlotOwners' = SlotOwners
  BY <1>1, <1>3, OwnersKept DEF SameLogins, Held
\* The logins named by a cancellation or a sweep are running ones.
<1>4. ASSUME SameLogins, UNCHANGED <<handles, succeeded>>,
             cancelled \cup ticketed \subseteq cancelled' \cup ticketed',
             \A id \in (cancelled' \cup ticketed') \ (cancelled \cup ticketed) :
                \E c \in Coordinators, t \in Targets : Held(c, t) /\ leases[c][t].id = id
      PROVE  Exclusive!Next
  <2>1. SlotOwners' = SlotOwners
    BY <1>1, <1>4, OwnersKept
  <2>2. \A id \in (cancelled' \cup ticketed') \ (cancelled \cup ticketed) :
           \E s \in Slots : SlotOwners[s] = id
    <3>1. ASSUME NEW c \in Coordinators, NEW t \in Targets, Held(c, t)
          PROVE  \E s \in Slots : SlotOwners[s] = leases[c][t].id
      BY <1>1, <3>1, HeldSlot DEF SlotOwners
    <3> QED
      BY <1>4, <3>1
  <2>3. Exclusive!Doom
    BY <1>4, <2>1, <2>2 DEF Exclusive!Doom, SlotOwners, Slots
  <2> QED
    BY <2>3 DEF Exclusive!Next
\* The end of a login, as a success or not.
<1>5. ASSUME NEW c \in Coordinators, NEW t \in Targets, Held(c, t),
             leases' = [leases EXCEPT ![c][t] = NoLease],
             UNCHANGED <<identity, handles, cancelled, ticketed>>,
             \/ UNCHANGED succeeded
             \/ /\ succeeded' = succeeded \cup {leases[c][t].id}
                /\ leases[c][t].id \notin cancelled \cup ticketed
      PROVE  Exclusive!Next
  <2>1. PICK s \in Slots : /\ SlotOwners[s] = leases[c][t].id
                           /\ SlotOwners' = [SlotOwners EXCEPT ![s] = NoLease]
    BY <1>1, <1>5, EndFreesSlot
  <2>2. leases[c][t].id # NoLease
    BY <1>1, <1>5, HeldSlot, NullAssumption
  <2>3. CASE UNCHANGED succeeded
    <3>1. Exclusive!GiveUp(s)
      BY <1>5, <2>1, <2>2, <2>3 DEF Exclusive!GiveUp, SlotOwners, Slots
    <3> QED
      BY <3>1 DEF Exclusive!Next, Slots
  <2>4. CASE /\ succeeded' = succeeded \cup {leases[c][t].id}
             /\ leases[c][t].id \notin cancelled \cup ticketed
    <3>1. Exclusive!Succeed(s)
      BY <1>5, <2>1, <2>2, <2>4 DEF Exclusive!Succeed, SlotOwners, Slots
    <3> QED
      BY <3>1 DEF Exclusive!Next, Slots
  <2> QED
    BY <1>5, <2>3, <2>4
<1>6. ASSUME \/ \E c \in Coordinators, e \in Epochs : RegisterEpoch(c, e)
             \/ \E c \in Coordinators : TakeInstance(c)
             \/ \E c \in Coordinators : InstanceExhausted(c)
             \/ \E c \in Coordinators : Drop(c)
             \/ Tick
             \/ UNCHANGED vars
      PROVE  UNCHANGED Exclusive!elVars
  <2>1. UNCHANGED <<leases, handles, cancelled, ticketed, succeeded>>
    BY <1>6 DEF RegisterEpoch, TakeInstance, InstanceExhausted, Drop, Tick, vars, history
  <2> QED
    BY <1>2, <1>3, <2>1
<1>7. ASSUME NEW c \in Coordinators, NEW now \in 0..clock, NEW h \in handles,
             \/ \E expected \in 1..MaxRevision :
                   PublishPending(c, h, expected, now) \/ Resume(c, h, expected, now)
             \/ Heartbeat(c, h, now)
      PROVE  UNCHANGED Exclusive!elVars
  <2>1. SameLogins
    BY <1>7, OperationsKeepLogins
  <2>2. UNCHANGED <<handles, cancelled, ticketed, succeeded>>
    BY <1>7 DEF PublishPending, Resume, Heartbeat, history
  <2> QED
    BY <1>1, <1>2, <2>1, <2>2, OwnersKept
<1>8. ASSUME NEW c \in Coordinators, NEW now \in 0..clock, NEW h \in handles,
             RequestCancel(c, h, now)
      PROVE  Exclusive!Next
  <2>1. SameLogins
    BY <1>8, OperationsKeepLogins
  <2>2. /\ UNCHANGED <<handles, ticketed, succeeded>> /\ cancelled' = cancelled \cup {h.id}
        /\ h.target \in Targets /\ Held(c, h.target) /\ leases[c][h.target].id = h.id
    BY <1>8, ExactLease DEF RequestCancel, Exact, Held, TypeInv
  <2> QED
    BY <1>4, <2>1, <2>2
<1>9. ASSUME NEW c \in Coordinators, NEW now \in 0..clock, NEW h \in handles,
             NEW outcome \in Outcomes, Complete(c, h, outcome, now)
      PROVE  Exclusive!Next
  <2>1. /\ h.target \in Targets /\ Held(c, h.target) /\ leases[c][h.target].id = h.id
        /\ leases' = [leases EXCEPT ![c][h.target] = NoLease]
        /\ UNCHANGED <<identity, handles, cancelled, ticketed>>
    BY <1>9, ExactLease DEF Complete, Exact, Held, TypeInv
  <2>2. CASE outcome = "succeeded"
    <3>1. leases[c][h.target].state \notin {"cancelling", "recovery_required"}
      BY <1>9, <2>2 DEF Complete, MaySucceed
    <3>2. h.id \notin cancelled \cup ticketed
      BY <2>1, <3>1 DEF IInv, HistoryInv, AbortedAreMarked, Aborted
    <3>3. succeeded' = succeeded \cup {h.id}
      BY <1>9, <2>2 DEF Complete
    <3> QED
      BY <1>5, <2>1, <3>2, <3>3
  <2>3. CASE outcome # "succeeded"
    BY <1>5, <1>9, <2>1, <2>3 DEF Complete
  <2> QED
    BY <2>2, <2>3
<1>10. ASSUME NEW c \in Coordinators, NEW now \in 0..clock, StaleRecoveryTickets(c, now)
       PROVE  Exclusive!Next
  <2>1. SameLogins
    BY <1>10, SweepKeepsLogins
  <2>2. /\ UNCHANGED <<handles, cancelled, succeeded>>
        /\ ticketed' = ticketed \cup {leases[c][t].id : t \in Due(c, now)}
    BY <1>10 DEF StaleRecoveryTickets
  <2>3. \A t \in Due(c, now) : t \in Targets /\ Held(c, t)
    BY DEF Due, Unmarked, Occupied, Held
  <2> QED
    BY <1>4, <2>1, <2>2, <2>3
<1>11. ASSUME NEW c \in Coordinators, NEW k \in tickets, FinishStaleRecovery(c, k)
       PROVE  [Exclusive!Next]_(Exclusive!elVars)
  <2>1. UNCHANGED <<identity, handles, cancelled, ticketed, succeeded>> /\ k.target \in Targets
    BY <1>11 DEF FinishStaleRecovery, history, TypeInv, TypeOK, Tickets
  <2>2. CASE Confirms(c, k)
    <3>1. leases' = [leases EXCEPT ![c][k.target] = NoLease] /\ Held(c, k.target)
      BY <1>11, <2>2 DEF FinishStaleRecovery, Confirms, Held
    <3> QED
      BY <1>5, <2>1, <3>1
  <2>3. CASE ~Confirms(c, k)
    BY <1>2, <1>3, <1>11, <2>1, <2>3 DEF FinishStaleRecovery
  <2> QED
    BY <2>2, <2>3
<1>12. ASSUME NEW c \in Coordinators, NEW now \in 0..clock, NEW t \in Targets,
              NEW timeout \in LoginTimeouts, BeginLogin(c, t, timeout, now)
       PROVE  Exclusive!Next
  BY <1>1, <1>12, BeginAdmits
<1> QED
  BY <1>6, <1>7, <1>8, <1>9, <1>10, <1>11, <1>12, StepCases

\* The initial states map to initial states.
LEMMA InitRefines == Init => Exclusive!Init
<1> SUFFICES ASSUME Init PROVE Exclusive!Init
  OBVIOUS
<1>1. \A s \in Epochs \X Targets : SlotOwner(s) = NoLease
  BY DEF Init, SlotOwner
<1>2. {h.id : h \in handles} = {} /\ cancelled \cup ticketed = {} /\ succeeded = {}
  BY DEF Init
<1> QED
  BY <1>1, <1>2 DEF Exclusive!Init

\* Every behaviour of the coordinators is one of ExclusiveLogin: whatever
\* begin_login, request_cancel, complete and the recovery sweeps do in whatever
\* order, a target of an epoch has one login at a time, each with an identity of
\* its own, and one that was told to stop never ends as a success.
THEOREM Implementation == Spec => ImplementsExclusiveLogin
<1>1. (TypeInv /\ IInv) /\ (TypeInv /\ IInv)' /\ [Next]_vars
      => [Exclusive!Next]_(Exclusive!elVars)
  BY StepRefines
<1>2. Init => Exclusive!Init
  BY InitRefines
<1> QED
  BY <1>1, <1>2, Invariant, PTL DEF Spec, ImplementsExclusiveLogin, Exclusive!Spec
=============================================================================
