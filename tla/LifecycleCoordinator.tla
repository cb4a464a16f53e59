------------------------ MODULE LifecycleCoordinator ------------------------
(***************************************************************************)
(* The process-local coordinator of interactive logins                     *)
(* (src/tool-runtime-core/src/credential_lifecycle_coordinator.rs).        *)
(*                                                                         *)
(* A coordinator owns one process epoch and keeps, under one mutex, a map  *)
(* from login target to the lease of the login that occupies it.  Every    *)
(* operation is one critical section, so it is one action here.  What is   *)
(* not atomic is the time: callers sample `now` before they take the lock, *)
(* so an operation may run with any instant that has already passed.       *)
(* An operation the code refuses leaves the state as it is, and is not     *)
(* shown.  The invalidation of the status cache inside begin_login is the  *)
(* subject of AuthStatus, which composes this module with StatusCache.     *)
(***************************************************************************)
EXTENDS Integers, FiniteSets

CONSTANTS
    Coordinators,   \* places for coordinator objects of the process
    Epochs,         \* process epochs a coordinator may be created for
    Targets,        \* login targets: a profile, or an implicit binding
    LoginTimeouts,  \* timeouts a login plan may declare
    IdleTimeout,
    MaxLeases,      \* MAX_ACTIVE_CREDENTIAL_LIFECYCLE_LEASES
    MaxEpochs,      \* MAX_REGISTERED_CREDENTIAL_LIFECYCLE_EPOCHS
    MaxRevision,    \* u64::MAX of a lease revision
    MaxSequence,    \* u64::MAX of the lease sequence
    MaxInstance,    \* u64::MAX of the coordinator instance counter
    MaxClock,       \* bound of the model: the last instant
    NoLease, NoEpoch

Instants == 0..MaxClock
LeaseIds == [epoch : Epochs, instance : 1..MaxInstance, sequence : 1..MaxSequence]
LeaseStates == {"running", "pending", "cancelling", "recovery_required"}
Leases ==
    [id : LeaseIds, revision : 1..MaxRevision, state : LeaseStates,
     last_activity : Nat, deadline : Nat]
Handles == [id : LeaseIds, target : Targets]
Tickets == [id : LeaseIds, target : Targets, revision : 1..MaxRevision]
Outcomes == {"succeeded", "cancelled", "timed_out", "process_failed"}

ASSUME BoundsAssumption ==
    /\ LoginTimeouts \subseteq Nat \ {0}
    /\ IdleTimeout \in Nat \ {0}
    /\ MaxLeases \in Nat \ {0}
    /\ MaxEpochs \in Nat \ {0}
    /\ MaxRevision \in Nat \ {0}
    /\ MaxSequence \in Nat \ {0}
    /\ MaxInstance \in Nat \ {0}
    /\ MaxClock \in Nat

ASSUME NullAssumption ==
    /\ NoLease \notin Leases \cup LeaseIds
    /\ NoEpoch \notin Epochs
    /\ IsFiniteSet(Targets)

VARIABLES
    clock,          \* the monotonic clock
    active_epochs,  \* ACTIVE_COORDINATOR_EPOCHS
    next_instance,  \* NEXT_COORDINATOR_INSTANCE
    phase,          \* coordinator -> absent, registered, live or abandoned
    process_epoch,  \* coordinator -> the epoch it was created for
    instance,       \* coordinator -> coordinator_instance
    next_sequence,  \* coordinator -> next_sequence
    leases,         \* coordinator -> target -> lease record or NoLease
    handles,        \* the leases handed to login owners
    tickets,        \* the stale-recovery tickets nobody has consumed yet
    ticketed,       \* history: logins a ticket was ever issued for
    cancelled,      \* history: logins whose cancellation was requested
    succeeded       \* history: logins that completed as a success

registry == <<active_epochs, next_instance>>
identity == <<phase, process_epoch, instance>>
history == <<ticketed, cancelled, succeeded>>
vars == <<clock, registry, identity, next_sequence, leases, handles, tickets, history>>

Init ==
    /\ clock = 0
    /\ active_epochs = {}
    /\ next_instance = 1
    /\ phase = [c \in Coordinators |-> "absent"]
    /\ process_epoch = [c \in Coordinators |-> NoEpoch]
    /\ instance = [c \in Coordinators |-> 0]
    /\ next_sequence = [c \in Coordinators |-> 0]
    /\ leases = [c \in Coordinators |-> [t \in Targets |-> NoLease]]
    /\ handles = {}
    /\ tickets = {}
    /\ ticketed = {}
    /\ cancelled = {}
    /\ succeeded = {}

-----------------------------------------------------------------------------
(* Helpers of the operations.                                              *)

Occupied(c) == {t \in Targets : leases[c][t] # NoLease}

LeaseIdOf(c) ==
    [epoch |-> process_epoch[c], instance |-> instance[c], sequence |-> next_sequence[c]]

NewLeaseId(c) == LeaseIdOf(c)

\* exact_record: the lease a handle stands for, if it is still in the map.
Exact(c, h) ==
    /\ leases[c][h.target] # NoLease
    /\ leases[c][h.target].id = h.id

StaleReason(r, now) ==
    CASE now < r.last_activity -> "clock_regression"
      [] now >= r.last_activity /\ now >= r.deadline -> "deadline"
      [] now >= r.last_activity /\ now < r.deadline /\ now - r.last_activity >= IdleTimeout -> "idle"
      [] OTHER -> "none"

EnsureLive(r, now) == StaleReason(r, now) = "none"

HasNextRevision(r) == r.revision < MaxRevision

\* A state change: the new state, under the next revision.
Moved(r, state) == [r EXCEPT !.revision = @ + 1, !.state = state]
Touched(r, now) == [r EXCEPT !.last_activity = now]

\* request_cancel that forgets to advance the revision.
CancelledInPlace(r, now) == [r EXCEPT !.state = "cancelling", !.last_activity = now]
CancelledRecord(r, now) == Touched(Moved(r, "cancelling"), now)

-----------------------------------------------------------------------------
(* Construction and drop.  `new` registers the epoch under the registry's  *)
(* lock, releases it, and only then takes an instance number.              *)

RegisterEpoch(c, e) ==
    /\ phase[c] = "absent"
    /\ e \notin active_epochs
    /\ Cardinality(active_epochs) < MaxEpochs
    /\ active_epochs' = active_epochs \cup {e}
    /\ phase' = [phase EXCEPT ![c] = "registered"]
    /\ process_epoch' = [process_epoch EXCEPT ![c] = e]
    /\ UNCHANGED <<clock, next_instance, instance, next_sequence, leases, handles, tickets, history>>

TakeInstance(c) ==
    /\ phase[c] = "registered"
    /\ next_instance < MaxInstance
    /\ instance' = [instance EXCEPT ![c] = next_instance]
    /\ next_instance' = next_instance + 1
    /\ phase' = [phase EXCEPT ![c] = "live"]
    /\ next_sequence' = [next_sequence EXCEPT ![c] = 1]
    /\ UNCHANGED <<clock, active_epochs, process_epoch, leases, handles, tickets, history>>

\* The instance counter is exhausted: the epoch is given back.
InstanceExhausted(c) ==
    /\ phase[c] = "registered"
    /\ next_instance >= MaxInstance
    /\ active_epochs' = active_epochs \ {process_epoch[c]}
    /\ phase' = [phase EXCEPT ![c] = "absent"]
    /\ process_epoch' = [process_epoch EXCEPT ![c] = NoEpoch]
    /\ UNCHANGED <<clock, next_instance, instance, next_sequence, leases, handles, tickets, history>>

\* A drop that gives the epoch back whatever is still running.
UnregisterAlways(c) == TRUE
UnregistersOnDrop(c) == Occupied(c) = {}

\* A coordinator dropped with leases keeps its epoch registered for ever;
\* the leases stay in `leases[c]` as the record of logins nobody confirmed.
Drop(c) ==
    /\ phase[c] = "live"
    /\ active_epochs' =
          IF UnregistersOnDrop(c) THEN active_epochs \ {process_epoch[c]} ELSE active_epochs
    /\ IF Occupied(c) = {}
       THEN /\ phase' = [phase EXCEPT ![c] = "absent"]
            /\ process_epoch' = [process_epoch EXCEPT ![c] = NoEpoch]
            /\ instance' = [instance EXCEPT ![c] = 0]
            /\ next_sequence' = [next_sequence EXCEPT ![c] = 0]
       ELSE /\ phase' = [phase EXCEPT ![c] = "abandoned"]
            /\ UNCHANGED <<process_epoch, instance, next_sequence>>
    /\ UNCHANGED <<clock, next_instance, leases, handles, tickets, history>>

-----------------------------------------------------------------------------
(* The operations of a login's owner.                                      *)

\* begin_login that replaces the lease of an occupied target.
AdmitsAny(c, t) == t \in Occupied(c) \/ Cardinality(Occupied(c)) < MaxLeases
Admits(c, t) ==
    /\ leases[c][t] = NoLease
    /\ Cardinality(Occupied(c)) < MaxLeases

BeginLogin(c, t, timeout, now) ==
    /\ phase[c] = "live"
    /\ Admits(c, t)
    /\ next_sequence[c] < MaxSequence
    /\ next_sequence' = [next_sequence EXCEPT ![c] = @ + 1]
    /\ leases' = [leases EXCEPT ![c][t] =
          [id |-> NewLeaseId(c), revision |-> 1, state |-> "running",
           last_activity |-> now, deadline |-> now + timeout]]
    /\ handles' = handles \cup {[id |-> NewLeaseId(c), target |-> t]}
    /\ UNCHANGED <<clock, registry, identity, tickets, history>>

PublishPending(c, h, expected, now) ==
    LET r == leases[c][h.target] IN
    /\ phase[c] = "live"
    /\ Exact(c, h)
    /\ EnsureLive(r, now)
    /\ r.revision = expected
    /\ r.state \in {"running", "pending"}
    /\ HasNextRevision(r)
    /\ leases' = [leases EXCEPT ![c][h.target] = Touched(Moved(r, "pending"), now)]
    /\ UNCHANGED <<clock, registry, identity, next_sequence, handles, tickets, history>>

Resume(c, h, expected, now) ==
    LET r == leases[c][h.target] IN
    /\ phase[c] = "live"
    /\ Exact(c, h)
    /\ EnsureLive(r, now)
    /\ r.revision = expected
    /\ r.state = "pending"
    /\ HasNextRevision(r)
    /\ leases' = [leases EXCEPT ![c][h.target] = Touched(Moved(r, "running"), now)]
    /\ UNCHANGED <<clock, registry, identity, next_sequence, handles, tickets, history>>

Heartbeat(c, h, now) ==
    LET r == leases[c][h.target] IN
    /\ phase[c] = "live"
    /\ Exact(c, h)
    /\ EnsureLive(r, now)
    /\ r.state \in {"running", "pending"}
    /\ leases' = [leases EXCEPT ![c][h.target] = Touched(r, now)]
    /\ UNCHANGED <<clock, registry, identity, next_sequence, handles, tickets, history>>

\* A repeated request changes nothing.  Nothing here asks whether the lease
\* has already been marked for recovery.
RequestCancel(c, h, now) ==
    LET r == leases[c][h.target] IN
    /\ phase[c] = "live"
    /\ Exact(c, h)
    /\ EnsureLive(r, now)
    /\ r.state # "cancelling"
    /\ HasNextRevision(r)
    /\ leases' = [leases EXCEPT ![c][h.target] = CancelledRecord(r, now)]
    /\ cancelled' = cancelled \cup {h.id}
    /\ UNCHANGED <<clock, registry, identity, next_sequence, handles, tickets, ticketed, succeeded>>

\* complete that lets a cancelled login still report success.
MaySucceedIfLive(r, now) == EnsureLive(r, now)
MaySucceed(r, now) == EnsureLive(r, now) /\ r.state # "cancelling"

Complete(c, h, outcome, now) ==
    LET r == leases[c][h.target] IN
    /\ phase[c] = "live"
    /\ Exact(c, h)
    /\ r.state # "recovery_required"
    /\ outcome = "succeeded" => MaySucceed(r, now)
    /\ leases' = [leases EXCEPT ![c][h.target] = NoLease]
    /\ succeeded' = IF outcome = "succeeded" THEN succeeded \cup {h.id} ELSE succeeded
    /\ UNCHANGED <<clock, registry, identity, next_sequence, handles, tickets, ticketed, cancelled>>

-----------------------------------------------------------------------------
(* Stale recovery.                                                         *)

\* The leases a sweep looks at, and those it finds stale.
Unmarked(c) == {t \in Occupied(c) : leases[c][t].state # "recovery_required"}
Due(c, now) == {t \in Unmarked(c) : StaleReason(leases[c][t], now) \in {"deadline", "idle"}}

\* One sweep marks every due lease, or, if the clock of any lease runs
\* backwards or a revision is exhausted, none of them.
StaleRecoveryTickets(c, now) ==
    LET due == Due(c, now) IN
    /\ phase[c] = "live"
    /\ due # {}
    /\ \A t \in Unmarked(c) : StaleReason(leases[c][t], now) # "clock_regression"
    /\ \A t \in due : HasNextRevision(leases[c][t])
    /\ leases' = [leases EXCEPT ![c] =
          [t \in Targets |->
             IF t \in due THEN Moved(leases[c][t], "recovery_required") ELSE leases[c][t]]]
    /\ tickets' = tickets \cup
          {[id |-> leases[c][t].id, target |-> t, revision |-> leases[c][t].revision + 1] : t \in due}
    /\ ticketed' = ticketed \cup {leases[c][t].id : t \in due}
    /\ UNCHANGED <<clock, registry, identity, next_sequence, handles, cancelled, succeeded>>

\* finish_stale_recovery that trusts target and revision alone.
ConfirmsAnyLease(c, k) ==
    /\ leases[c][k.target] # NoLease
    /\ leases[c][k.target].revision = k.revision
    /\ leases[c][k.target].state = "recovery_required"
Confirms(c, k) ==
    /\ leases[c][k.target] # NoLease
    /\ leases[c][k.target].id = k.id
    /\ leases[c][k.target].revision = k.revision
    /\ leases[c][k.target].state = "recovery_required"

\* The ticket is consumed by the call, also by one that is refused.
FinishStaleRecovery(c, k) ==
    /\ phase[c] = "live"
    /\ tickets' = tickets \ {k}
    /\ leases' = IF Confirms(c, k) THEN [leases EXCEPT ![c][k.target] = NoLease] ELSE leases
    /\ UNCHANGED <<clock, registry, identity, next_sequence, handles, history>>

Tick ==
    /\ clock < MaxClock
    /\ clock' = clock + 1
    /\ UNCHANGED <<registry, identity, next_sequence, leases, handles, tickets, history>>

-----------------------------------------------------------------------------

Lifetime(c) ==
    \/ \E e \in Epochs : RegisterEpoch(c, e)
    \/ TakeInstance(c)
    \/ InstanceExhausted(c)
    \/ Drop(c)

Owner(c) ==
    \E now \in 0..clock :
       \/ \E t \in Targets, timeout \in LoginTimeouts : BeginLogin(c, t, timeout, now)
       \/ \E h \in handles :
             \/ \E expected \in 1..MaxRevision :
                   PublishPending(c, h, expected, now) \/ Resume(c, h, expected, now)
             \/ Heartbeat(c, h, now)
             \/ RequestCancel(c, h, now)
             \/ \E outcome \in Outcomes : Complete(c, h, outcome, now)

Recovery(c) ==
    \/ \E now \in 0..clock : StaleRecoveryTickets(c, now)
    \/ \E k \in tickets : FinishStaleRecovery(c, k)

Next ==
    \/ \E c \in Coordinators : Lifetime(c) \/ Owner(c) \/ Recovery(c)
    \/ Tick

Spec == Init /\ [][Next]_vars
-----------------------------------------------------------------------------
(* Properties.                                                             *)

\* The variables stay in their domains; in particular the revision, sequence
\* and instance counters stop at the limit of their type and never wrap.
TypeOK ==
    /\ clock \in Instants
    /\ active_epochs \subseteq Epochs
    /\ next_instance \in 1..MaxInstance
    /\ phase \in [Coordinators -> {"absent", "registered", "live", "abandoned"}]
    /\ process_epoch \in [Coordinators -> Epochs \cup {NoEpoch}]
    /\ instance \in [Coordinators -> 0..MaxInstance]
    /\ next_sequence \in [Coordinators -> 0..MaxSequence]
    /\ leases \in [Coordinators -> [Targets -> Leases \cup {NoLease}]]
    /\ handles \subseteq Handles
    /\ tickets \subseteq Tickets
    /\ ticketed \subseteq LeaseIds
    /\ cancelled \subseteq LeaseIds
    /\ succeeded \subseteq LeaseIds

\* One login per epoch and target, across every coordinator the process has
\* had: an epoch whose coordinator was dropped while logins were running is
\* never given to a second coordinator, whose map would be empty (the
\* single-owner registry of `new`, and the Drop that keeps the epoch).
OneLoginPerTarget ==
    \A c, d \in Coordinators, t \in Targets :
        /\ leases[c][t] # NoLease
        /\ leases[d][t] # NoLease
        /\ leases[c][t].id.epoch = leases[d][t].id.epoch
        => c = d

\* A login is admitted under an identity no earlier login had, whichever
\* coordinator admitted it.  This is what makes a forgotten handle or ticket
\* harmless: exact_record and finish_stale_recovery compare identities only.
FreshLeaseId ==
    [][\A c \in Coordinators, t \in Targets :
          leases[c][t] = NoLease /\ leases'[c][t] # NoLease
          => \A h \in handles : h.id # leases'[c][t].id]_vars

\* A login whose cancellation was requested, or that a sweep found stale,
\* never completes as a success, however late and in whatever order its
\* owner's calls arrive (complete's checks against the other operations).
NoSuccessAfterAbort == succeeded \cap (cancelled \cup ticketed) = {}

\* A revision names one state of a lease: whoever sees the revision it
\* expects (publish_pending, resume, finish_stale_recovery) sees the state
\* that revision was handed out with.
RevisionNamesState ==
    [][\A c \in Coordinators, t \in Targets :
          leases[c][t] # NoLease /\ leases'[c][t] # NoLease /\ leases'[c][t].id = leases[c][t].id
          => \/ leases'[c][t].revision > leases[c][t].revision
             \/ /\ leases'[c][t].revision = leases[c][t].revision
                /\ leases'[c][t].state = leases[c][t].state]_vars

\* Consuming a ticket frees at most the login it was issued for, and only
\* while that login is marked: an old ticket never frees the next login on
\* the same target (finish_stale_recovery).
TicketFreesItsLogin ==
    [][\A k \in tickets \ tickets', c \in Coordinators, t \in Targets :
          leases[c][t] # NoLease /\ leases'[c][t] = NoLease
          => /\ leases[c][t].id = k.id
             /\ leases[c][t].state = "recovery_required"]_vars

\* The doc of stale_recovery_tickets: a ticket is issued once, so that there
\* are never two owners of the cleanup of one login.
TicketIssuedOnce ==
    [][\A k \in tickets' \ tickets : k.id \notin ticketed]_vars

-----------------------------------------------------------------------------
(* The coordinator implements ExclusiveLogin: a slot is an epoch and a     *)
(* target, its owner the lease some coordinator of that epoch holds.       *)

SlotOwner(s) ==
    IF \E c \in Coordinators : leases[c][s[2]] # NoLease /\ leases[c][s[2]].id.epoch = s[1]
    THEN leases[CHOOSE c \in Coordinators :
                   leases[c][s[2]] # NoLease /\ leases[c][s[2]].id.epoch = s[1]][s[2]].id
    ELSE NoLease

Exclusive ==
    INSTANCE ExclusiveLogin WITH
        Slots <- Epochs \X Targets,
        LoginIds <- LeaseIds,
        Nobody <- NoLease,
        owner <- [s \in Epochs \X Targets |-> SlotOwner(s)],
        admitted <- {h.id : h \in handles},
        doomed <- cancelled \cup ticketed,
        succeeded <- succeeded

\* Every behaviour of the coordinators is a behaviour of ExclusiveLogin.
ImplementsExclusiveLogin == Exclusive!Spec
=============================================================================
