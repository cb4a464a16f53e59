----------------------------- MODULE AuthStatus -----------------------------
(***************************************************************************)
(* Logins and cached readiness together: the lifecycle coordinator         *)
(* invalidates the status cache inside begin_login, under its own mutex    *)
(* and then the cache's, so that admission and invalidation are one step.  *)
(* Everything else each of the two does leaves the other alone; in         *)
(* particular `complete` does not touch the cache.                         *)
(***************************************************************************)
EXTENDS Integers, FiniteSets

CONSTANTS
    \* LifecycleCoordinator
    Coordinators, Epochs, Targets, LoginTimeouts, IdleTimeout, MaxLeases, MaxEpochs,
    MaxRevision, MaxSequence, MaxInstance, MaxClock, NoLease, NoEpoch,
    \* StatusCache
    Callers, Contracts, Policies, Directories, DirectoryOf, Inodes, Ttls, MaxEntries,
    MaxGeneration, MaxReplacements, NoEntry, NoCall

VARIABLES
    clock,
    active_epochs, next_instance, phase, process_epoch, instance, next_sequence,
    leases, handles, tickets, ticketed, cancelled, succeeded,
    directory, cache_epoch, policy_revision, mutation_generation, entries, stage, call,
    outdated, lapped,
    seen,    \* history: caller -> the logins running on its target when it took its ticket
    witness  \* history: target -> the logins its cached readiness was probed under

LC == INSTANCE LifecycleCoordinator
SC == INSTANCE StatusCache

\* The bound below keeps the generation from wrapping, which needs a
\* generation to go on to.
ASSUME ComponentAssumption ==
    /\ LC!BoundsAssumption
    /\ LC!NullAssumption
    /\ SC!CacheAssumption
    /\ MaxGeneration > 1

coordinatorVars ==
    <<active_epochs, next_instance, phase, process_epoch, instance, next_sequence,
      leases, handles, tickets, ticketed, cancelled, succeeded>>
statusVars ==
    <<directory, cache_epoch, policy_revision, mutation_generation, entries, stage, call,
      outdated, lapped>>
evidence == <<seen, witness>>
vars == <<clock, coordinatorVars, statusVars, evidence>>

Init ==
    /\ LC!Init
    /\ SC!Init
    /\ seen = [u \in Callers |-> {}]
    /\ witness = [t \in Targets |-> {}]

-----------------------------------------------------------------------------

LoginsOn(t) == {leases[c][t].id : c \in {d \in Coordinators : leases[d][t] # NoLease}}

\* begin_login that drops the cached entry and forgets the probes under way.
RemovesReadiness(c, t) ==
    /\ process_epoch[c] = cache_epoch
    /\ SC!RemoveOnly(t)
    /\ UNCHANGED <<clock, directory, cache_epoch, policy_revision, stage, call>>
InvalidatesReadiness(c, t) == SC!InvalidateForEpoch(t, process_epoch[c])

BeginLogin(c, t, timeout, now) ==
    /\ LC!BeginLogin(c, t, timeout, now)
    /\ InvalidatesReadiness(c, t)
    /\ UNCHANGED evidence

\* The lease sequence is exhausted, which begin_login only finds after the
\* cache was invalidated.
LoginIdExhausted(c, t) ==
    /\ phase[c] = "live"
    /\ LC!Admits(c, t)
    /\ next_sequence[c] >= MaxSequence
    /\ InvalidatesReadiness(c, t)
    /\ UNCHANGED <<coordinatorVars, evidence>>

\* The operations of a login's owner and the sweep, which share no state
\* with the cache.
OwnerOnly(c) ==
    \E now \in 0..clock :
       \/ \E h \in handles :
             \/ LC!Heartbeat(c, h, now)
             \/ LC!RequestCancel(c, h, now)
             \/ \E outcome \in LC!Outcomes : LC!Complete(c, h, outcome, now)
             \/ \E expected \in 1..MaxRevision :
                   LC!PublishPending(c, h, expected, now) \/ LC!Resume(c, h, expected, now)

CoordinatorOnly(c) ==
    /\ LC!Lifetime(c) \/ OwnerOnly(c) \/ LC!Recovery(c)
    /\ UNCHANGED <<statusVars, evidence>>

TakeTicket(u) ==
    /\ SC!TakeTicket(u)
    /\ seen' = [seen EXCEPT ![u] = LoginsOn(call[u].target)]
    /\ UNCHANGED <<coordinatorVars, witness>>

StoreReady(u, at, ttl) ==
    /\ SC!StoreReady(u, at, ttl)
    /\ witness' = IF SC!Publishes(u)
                  THEN [witness EXCEPT ![call[u].question.target] = seen[u]]
                  ELSE witness
    /\ UNCHANGED <<coordinatorVars, seen>>

CacheOnly(u) ==
    /\ \/ \E t \in Targets, k \in Contracts, h \in UNION {SC!IssuedHandles(d) : d \in Directories} :
             /\ h.directory = DirectoryOf[t]
             /\ \/ SC!StartObservation(u, t, k, h)
                \/ SC!StartLookup(u, t, k, h)
                \/ SC!RejectLookup(u, t, k, h)
       \/ SC!DiscardTicket(u)
       \/ SC!RevalidateStore(u)
       \/ \E now \in 0..clock : SC!Lookup(u, now)
       \/ SC!InvalidateRejected(u)
    /\ UNCHANGED <<coordinatorVars, evidence>>

HostOnly == (SC!Host \/ SC!FileSystem) /\ UNCHANGED <<coordinatorVars, evidence>>

Tick ==
    /\ clock < MaxClock
    /\ clock' = clock + 1
    /\ UNCHANGED <<coordinatorVars, statusVars, evidence>>

\* Bound of the model: the generation, a u64, does not wrap here.
BelowWrap == mutation_generation' >= mutation_generation

Next ==
    /\ \/ \E c \in Coordinators :
             \/ CoordinatorOnly(c)
             \/ \E t \in Targets :
                   \/ \E timeout \in LoginTimeouts, now \in 0..clock : BeginLogin(c, t, timeout, now)
                   \/ LoginIdExhausted(c, t)
       \/ \E u \in Callers :
             \/ TakeTicket(u)
             \/ \E at \in 0..clock, ttl \in Ttls : StoreReady(u, at, ttl)
             \/ CacheOnly(u)
       \/ HostOnly
       \/ Tick
    /\ BelowWrap

Spec == Init /\ [][Next]_vars
-----------------------------------------------------------------------------
(* Properties.                                                             *)

\* Both components keep their types, and the histories name leases.
TypeOK ==
    /\ LC!TypeOK
    /\ SC!TypeOK
    /\ seen \in [Callers -> SUBSET LC!LeaseIds]
    /\ witness \in [Targets -> SUBSET LC!LeaseIds]

\* While a login occupies a target, whatever readiness is cached for that
\* target comes from a probe that began after that login was admitted: the
\* authentication directory is never mutated under readiness found before
\* (begin_login, against begin_observation and store_ready of any thread,
\* and against every coordinator that is still running or was dropped).
ReadinessPostdatesLogin ==
    \A c \in Coordinators, t \in Targets :
        leases[c][t] # NoLease /\ entries[t] # NoEntry => leases[c][t].id \in witness[t]
=============================================================================
