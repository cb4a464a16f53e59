-------------------------- MODULE AuthStatus_proofs --------------------------
(***************************************************************************)
(* Proofs about AuthStatus, for every set of coordinators, callers and     *)
(* targets.  A step of the composition is a step of the coordinator, or a  *)
(* step of the cache, or of both at once, so that everything proved about  *)
(* either holds of the composition; what is left to prove is the promise   *)
(* the two make together.                                                  *)
(* Then about what is decided outside of a call (Decisions), part by part. *)
(***************************************************************************)
EXTENDS AuthStatus, Decisions, FiniteSetTheorems, SequenceTheorems, TLAPS

LCP == INSTANCE LifecycleCoordinator_proofs
SCP == INSTANCE StatusCache_proofs

-----------------------------------------------------------------------------
(* The components' own proofs speak of the components' own names.          *)

\* LC and LCP are one module.
LEMMA CoordinatorNames ==
    /\ LCP!BoundsAssumption /\ LCP!NullAssumption
    /\ LC!Init <=> LCP!Init
    /\ LC!Next <=> LCP!Next
    /\ LC!vars = LCP!vars
    /\ LC!TypeOK <=> LCP!TypeOK
    /\ LC!LeaseIds = LCP!LeaseIds
<1>1. LCP!BoundsAssumption
  BY ComponentAssumption DEF LC!BoundsAssumption, LCP!BoundsAssumption
<1>2. LCP!NullAssumption
  BY ComponentAssumption
  DEF LC!NullAssumption, LCP!NullAssumption, LC!Leases, LCP!Leases, LC!LeaseIds, LCP!LeaseIds,
      LC!LeaseStates, LCP!LeaseStates, LC!IsFiniteSet, LCP!IsFiniteSet
<1>3. LC!Init <=> LCP!Init
  BY DEF LC!Init, LCP!Init
<1>4. LC!Next <=> LCP!Next
  BY Zenon
  DEF LC!Next, LC!Lifetime, LC!Owner, LC!Recovery, LC!RegisterEpoch, LC!TakeInstance,
      LC!InstanceExhausted, LC!Drop, LC!BeginLogin, LC!PublishPending, LC!Resume, LC!Heartbeat,
      LC!RequestCancel, LC!Complete, LC!StaleRecoveryTickets, LC!FinishStaleRecovery, LC!Tick,
      LC!Exact, LC!EnsureLive, LC!StaleReason, LC!HasNextRevision, LC!Moved, LC!Touched,
      LC!CancelledRecord, LC!MaySucceed, LC!Unmarked, LC!Due, LC!Confirms, LC!Occupied,
      LC!UnregistersOnDrop, LC!NewLeaseId, LC!LeaseIdOf, LC!Admits, LC!Outcomes, LC!Cardinality,
      LC!identity, LC!registry, LC!history,
      LCP!Next, LCP!Lifetime, LCP!Owner, LCP!Recovery, LCP!RegisterEpoch, LCP!TakeInstance,
      LCP!InstanceExhausted, LCP!Drop, LCP!BeginLogin, LCP!PublishPending, LCP!Resume, LCP!Heartbeat,
      LCP!RequestCancel, LCP!Complete, LCP!StaleRecoveryTickets, LCP!FinishStaleRecovery, LCP!Tick,
      LCP!Exact, LCP!EnsureLive, LCP!StaleReason, LCP!HasNextRevision, LCP!Moved, LCP!Touched,
      LCP!CancelledRecord, LCP!MaySucceed, LCP!Unmarked, LCP!Due, LCP!Confirms, LCP!Occupied,
      LCP!UnregistersOnDrop, LCP!NewLeaseId, LCP!LeaseIdOf, LCP!Admits, LCP!Outcomes, LCP!Cardinality,
      LCP!identity, LCP!registry, LCP!history
<1>5. LC!vars = LCP!vars
  BY DEF LC!vars, LC!identity, LC!registry, LC!history,
         LCP!vars, LCP!identity, LCP!registry, LCP!history
<1>6. LC!LeaseIds = LCP!LeaseIds
  BY DEF LC!LeaseIds, LCP!LeaseIds
<1>7. LC!TypeOK <=> LCP!TypeOK
  BY DEF LC!TypeOK, LC!Instants, LC!Leases, LC!LeaseIds, LC!LeaseStates, LC!Handles, LC!Tickets,
         LCP!TypeOK, LCP!Instants, LCP!Leases, LCP!LeaseIds, LCP!LeaseStates, LCP!Handles, LCP!Tickets
<1> QED
  BY <1>1, <1>2, <1>3, <1>4, <1>5, <1>6, <1>7

\* SC and SCP are one module.
LEMMA CacheNames ==
    /\ SCP!CacheAssumption
    /\ SC!Init <=> SCP!Init
    /\ SC!Next <=> SCP!Next
    /\ SC!cacheVars = SCP!cacheVars
    /\ SC!TypeOK <=> SCP!TypeOK
<1>1. SCP!CacheAssumption
  BY ComponentAssumption
  DEF SC!CacheAssumption, SC!Entries, SC!Handles, SC!IsFiniteSet,
      SCP!CacheAssumption, SCP!Entries, SCP!Handles, SCP!IsFiniteSet
<1>2. SC!Init <=> SCP!Init
  BY DEF SC!Init, SCP!Init
<1>3. SC!Next <=> SCP!Next
  BY Zenon
  DEF SC!Next, SC!Calls, SC!Host, SC!FileSystem, SC!StartObservation, SC!StartLookup, SC!Asks,
      SC!RejectLookup, SC!TakeTicket, SC!DiscardTicket, SC!RevalidateStore, SC!StoreReady, SC!Lookup,
      SC!InvalidateRejected, SC!Invalidate, SC!InvalidateDirectory, SC!ReplaceProcessEpoch,
      SC!ReplacePolicyRevision, SC!ReplaceDirectory, SC!Tick, SC!IssuedHandles, SC!Identity,
      SC!Revalidates, SC!SameDirectory, SC!HoldsTicket, SC!Cached, SC!Without, SC!Advance, SC!Outdate,
      SC!InvalidateTarget, SC!Finish, SC!Moves, SC!SameAuthority, SC!IsCurrent, SC!Unexpired,
      SC!HasRoom, SC!Answers, SC!ReplacedEntries, SC!authority, SC!calls, SC!probes, SC!Cardinality,
      SCP!Next, SCP!Calls, SCP!Host, SCP!FileSystem, SCP!StartObservation, SCP!StartLookup, SCP!Asks,
      SCP!RejectLookup, SCP!TakeTicket, SCP!DiscardTicket, SCP!RevalidateStore, SCP!StoreReady,
      SCP!Lookup, SCP!InvalidateRejected, SCP!Invalidate, SCP!InvalidateDirectory,
      SCP!ReplaceProcessEpoch, SCP!ReplacePolicyRevision, SCP!ReplaceDirectory, SCP!Tick,
      SCP!IssuedHandles, SCP!Identity, SCP!Revalidates, SCP!SameDirectory, SCP!HoldsTicket, SCP!Cached,
      SCP!Without, SCP!Advance, SCP!Outdate, SCP!InvalidateTarget, SCP!Finish, SCP!Moves,
      SCP!SameAuthority, SCP!IsCurrent, SCP!Unexpired, SCP!HasRoom, SCP!Answers, SCP!ReplacedEntries,
      SCP!authority, SCP!calls, SCP!probes, SCP!Cardinality
<1>4. SC!cacheVars = SCP!cacheVars
  BY DEF SC!cacheVars, SC!authority, SC!calls, SC!probes,
         SCP!cacheVars, SCP!authority, SCP!calls, SCP!probes
<1>5. SC!TypeOK <=> SCP!TypeOK
  BY DEF SC!TypeOK, SC!Cached, SC!Entries, SC!Handles, SC!Stages, SC!HoldsTicket, SC!Probes, SC!Questions,
         SC!Cardinality, SC!Seq,
         SCP!TypeOK, SCP!Cached, SCP!Entries, SCP!Handles, SCP!Stages, SCP!HoldsTicket, SCP!Probes,
         SCP!Questions, SCP!Cardinality, SCP!Seq
<1> QED
  BY <1>1, <1>2, <1>3, <1>4, <1>5

-----------------------------------------------------------------------------
(* The composition keeps both components' specifications.                  *)

\* An operation of the coordinator takes no time and leaves the cache alone.
LEMMA CoordinatorOnlyStep ==
    ASSUME NEW c \in Coordinators, CoordinatorOnly(c)
    PROVE  LC!Next /\ UNCHANGED <<clock, statusVars, evidence>>
<1>1. LC!Next
  BY DEF CoordinatorOnly, OwnerOnly, LC!Next, LC!Owner
<1>2. UNCHANGED clock
  BY DEF CoordinatorOnly, OwnerOnly, LC!Lifetime, LC!RegisterEpoch, LC!TakeInstance,
         LC!InstanceExhausted, LC!Drop, LC!PublishPending, LC!Resume, LC!Heartbeat,
         LC!RequestCancel, LC!Complete, LC!Recovery, LC!StaleRecoveryTickets, LC!FinishStaleRecovery
<1> QED
  BY <1>1, <1>2 DEF CoordinatorOnly

\* An operation of a caller of the cache takes no time and leaves the
\* coordinators alone.
LEMMA CacheOnlyStep ==
    ASSUME NEW u \in Callers, CacheOnly(u)
    PROVE  SC!Next /\ UNCHANGED <<clock, coordinatorVars, evidence>>
<1>1. SC!Next
  BY DEF CacheOnly, SC!Next, SC!Calls
<1>2. UNCHANGED clock
  BY DEF CacheOnly, SC!StartObservation, SC!StartLookup, SC!Asks, SC!RejectLookup, SC!DiscardTicket,
         SC!RevalidateStore, SC!Lookup, SC!InvalidateRejected
<1> QED
  BY <1>1, <1>2 DEF CacheOnly

\* What the host and the file system do leaves the coordinators alone.
LEMMA HostOnlyStep ==
    ASSUME HostOnly
    PROVE  SC!Next /\ UNCHANGED <<clock, coordinatorVars, evidence>>
<1>1. UNCHANGED clock
  BY DEF HostOnly, SC!Host, SC!FileSystem, SC!Invalidate, SC!InvalidateDirectory,
         SC!ReplaceProcessEpoch, SC!ReplacePolicyRevision, SC!ReplaceDirectory
<1> QED
  BY <1>1 DEF HostOnly, SC!Next

\* begin_observation takes a ticket, and reads what is logged in.
LEMMA TicketStep ==
    ASSUME NEW u \in Callers,
           TakeTicket(u) \/ \E at \in 0..clock, ttl \in Ttls : StoreReady(u, at, ttl)
    PROVE  SC!Next /\ UNCHANGED <<clock, coordinatorVars>>
<1>1. SC!Next
  BY DEF TakeTicket, StoreReady, SC!Next, SC!Calls
<1> QED
  BY <1>1 DEF TakeTicket, StoreReady, SC!TakeTicket, SC!StoreReady

\* begin_login, with the invalidation it makes.
LEMMA BeginStep ==
    ASSUME NEW c \in Coordinators, NEW t \in Targets, NEW timeout \in LoginTimeouts,
           NEW now \in 0..clock, BeginLogin(c, t, timeout, now)
    PROVE  LC!Next /\ SC!Next /\ UNCHANGED evidence
<1>1. LC!Next
  BY DEF BeginLogin, LC!Next, LC!Owner
<1>2. SC!Invalidate(t)
  BY DEF BeginLogin, InvalidatesReadiness, SC!InvalidateForEpoch
<1> QED
  BY <1>1, <1>2 DEF BeginLogin, SC!Next, SC!Host

\* begin_login that runs out of lease ids, after the invalidation.
LEMMA ExhaustedStep ==
    ASSUME NEW c \in Coordinators, NEW t \in Targets, LoginIdExhausted(c, t)
    PROVE  SC!Invalidate(t) /\ SC!Next /\ UNCHANGED <<clock, coordinatorVars, evidence>>
<1>1. SC!Invalidate(t)
  BY DEF LoginIdExhausted, InvalidatesReadiness, SC!InvalidateForEpoch
<1>2. UNCHANGED clock
  BY <1>1 DEF SC!Invalidate
<1> QED
  BY <1>1, <1>2 DEF LoginIdExhausted, SC!Next, SC!Host

\* Every step is a step, or a stutter, of each component.
LEMMA StepProjects ==
    ASSUME [Next]_vars
    PROVE  [LC!Next]_(LC!vars) /\ [SC!Next]_(SC!cacheVars)
<1> DEFINE Both == [LC!Next]_(LC!vars) /\ [SC!Next]_(SC!cacheVars)
<1>1. ASSUME UNCHANGED <<clock, coordinatorVars>> PROVE UNCHANGED LC!vars
  BY <1>1 DEF coordinatorVars, LC!vars, LC!registry, LC!identity, LC!history
<1>2. ASSUME UNCHANGED <<clock, statusVars>> PROVE UNCHANGED SC!cacheVars
  BY <1>2 DEF statusVars, SC!cacheVars, SC!authority, SC!calls, SC!probes
<1>3. ASSUME NEW c \in Coordinators, CoordinatorOnly(c) PROVE Both
  BY <1>2, <1>3, CoordinatorOnlyStep
<1>4. ASSUME NEW c \in Coordinators, NEW t \in Targets, NEW timeout \in LoginTimeouts,
             NEW now \in 0..clock, BeginLogin(c, t, timeout, now)
      PROVE  Both
  BY <1>4, BeginStep
<1>5. ASSUME NEW c \in Coordinators, NEW t \in Targets, LoginIdExhausted(c, t) PROVE Both
  BY <1>1, <1>5, ExhaustedStep
<1>6. ASSUME NEW u \in Callers,
             TakeTicket(u) \/ \E at \in 0..clock, ttl \in Ttls : StoreReady(u, at, ttl)
      PROVE  Both
  BY <1>1, <1>6, TicketStep
<1>7. ASSUME NEW u \in Callers, CacheOnly(u) PROVE Both
  BY <1>1, <1>7, CacheOnlyStep
<1>8. ASSUME HostOnly PROVE Both
  BY <1>1, <1>8, HostOnlyStep
<1>9. ASSUME Tick PROVE Both
  BY <1>9 DEF Tick, coordinatorVars, statusVars, LC!Next, LC!Tick, LC!registry, LC!identity, LC!history,
              SC!Next, SC!Tick, SC!authority, SC!calls, SC!probes
<1>10. ASSUME UNCHANGED vars PROVE Both
  BY <1>1, <1>2, <1>10 DEF vars
<1> HIDE DEF Both
<1>11. Both
  <2>1. CASE Next
    <3>1. CASE \E c \in Coordinators :
                  \/ CoordinatorOnly(c)
                  \/ \E t \in Targets :
                        \/ \E timeout \in LoginTimeouts, now \in 0..clock : BeginLogin(c, t, timeout, now)
                        \/ LoginIdExhausted(c, t)
      BY <1>3, <1>4, <1>5, <3>1
    <3>2. CASE \E u \in Callers :
                  \/ TakeTicket(u)
                  \/ \E at \in 0..clock, ttl \in Ttls : StoreReady(u, at, ttl)
                  \/ CacheOnly(u)
      BY <1>6, <1>7, <3>2
    <3> QED
      BY <1>8, <1>9, <2>1, <3>1, <3>2 DEF Next
  <2>2. CASE UNCHANGED vars
    BY <1>10, <2>2
  <2> QED
    BY <2>1, <2>2
<1> QED
  BY <1>11 DEF Both

\* The coordinator under the cache's invalidations is the coordinator: what
\* begin_login does to the cache never shows in the leases.
THEOREM KeepsCoordinator == Spec => LC!Spec
<1>1. Init => LC!Init
  BY DEF Init
<1>2. [Next]_vars => [LC!Next]_(LC!vars)
  BY StepProjects
<1> QED
  BY <1>1, <1>2, PTL DEF Spec, LC!Spec

\* The cache that the coordinator invalidates is the cache: begin_login does
\* to it no more than a host's call would.
THEOREM KeepsCache == Spec => SC!Spec
<1>1. Init => SC!Init
  BY DEF Init
<1>2. [Next]_vars => [SC!Next]_(SC!cacheVars)
  BY StepProjects
<1> QED
  BY <1>1, <1>2, PTL DEF Spec, SC!Spec

\* What is proved of each component holds of it here.
LEMMA ComponentInvariants == Spec => [](LCP!TypeInv /\ LCP!IInv /\ SCP!TypeInv)
<1>1. LC!Spec <=> LCP!Spec
  <2>1. LC!Init <=> LCP!Init
    BY CoordinatorNames
  <2>2. [LC!Next]_(LC!vars) <=> [LCP!Next]_(LCP!vars)
    <3>1. LC!vars = LCP!vars /\ (LC!vars = LCP!vars)'
      BY CoordinatorNames, PTL
    <3> QED
      BY <3>1, CoordinatorNames
  <2> QED
    BY <2>1, <2>2, PTL DEF LC!Spec, LCP!Spec
<1>2. SC!Spec <=> SCP!Spec
  <2>1. SC!Init <=> SCP!Init
    BY CacheNames
  <2>2. [SC!Next]_(SC!cacheVars) <=> [SCP!Next]_(SCP!cacheVars)
    <3>1. SC!cacheVars = SCP!cacheVars /\ (SC!cacheVars = SCP!cacheVars)'
      BY CacheNames, PTL
    <3> QED
      BY <3>1, CacheNames
  <2> QED
    BY <2>1, <2>2, PTL DEF SC!Spec, SCP!Spec
<1>3. LCP!Spec => [](LCP!TypeInv /\ LCP!IInv)
  BY CoordinatorNames, LCP!Invariant
<1>4. SCP!Spec => []SCP!TypeInv
  BY CacheNames, SCP!TypeInvariant
<1> QED
  BY <1>1, <1>2, <1>3, <1>4, KeepsCoordinator, KeepsCache, PTL

-----------------------------------------------------------------------------
(* Readiness postdates the login: why no cached entry is older than the    *)
(* login that occupies its target.                                         *)

Running(c, t) == leases[c][t] # NoLease

\* A probe whose ticket is still current has seen every login that occupies
\* its target: begin_login would have moved the generation on.
ProbesSeeLogins ==
    \A u \in Callers, c \in Coordinators :
        /\ SC!HoldsTicket(u)
        /\ call[u].generation = mutation_generation
        /\ Running(c, call[u].question.target)
        => leases[c][call[u].question.target].id \in seen[u]

\* No ticket is of a generation to come.
TicketsBehind ==
    \A u \in Callers : SC!HoldsTicket(u) => call[u].generation <= mutation_generation

\* The history names leases.
EvidenceOK ==
    /\ seen \in [Callers -> SUBSET LC!LeaseIds]
    /\ witness \in [Targets -> SUBSET LC!LeaseIds]

\* The invariant of the composition, beside those of its components.
AuthInv == EvidenceOK /\ TicketsBehind /\ ProbesSeeLogins /\ ReadinessPostdatesLogin

\* What the proof needs of the components' invariants.
Domains ==
    /\ leases \in [Coordinators -> [Targets -> LC!Leases \cup {NoLease}]]
    /\ DOMAIN entries = Targets
    /\ stage \in [Callers -> SC!Stages]
    /\ DOMAIN call = Callers
    /\ mutation_generation \in 1..MaxGeneration
    /\ \A u \in Callers :
          /\ SC!HoldsTicket(u) => call[u] \in SC!Probes
          /\ stage[u] = "beginning" => call[u] \in SC!Questions

\* What the components prove of themselves.
Types == LCP!TypeInv /\ LCP!IInv /\ SCP!TypeInv

\* Types says as much as Domains.
LEMMA TypesGiveDomains == Types => Domains
<1> SUFFICES ASSUME Types PROVE Domains
  OBVIOUS
<1>1. leases \in [Coordinators -> [Targets -> LC!Leases \cup {NoLease}]]
  BY DEF Types, LCP!TypeInv, LCP!TypeOK, LCP!Leases, LCP!LeaseIds, LCP!LeaseStates,
         LC!Leases, LC!LeaseIds, LC!LeaseStates
<1>2. DOMAIN entries = Targets /\ mutation_generation \in 1..MaxGeneration
  BY DEF Types, SCP!TypeInv, SCP!StoreOK
<1>3. /\ stage \in [Callers -> SC!Stages]
      /\ DOMAIN call = Callers
  BY DEF Types, SCP!TypeInv, SCP!CallsOK, SCP!Stages, SC!Stages
<1>4. \A u \in Callers :
          /\ SC!HoldsTicket(u) => call[u] \in SC!Probes
          /\ stage[u] = "beginning" => call[u] \in SC!Questions
  BY DEF Types, SCP!TypeInv, SCP!CallsOK, SCP!HoldsTicket, SC!HoldsTicket, SCP!Probes, SC!Probes,
         SCP!Questions, SC!Questions, SCP!Handles, SC!Handles
<1> QED
  BY <1>1, <1>2, <1>3, <1>4 DEF Domains

\* Steps that start no login, publish no readiness and begin no probe.
NoNewLogin ==
    \A c \in Coordinators, t \in Targets :
        Running(c, t)' => Running(c, t) /\ leases'[c][t].id = leases[c][t].id
\* No entry appears.
NoNewEntry == \A t \in Targets : entries'[t] = entries[t] \/ entries'[t] = NoEntry
\* No probe begins.
ProbesKept == \A u \in Callers : SC!HoldsTicket(u)' => SC!HoldsTicket(u) /\ call'[u] = call[u]

\* A step that can only take readiness away.
Quiet ==
    /\ NoNewLogin /\ NoNewEntry /\ ProbesKept
    /\ mutation_generation' >= mutation_generation
    /\ UNCHANGED evidence

\* A quiet step keeps the invariant.
LEMMA QuietKeeps ==
    ASSUME Domains, Domains', AuthInv, Quiet
    PROVE  AuthInv'
<1>1. EvidenceOK' /\ seen' = seen /\ witness' = witness
  BY DEF AuthInv, EvidenceOK, Quiet, evidence
<1>2. ReadinessPostdatesLogin'
  BY <1>1 DEF AuthInv, ReadinessPostdatesLogin, Quiet, NoNewLogin, NoNewEntry, Running
<1>3. ASSUME NEW u \in Callers, SC!HoldsTicket(u)'
      PROVE  /\ SC!HoldsTicket(u) /\ call'[u] = call[u]
             /\ call[u].question.target \in Targets
             /\ call[u].generation \in Int
             /\ call[u].generation <= mutation_generation
  <2>1. SC!HoldsTicket(u) /\ call'[u] = call[u]
    BY <1>3 DEF Quiet, ProbesKept
  <2>2. call[u] \in SC!Probes
    BY <2>1 DEF Domains
  <2>3. call[u].question.target \in Targets /\ call[u].generation \in Int
    BY <2>2 DEF SC!Probes, SC!Questions
  <2> QED
    BY <2>1, <2>3 DEF AuthInv, TicketsBehind
<1>4. mutation_generation \in Int /\ mutation_generation' \in Int
  BY DEF Domains
<1>5. TicketsBehind'
  BY <1>3, <1>4 DEF TicketsBehind, Quiet
<1>6. ProbesSeeLogins'
  <2> SUFFICES ASSUME NEW u \in Callers, NEW c \in Coordinators, SC!HoldsTicket(u)',
                      call'[u].generation = mutation_generation',
                      Running(c, call[u].question.target)'
               PROVE  leases'[c][call'[u].question.target].id \in seen'[u]
    BY <1>3 DEF ProbesSeeLogins
  <2> DEFINE t == call[u].question.target
  <2>1. call'[u] = call[u] /\ t \in Targets /\ SC!HoldsTicket(u)
    BY <1>3
  <2>2. call[u].generation = mutation_generation
    BY <1>3, <1>4, <2>1 DEF Quiet
  <2>3. Running(c, t) /\ leases'[c][t].id = leases[c][t].id
    BY <2>1 DEF Quiet, NoNewLogin, Running
  <2> QED
    BY <1>1, <2>1, <2>2, <2>3 DEF AuthInv, ProbesSeeLogins
<1> QED
  BY <1>1, <1>2, <1>5, <1>6 DEF AuthInv

\* What the coordinators do on their own starts no login: a login that begins
\* is handed out, and these operations hand out nothing.
LEMMA CoordinatorOnlyIsQuiet ==
    ASSUME Types, NEW c \in Coordinators, CoordinatorOnly(c)
    PROVE  Quiet
<1>1. LCP!Next /\ UNCHANGED <<clock, statusVars, evidence>>
  BY CoordinatorOnlyStep, CoordinatorNames
<1>2. UNCHANGED handles
  BY DEF CoordinatorOnly, OwnerOnly, LC!Lifetime, LC!RegisterEpoch, LC!TakeInstance,
         LC!InstanceExhausted, LC!Drop, LC!PublishPending, LC!Resume, LC!Heartbeat,
         LC!RequestCancel, LC!Complete, LC!Recovery, LC!StaleRecoveryTickets, LC!FinishStaleRecovery
<1>3. ASSUME NEW d \in Coordinators, NEW t \in Targets, NEW timeout \in LoginTimeouts,
             NEW now \in 0..clock, LCP!BeginLogin(d, t, timeout, now)
      PROVE  FALSE
  <2>1. handles' = handles \cup {[id |-> LCP!NewLeaseId(d), target |-> t]}
    BY <1>3 DEF LCP!BeginLogin
  <2>2. [id |-> LCP!NewLeaseId(d), target |-> t] \in handles
    BY <1>2, <2>1
  <2>3. phase[d] = "live"
    BY <1>3 DEF LCP!BeginLogin
  <2>4. [id |-> LCP!NewLeaseId(d), target |-> t].id # LCP!NewLeaseId(d)
    BY <2>2, <2>3, CoordinatorNames, LCP!NextIdIsFresh DEF Types, LCP!IInv
  <2> QED
    BY <2>4
<1>4. NoNewLogin
  <2>1. CASE LCP!OwnerStep
    BY <2>1 DEF LCP!OwnerStep, LCP!KeepsIdentities, LCP!Held, NoNewLogin, Running
  <2>2. CASE UNCHANGED leases
    BY <2>2 DEF NoNewLogin, Running
  <2>3. \/ \E d \in Coordinators, e \in Epochs : LCP!RegisterEpoch(d, e)
        \/ \E d \in Coordinators : LCP!TakeInstance(d)
        \/ \E d \in Coordinators : LCP!InstanceExhausted(d)
        \/ \E d \in Coordinators : LCP!Drop(d)
        \/ \E d \in Coordinators, now \in 0..clock, t \in Targets, timeout \in LoginTimeouts :
              LCP!BeginLogin(d, t, timeout, now)
        \/ LCP!OwnerStep
    BY <1>1, CoordinatorNames, LCP!StepKinds DEF Types
  <2>4. LCP!OwnerStep \/ UNCHANGED leases
    BY <1>3, <2>3 DEF LCP!RegisterEpoch, LCP!TakeInstance, LCP!InstanceExhausted, LCP!Drop
  <2> QED
    BY <2>1, <2>2, <2>4
<1>5. NoNewEntry /\ ProbesKept /\ UNCHANGED evidence /\ UNCHANGED mutation_generation
  BY <1>1 DEF statusVars, NoNewEntry, ProbesKept, SC!HoldsTicket
<1>6. mutation_generation \in Int
  BY TypesGiveDomains DEF Domains
<1> QED
  BY <1>4, <1>5, <1>6 DEF Quiet

\* An invalidation takes entries away and leaves the calls under way alone.
LEMMA AdvanceTakesAway ==
    ASSUME NEW gone, SC!Advance(gone)
    PROVE  NoNewEntry
  BY DEF SC!Advance, SC!Without, NoNewEntry

\* What the callers do besides taking a ticket and publishing.
LEMMA CacheOnlyIsQuiet ==
    ASSUME Domains, BelowWrap, NEW u \in Callers, CacheOnly(u)
    PROVE  Quiet
<1>1. UNCHANGED <<coordinatorVars, evidence>>
  BY DEF CacheOnly
<1>2. NoNewLogin
  BY <1>1 DEF coordinatorVars, NoNewLogin, Running
<1>3. ASSUME NEW v \in Callers, v # u
      PROVE  call'[v] = call[v] /\ stage'[v] = stage[v]
  BY <1>3 DEF Domains, CacheOnly, SC!StartObservation, SC!StartLookup, SC!Asks, SC!RejectLookup,
              SC!DiscardTicket, SC!RevalidateStore, SC!Lookup, SC!InvalidateRejected, SC!Moves, SC!Finish
<1>4. SC!HoldsTicket(u)' => SC!HoldsTicket(u) /\ call'[u] = call[u]
  BY DEF Domains, CacheOnly, SC!StartObservation, SC!StartLookup, SC!Asks, SC!RejectLookup,
         SC!DiscardTicket, SC!RevalidateStore, SC!Lookup, SC!InvalidateRejected, SC!Moves, SC!Finish,
         SC!HoldsTicket
<1>5. ProbesKept
  BY <1>3, <1>4 DEF ProbesKept, SC!HoldsTicket
<1>6. NoNewEntry
  <2>1. UNCHANGED entries \/ \E gone : SC!Advance(gone)
    BY DEF CacheOnly, SC!StartObservation, SC!StartLookup, SC!Asks, SC!RejectLookup, SC!DiscardTicket,
           SC!RevalidateStore, SC!Lookup, SC!InvalidateRejected, SC!InvalidateTarget
  <2> QED
    BY <2>1, AdvanceTakesAway DEF NoNewEntry
<1> QED
  BY <1>1, <1>2, <1>5, <1>6 DEF Quiet, BelowWrap

\* What a host invalidates, without a login.
LEMMA InvalidationIsQuiet ==
    ASSUME BelowWrap, NEW gone, SC!Advance(gone), UNCHANGED <<leases, stage, call, evidence>>
    PROVE  Quiet
<1>1. NoNewEntry
  BY AdvanceTakesAway
<1> QED
  BY <1>1 DEF Quiet, NoNewLogin, Running, ProbesKept, SC!HoldsTicket, BelowWrap

\* What the host and the file system do.
LEMMA HostOnlyIsQuiet ==
    ASSUME BelowWrap, HostOnly
    PROVE  Quiet
<1>1. UNCHANGED <<leases, evidence>>
  BY DEF HostOnly, coordinatorVars
<1>2. CASE SC!Host
  <2>1. UNCHANGED <<stage, call>> /\ \E gone : SC!Advance(gone)
    BY <1>2 DEF SC!Host, SC!Invalidate, SC!InvalidateTarget, SC!InvalidateDirectory,
                SC!ReplaceProcessEpoch, SC!ReplacePolicyRevision, SC!calls
  <2> QED
    BY <1>1, <2>1, InvalidationIsQuiet
<1>3. CASE SC!FileSystem
  <2>1. UNCHANGED <<entries, stage, call>>
    BY <1>3 DEF SC!FileSystem, SC!ReplaceDirectory, SC!calls
  <2> QED
    BY <1>1, <2>1 DEF Quiet, NoNewLogin, Running, NoNewEntry, ProbesKept, SC!HoldsTicket, BelowWrap
<1> QED
  BY <1>2, <1>3 DEF HostOnly

\* A probe begins: it sees the logins that occupy its target.
LEMMA TicketKeeps ==
    ASSUME Domains, Domains', AuthInv, NEW u \in Callers, TakeTicket(u)
    PROVE  AuthInv'
<1>1. /\ stage[u] = "beginning" /\ call[u] \in SC!Questions
      /\ stage' = [stage EXCEPT ![u] = "probing"]
      /\ call' = [call EXCEPT ![u] = [question |-> call[u], epoch |-> cache_epoch,
                     policy |-> policy_revision, generation |-> mutation_generation]]
      /\ seen' = [seen EXCEPT ![u] = LoginsOn(call[u].target)]
      /\ UNCHANGED <<leases, witness, entries, mutation_generation>>
  BY DEF TakeTicket, SC!TakeTicket, SC!Moves, SC!authority, coordinatorVars, Domains
<1>2. call[u].target \in Targets
  BY <1>1 DEF SC!Questions
<1>3. /\ call'[u].question = call[u]
      /\ call'[u].generation = mutation_generation
      /\ seen'[u] = LoginsOn(call[u].target)
  BY <1>1 DEF Domains, AuthInv, EvidenceOK
<1>4. \A v \in Callers : v # u => call'[v] = call[v] /\ stage'[v] = stage[v] /\ seen'[v] = seen[v]
  BY <1>1 DEF Domains, AuthInv, EvidenceOK
<1>5. EvidenceOK'
  <2>1. LoginsOn(call[u].target) \subseteq LC!LeaseIds
    <3>1. \A c \in Coordinators : leases[c][call[u].target] \in LC!Leases \cup {NoLease}
      BY <1>2 DEF Domains
    <3> QED
      BY <3>1 DEF LoginsOn, LC!Leases
  <2> QED
    BY <1>1, <2>1 DEF AuthInv, EvidenceOK
<1>6. TicketsBehind'
  <2>1. mutation_generation \in Int
    BY DEF Domains
  <2> QED
    BY <1>1, <1>3, <1>4, <2>1 DEF AuthInv, TicketsBehind, SC!HoldsTicket
<1>7. ProbesSeeLogins'
  <2> SUFFICES ASSUME NEW v \in Callers, NEW c \in Coordinators, SC!HoldsTicket(v)',
                      call'[v].generation = mutation_generation',
                      Running(c, call[v].question.target)'
               PROVE  leases'[c][call'[v].question.target].id \in seen'[v]
    BY DEF ProbesSeeLogins
  <2>1. CASE v = u
    BY <1>1, <1>3, <2>1 DEF Running, LoginsOn
  <2>2. CASE v # u
    BY <1>1, <1>4, <2>2 DEF AuthInv, ProbesSeeLogins, Running, SC!HoldsTicket
  <2> QED
    BY <2>1, <2>2
<1>8. ReadinessPostdatesLogin'
  BY <1>1 DEF AuthInv, ReadinessPostdatesLogin
<1> QED
  BY <1>5, <1>6, <1>7, <1>8 DEF AuthInv

\* A probe publishes: only under a current ticket, so what it saw is all.
LEMMA StoreKeeps ==
    ASSUME Domains, Domains', AuthInv, NEW u \in Callers, NEW at \in 0..clock, NEW ttl \in Ttls,
           StoreReady(u, at, ttl)
    PROVE  AuthInv'
<1> DEFINE t == call[u].question.target
<1>1. /\ stage[u] = "storing"
      /\ stage' = [stage EXCEPT ![u] = "idle"]
      /\ call' = [call EXCEPT ![u] = NoCall]
      /\ witness' = IF SC!Publishes(u) THEN [witness EXCEPT ![t] = seen[u]] ELSE witness
      /\ UNCHANGED <<leases, seen, mutation_generation>>
  BY DEF StoreReady, SC!StoreReady, SC!Finish, SC!authority, coordinatorVars
<1>2. call[u] \in SC!Probes /\ SC!HoldsTicket(u)
  BY <1>1 DEF Domains, SC!HoldsTicket
<1>3. t \in Targets
  BY <1>2 DEF SC!Probes, SC!Questions
<1>4. \A v \in Targets : v # t => entries'[v] = entries[v] \/ entries'[v] = NoEntry
  BY DEF StoreReady, SC!StoreReady
<1>5. SC!IsCurrent(u) \/ entries'[t] = entries[t]
  BY DEF StoreReady, SC!StoreReady
<1>6. \A v \in Callers : SC!HoldsTicket(v)' => v # u /\ SC!HoldsTicket(v) /\ call'[v] = call[v]
  BY <1>1 DEF Domains, SC!HoldsTicket
<1>7. EvidenceOK'
  BY <1>1 DEF AuthInv, EvidenceOK
<1>8. TicketsBehind'
  BY <1>1, <1>6 DEF AuthInv, TicketsBehind
<1>9. ProbesSeeLogins'
  BY <1>1, <1>6 DEF AuthInv, ProbesSeeLogins, Running
<1>10. ReadinessPostdatesLogin'
  <2> SUFFICES ASSUME NEW c \in Coordinators, NEW v \in Targets,
                      Running(c, v), entries'[v] # NoEntry
               PROVE  leases[c][v].id \in witness'[v]
    BY <1>1 DEF ReadinessPostdatesLogin, Running
  <2>1. CASE entries'[v] = entries[v]
    <3>1. leases[c][v].id \in witness[v]
      BY <2>1 DEF AuthInv, ReadinessPostdatesLogin, Running
    <3>2. v = t => ~SC!Publishes(u)
      BY <2>1 DEF SC!Publishes
    <3> QED
      BY <1>1, <3>1, <3>2 DEF AuthInv, EvidenceOK
  <2>2. CASE entries'[v] # entries[v]
    <3>1. v = t
      BY <1>4, <2>2
    <3>2. call[u].generation = mutation_generation
      BY <1>5, <2>2, <3>1 DEF SC!IsCurrent
    <3>3. leases[c][v].id \in seen[u]
      BY <1>2, <3>1, <3>2 DEF AuthInv, ProbesSeeLogins
    <3>4. SC!Publishes(u)
      BY <1>1, <2>2, <3>1 DEF SC!Publishes, Domains
    <3> QED
      BY <1>1, <1>3, <3>1, <3>3, <3>4 DEF AuthInv, EvidenceOK
  <2> QED
    BY <2>1, <2>2
<1> QED
  BY <1>7, <1>8, <1>9, <1>10 DEF AuthInv

\* A login begins: the entry of its target goes, and no probe under way holds
\* a ticket of the generation that follows.
LEMMA BeginKeeps ==
    ASSUME Domains, Domains', AuthInv, BelowWrap, NEW c \in Coordinators, NEW t \in Targets,
           NEW timeout \in LoginTimeouts, NEW now \in 0..clock, BeginLogin(c, t, timeout, now)
    PROVE  AuthInv'
<1>1. /\ SC!Advance({t})
      /\ UNCHANGED <<stage, call, evidence>>
  BY DEF BeginLogin, InvalidatesReadiness, SC!InvalidateForEpoch, SC!Invalidate, SC!InvalidateTarget, SC!calls
<1>2. mutation_generation' = mutation_generation + 1
  BY <1>1, ComponentAssumption DEF SC!Advance, BelowWrap, Domains, SC!CacheAssumption
<1>3. /\ entries'[t] = NoEntry
      /\ \A v \in Targets : entries'[v] = entries[v] \/ entries'[v] = NoEntry
  BY <1>1 DEF SC!Advance, SC!Without
<1>4. \A d \in Coordinators, v \in Targets : v # t => leases'[d][v] = leases[d][v]
  BY DEF BeginLogin, LC!BeginLogin, Domains
<1>5. EvidenceOK' /\ seen' = seen /\ witness' = witness
  BY <1>1 DEF evidence, AuthInv, EvidenceOK
<1>6. \A u \in Callers : SC!HoldsTicket(u)' =>
         /\ SC!HoldsTicket(u) /\ call'[u] = call[u]
         /\ call[u].generation \in Int
         /\ call[u].generation <= mutation_generation
  BY <1>1 DEF SC!HoldsTicket, AuthInv, TicketsBehind, Domains, SC!Probes
<1>7. mutation_generation \in Int
  BY DEF Domains
<1>8. TicketsBehind'
  BY <1>2, <1>6, <1>7 DEF TicketsBehind
<1>9. ProbesSeeLogins'
  BY <1>2, <1>6, <1>7 DEF ProbesSeeLogins
<1>10. ReadinessPostdatesLogin'
  BY <1>3, <1>4, <1>5 DEF AuthInv, ReadinessPostdatesLogin
<1> QED
  BY <1>5, <1>8, <1>9, <1>10 DEF AuthInv

\* Every step keeps the invariant.
LEMMA AuthNext ==
    ASSUME Types, Types', AuthInv, [Next]_vars
    PROVE  AuthInv'
<1>1. Domains /\ Domains'
  BY TypesGiveDomains, PTL
<1>2. mutation_generation \in Int
  BY <1>1 DEF Domains
<1>3. ASSUME Quiet PROVE AuthInv'
  BY <1>1, <1>3, QuietKeeps
<1>4. ASSUME NEW c \in Coordinators, CoordinatorOnly(c) PROVE AuthInv'
  BY <1>3, <1>4, CoordinatorOnlyIsQuiet
<1>5. ASSUME BelowWrap, NEW c \in Coordinators, NEW t \in Targets, NEW timeout \in LoginTimeouts,
             NEW now \in 0..clock, BeginLogin(c, t, timeout, now)
      PROVE  AuthInv'
  BY <1>1, <1>5, BeginKeeps
<1>6. ASSUME BelowWrap, NEW c \in Coordinators, NEW t \in Targets, LoginIdExhausted(c, t)
      PROVE  AuthInv'
  <2>1. SC!Advance({t}) /\ UNCHANGED <<leases, stage, call, evidence>>
    BY <1>6, ExhaustedStep DEF SC!Invalidate, SC!InvalidateTarget, SC!calls, coordinatorVars
  <2> QED
    BY <1>3, <1>6, <2>1, InvalidationIsQuiet
<1>7. ASSUME NEW u \in Callers, TakeTicket(u) PROVE AuthInv'
  BY <1>1, <1>7, TicketKeeps
<1>8. ASSUME NEW u \in Callers, NEW at \in 0..clock, NEW ttl \in Ttls, StoreReady(u, at, ttl)
      PROVE  AuthInv'
  BY <1>1, <1>8, StoreKeeps
<1>9. ASSUME BelowWrap, NEW u \in Callers, CacheOnly(u) PROVE AuthInv'
  BY <1>1, <1>3, <1>9, CacheOnlyIsQuiet
<1>10. ASSUME BelowWrap, HostOnly PROVE AuthInv'
  BY <1>3, <1>10, HostOnlyIsQuiet
<1>11. ASSUME UNCHANGED <<coordinatorVars, statusVars, evidence>> PROVE AuthInv'
  BY <1>2, <1>3, <1>11
  DEF coordinatorVars, statusVars, Quiet, NoNewLogin, Running, NoNewEntry, ProbesKept, SC!HoldsTicket
<1>12. ASSUME Tick \/ UNCHANGED vars PROVE AuthInv'
  BY <1>11, <1>12 DEF Tick, vars
<1>13. CASE Next
  <2>0. BelowWrap
    BY <1>13 DEF Next
  <2>1. CASE \E c \in Coordinators :
                \/ CoordinatorOnly(c)
                \/ \E t \in Targets :
                      \/ \E timeout \in LoginTimeouts, now \in 0..clock : BeginLogin(c, t, timeout, now)
                      \/ LoginIdExhausted(c, t)
    BY <1>4, <1>5, <1>6, <2>0, <2>1
  <2>2. CASE \E u \in Callers :
                \/ TakeTicket(u)
                \/ \E at \in 0..clock, ttl \in Ttls : StoreReady(u, at, ttl)
                \/ CacheOnly(u)
    BY <1>7, <1>8, <1>9, <2>0, <2>2
  <2> QED
    BY <1>10, <1>12, <1>13, <2>0, <2>1, <2>2 DEF Next
<1> QED
  BY <1>12, <1>13

\* The invariant holds of every reachable state.
LEMMA AuthInvariant == Spec => []AuthInv
<1>1. Init => AuthInv
  BY DEF Init, LC!Init, SC!Init, AuthInv, EvidenceOK, TicketsBehind, ProbesSeeLogins,
         ReadinessPostdatesLogin, SC!HoldsTicket
<1>2. Types /\ Types' /\ AuthInv /\ [Next]_vars => AuthInv'
  BY AuthNext
<1>3. Spec => []Types
  BY ComponentInvariants DEF Types
<1> QED
  BY <1>1, <1>2, <1>3, PTL DEF Spec

\* Both components keep their types together, and the histories name leases.
THEOREM TypeCorrect == Spec => []TypeOK
<1>1. Types /\ AuthInv => TypeOK
  <2> SUFFICES ASSUME Types, AuthInv PROVE TypeOK
    OBVIOUS
  <2>1. LC!TypeOK
    BY CoordinatorNames DEF Types, LCP!TypeInv
  <2>2. SC!TypeOK
    <3>1. SCP!TypeOK
      BY DEF Types, SCP!TypeInv, SCP!TypeOK, SCP!StoreOK, SCP!CallsOK, SCP!WorldOK
    <3> QED
      BY <3>1, CacheNames
  <2> QED
    BY <2>1, <2>2 DEF TypeOK, AuthInv, EvidenceOK
<1>2. Spec => []Types
  BY ComponentInvariants DEF Types
<1> QED
  BY <1>1, <1>2, AuthInvariant, PTL

\* While a login occupies a target, cached readiness of that target comes from
\* a probe that began after the login was admitted, whichever coordinator
\* admitted it and however many probes were under way (begin_login against
\* begin_observation and store_ready).
THEOREM ReadinessIsFresh == Spec => []ReadinessPostdatesLogin
<1>1. AuthInv => ReadinessPostdatesLogin
  BY DEF AuthInv
<1> QED
  BY <1>1, AuthInvariant, PTL

-----------------------------------------------------------------------------
(* Host-owned sessions and what is delegated to their owners.              *)

CallStages == {"idle", "before", "sent", "answered", "failed"}
Certainties == {"not_dispatched", "dispatched", "unknown"}
Outcomes == Certainties \cup {"none", "complete", "additional_input", "remote_task"}

\* The owner holds one thing, at a revision, and has an adapter of the contract.
OwnerInv ==
    /\ sa_owner = [identity |-> sa_owner.identity, class |-> sa_owner.class, state |-> sa_owner.state,
                   revision |-> sa_owner.revision]
    /\ sa_owner.revision \in Nat
    /\ sa_adapter # Strategy!Nothing /\ sa_contract.auth = "browser_profile" =>
        /\ sa_adapter.identity.provider = sa_contract.provider
        /\ sa_contract.selection = "fixed" => sa_adapter.identity.alias = sa_contract.alias
    /\ sa_observation # Strategy!Nothing => sa_adapter # Strategy!Nothing /\ sa_observation.revision \in Nat

\* What was prepared is of a browser profile that has an adapter.
PreparedInv ==
    sa_prepared # Strategy!Nothing =>
        /\ sa_adapter # Strategy!Nothing /\ sa_contract.auth = "browser_profile"
        /\ sa_prepared = [identity |-> sa_prepared.identity, class |-> sa_prepared.class, revision |-> sa_prepared.revision]

\* Statuses and invalidations are of the contract, at a revision.
OfContract(s) == s.kind = Strategy!Kind(sa_contract) /\ s.auth = sa_contract.auth /\ s.revision \in Nat
ReportsInv ==
    /\ \A s \in sa_flight : OfContract(s)
    /\ sa_status # Strategy!Nothing => OfContract(sa_status)
    /\ sa_invalidation # Strategy!Nothing => OfContract(sa_invalidation)
    /\ Strategy!LateStatusIsDropped

\* An invocation that is said not to have been dispatched was not sent.
InvocationInv ==
    /\ sa_call \in [stage : CallStages, outcome : Outcomes, sent : 0..1, retries : Nat]
    /\ sa_call.stage = "failed" => sa_call.outcome \in Certainties
    /\ sa_call.stage \in {"idle", "before"} \/ (sa_call.stage = "failed" /\ sa_call.outcome = "not_dispatched") =>
        sa_call.sent = 0

DelegationInv == OwnerInv /\ PreparedInv /\ ReportsInv /\ InvocationInv /\ Strategy!DelegationIsCurrent

\* What is assumed of owners and selections.
LEMMA OwnersAssumed ==
    /\ \A o \in sa_Owners : o \in [identity : {o.identity}, class : {o.class}, state : {o.state}, revision : Nat]
    /\ \A s \in sa_Selections : "permission" \in DOMAIN s \/ s.mode \in {"selected", "implicit", "none"}
BY DecisionAssumption DEF Strategy!StrategyAssumption

\* What a step leaves alone keeps its part of the invariant.
LEMMA OwnerKept ==
    ASSUME OwnerInv, UNCHANGED <<sa_contract, sa_adapter, sa_owner, sa_observation>>
    PROVE  OwnerInv'
BY DEF OwnerInv

\* A step that prepares nothing leaves what was prepared as it was.
LEMMA PreparedKept ==
    ASSUME PreparedInv, UNCHANGED <<sa_contract, sa_adapter, sa_prepared>>
    PROVE  PreparedInv'
BY DEF PreparedInv, Strategy!Nothing

\* A step that hears no report leaves the reports as they were.
LEMMA ReportsKept ==
    ASSUME ReportsInv, UNCHANGED <<sa_contract, sa_flight, sa_status, sa_invalidation>>
    PROVE  ReportsInv'
BY DEF ReportsInv, OfContract, Strategy!LateStatusIsDropped, Strategy!Nothing, Strategy!Kind

\* A step that sends nothing leaves the invocation as it was.
LEMMA InvocationKept ==
    ASSUME InvocationInv, UNCHANGED sa_call
    PROVE  InvocationInv'
BY DEF InvocationInv

\* A step that issues no authority leaves the delegation as it was.
LEMMA DelegationKept ==
    ASSUME Strategy!DelegationIsCurrent, UNCHANGED <<sa_contract, sa_authority>>
    PROVE  Strategy!DelegationIsCurrent'
BY DEF Strategy!DelegationIsCurrent, Strategy!Nothing

\* A browser adapter names the profile that the contract asks for.
LEMMA AdapterStep ==
    ASSUME DelegationInv, NEW s \in sa_Selections, NEW class \in sa_Classes, Strategy!Bind(s, class)
    PROVE  DelegationInv'
<1>1. /\ sa_adapter = Strategy!Nothing
      /\ sa_adapter' = IF "permission" \in DOMAIN s THEN Strategy!NativeAdapter(s.permission, s.binding)
                      ELSE Strategy!BrowserAdapter(s, class)
      /\ UNCHANGED <<sa_contract, sa_owner, sa_observation, sa_flight, sa_status, sa_invalidation,
                     sa_prepared, sa_authority, sa_call>>
  BY DEF Strategy!Bind
<1>2. sa_observation = Strategy!Nothing /\ sa_prepared = Strategy!Nothing
  BY <1>1 DEF DelegationInv, OwnerInv, PreparedInv
<1>3. ASSUME sa_adapter' # Strategy!Nothing, sa_contract.auth = "browser_profile"
      PROVE  /\ sa_adapter'.identity.provider = sa_contract.provider
             /\ sa_contract.selection = "fixed" => sa_adapter'.identity.alias = sa_contract.alias
  <2>1. "permission" \notin DOMAIN s
    BY <1>1, <1>3 DEF Strategy!NativeAdapter, Strategy!NativeContract
  <2>2. /\ Strategy!SelectionFits(sa_contract, s)
        /\ sa_adapter'.identity = Strategy!Identity(s)
    BY <1>1, <1>3, <2>1 DEF Strategy!BrowserAdapter
  <2>3. s.mode \in {"selected", "implicit", "none"}
    BY <2>1, OwnersAssumed
  <2>4. /\ s.provider = sa_contract.provider
        /\ sa_contract.selection = "fixed" => s.mode = "selected" /\ s.alias = sa_contract.alias
    BY <2>2, <2>3 DEF Strategy!SelectionFits
  <2> QED
    BY <2>2, <2>4 DEF Strategy!Identity
<1>4. OwnerInv'
  BY <1>1, <1>2, <1>3 DEF DelegationInv, OwnerInv, Strategy!Nothing
<1>5. PreparedInv'
  BY <1>1, <1>2 DEF PreparedInv, Strategy!Nothing
<1> QED
  BY <1>1, <1>4, <1>5, ReportsKept, InvocationKept, DelegationKept DEF DelegationInv

\* The owner changes by itself, and keeps its revision.
LEMMA OwnerStep ==
    ASSUME DelegationInv,
           \/ \E state \in Strategy!States : Strategy!OwnerChangesState(state)
           \/ Strategy!OwnerReplacesProfile \/ Strategy!Interact
    PROVE  DelegationInv'
<1>1. UNCHANGED <<sa_contract, sa_adapter, sa_observation, sa_flight, sa_status, sa_invalidation,
                  sa_prepared, sa_authority, sa_call>>
  BY DEF Strategy!OwnerChangesState, Strategy!OwnerReplacesProfile, Strategy!Interact
<1>2. \/ \E state : sa_owner' = [sa_owner EXCEPT !.state = state]
      \/ \E identity : sa_owner' = [sa_owner EXCEPT !.identity = identity]
  BY DEF Strategy!OwnerChangesState, Strategy!OwnerReplacesProfile, Strategy!Interact
<1>3. /\ sa_owner' = [identity |-> sa_owner'.identity, class |-> sa_owner'.class, state |-> sa_owner'.state,
                      revision |-> sa_owner'.revision]
      /\ sa_owner'.revision = sa_owner.revision
  BY <1>2 DEF DelegationInv, OwnerInv
<1>4. OwnerInv'
  BY <1>1, <1>3 DEF DelegationInv, OwnerInv
<1> QED
  BY <1>1, <1>4, PreparedKept, ReportsKept, InvocationKept, DelegationKept DEF DelegationInv

\* The host is told of a newer revision: it forgets an older status, and takes
\* what it was about to send for not sent.
LEMMA SessionStep ==
    ASSUME DelegationInv, NEW class \in sa_Classes, NEW state \in Strategy!Renewed,
           NEW cause \in {"browser_session_changed", "native_permission_changed"},
           Strategy!OwnerReplacesSession(class, state, cause)
    PROVE  DelegationInv'
<1>1. /\ sa_owner' = [sa_owner EXCEPT !.revision = @ + 1, !.class = class, !.state = state]
      /\ sa_invalidation' = [kind |-> Strategy!Kind(sa_contract), auth |-> sa_contract.auth,
                             revision |-> sa_owner.revision + 1, effect |-> Strategy!Effect(cause)]
      /\ sa_status' = IF sa_status # Strategy!Nothing /\ Strategy!Supersedes(sa_invalidation', sa_status)
                         /\ "status" \in Strategy!Effect(cause) THEN Strategy!Nothing ELSE sa_status
      /\ sa_call' = IF sa_call.stage = "before" THEN [sa_call EXCEPT !.stage = "failed", !.outcome = "not_dispatched"]
                    ELSE sa_call
      /\ UNCHANGED <<sa_contract, sa_adapter, sa_observation, sa_flight, sa_prepared, sa_authority>>
  BY DEF Strategy!OwnerReplacesSession
<1>2. OwnerInv'
  <2>1. /\ sa_owner' = [identity |-> sa_owner'.identity, class |-> sa_owner'.class, state |-> sa_owner'.state,
                        revision |-> sa_owner'.revision]
        /\ sa_owner'.revision = sa_owner.revision + 1
    BY <1>1 DEF DelegationInv, OwnerInv
  <2>2. sa_owner'.revision \in Nat
    BY <2>1 DEF DelegationInv, OwnerInv
  <2> QED
    BY <1>1, <2>1, <2>2 DEF DelegationInv, OwnerInv
<1>3. ReportsInv'
  <2>1. OfContract(sa_invalidation')
    BY <1>1 DEF DelegationInv, OwnerInv, OfContract
  <2>2. "status" \in Strategy!Effect(cause)
    BY DEF Strategy!Effect
  <2>3. sa_status' # Strategy!Nothing =>
          sa_status' = sa_status /\ OfContract(sa_status) /\ sa_status.revision >= sa_invalidation'.revision
    BY <1>1, <2>1, <2>2 DEF DelegationInv, ReportsInv, Strategy!Supersedes, OfContract
  <2>4. Strategy!LateStatusIsDropped'
    BY <2>3 DEF Strategy!LateStatusIsDropped, Strategy!Nothing
  <2> QED
    BY <1>1, <2>1, <2>3, <2>4 DEF DelegationInv, ReportsInv, OfContract, Strategy!Kind, Strategy!Nothing
<1>4. InvocationInv'
  BY <1>1 DEF DelegationInv, InvocationInv, CallStages, Outcomes, Certainties
<1> QED
  BY <1>1, <1>2, <1>3, <1>4, PreparedKept, DelegationKept DEF DelegationInv

\* The host observes the owner and projects a status from what it saw.
LEMMA ObserveStep ==
    ASSUME DelegationInv, Strategy!Observe \/ Strategy!ProjectStatus
    PROVE  DelegationInv'
<1>1. CASE Strategy!Observe
  <2>1. /\ sa_adapter # Strategy!Nothing /\ sa_observation' = sa_owner
        /\ UNCHANGED <<sa_contract, sa_adapter, sa_owner, sa_flight, sa_status, sa_invalidation, sa_prepared,
                       sa_authority, sa_call>>
    BY <1>1 DEF Strategy!Observe
  <2>2. OwnerInv'
    BY <2>1 DEF DelegationInv, OwnerInv, Strategy!Nothing
  <2> QED
    BY <2>1, <2>2, PreparedKept, ReportsKept, InvocationKept, DelegationKept DEF DelegationInv
<1>2. CASE Strategy!ProjectStatus
  <2>1. /\ sa_observation # Strategy!Nothing
        /\ \E s : /\ s.kind = Strategy!Kind(sa_contract) /\ s.auth = sa_contract.auth
                  /\ s.revision = sa_observation.revision
                  /\ sa_flight' = sa_flight \cup {s}
        /\ UNCHANGED <<sa_contract, sa_adapter, sa_owner, sa_observation, sa_status, sa_invalidation, sa_prepared,
                       sa_authority, sa_call>>
    BY <1>2 DEF Strategy!ProjectStatus
  <2>2. ReportsInv'
    BY <2>1 DEF DelegationInv, OwnerInv, ReportsInv, OfContract, Strategy!LateStatusIsDropped, Strategy!Kind,
       Strategy!Nothing
  <2> QED
    BY <2>1, <2>2, OwnerKept, PreparedKept, InvocationKept, DelegationKept DEF DelegationInv
<1> QED
  BY <1>1, <1>2

\* A status that an invalidation supersedes is dropped when it arrives.
LEMMA ReceiveStep ==
    ASSUME DelegationInv, NEW s \in sa_flight, Strategy!ReceiveStatus(s)
    PROVE  DelegationInv'
<1>1. /\ sa_flight' = sa_flight \ {s}
      /\ sa_status' = IF sa_invalidation # Strategy!Nothing /\ "status" \in sa_invalidation.effect
                         /\ Strategy!Supersedes(sa_invalidation, s) THEN sa_status ELSE s
      /\ UNCHANGED <<sa_contract, sa_adapter, sa_owner, sa_observation, sa_invalidation, sa_prepared, sa_authority,
                     sa_call>>
  BY DEF Strategy!ReceiveStatus
<1>2. OfContract(s) /\ (sa_invalidation # Strategy!Nothing => OfContract(sa_invalidation))
  BY DEF DelegationInv, ReportsInv
<1>3. Strategy!LateStatusIsDropped'
  BY <1>1, <1>2 DEF DelegationInv, ReportsInv, Strategy!LateStatusIsDropped, Strategy!Supersedes, OfContract,
     Strategy!Nothing
<1>4. ReportsInv'
  BY <1>1, <1>2, <1>3 DEF DelegationInv, ReportsInv, OfContract, Strategy!Kind, Strategy!Nothing
<1> QED
  BY <1>1, <1>4, OwnerKept, PreparedKept, InvocationKept, DelegationKept DEF DelegationInv

\* A dispatch is prepared from an observation and used up by the one after it.
LEMMA DispatchStep ==
    ASSUME DelegationInv, Strategy!PrepareDispatch \/ Strategy!AuthorizeDispatch
    PROVE  DelegationInv'
<1>1. CASE Strategy!PrepareDispatch
  <2>1. /\ sa_observation # Strategy!Nothing /\ sa_contract.auth = "browser_profile"
        /\ sa_prepared' = [identity |-> sa_adapter.identity, class |-> sa_adapter.class,
                           revision |-> sa_observation.revision]
        /\ UNCHANGED <<sa_contract, sa_adapter, sa_owner, sa_observation, sa_flight, sa_status, sa_invalidation,
                       sa_authority, sa_call>>
    BY <1>1 DEF Strategy!PrepareDispatch
  <2>2. PreparedInv'
    BY <2>1 DEF DelegationInv, OwnerInv, PreparedInv, Strategy!Nothing
  <2> QED
    BY <2>1, <2>2, OwnerKept, ReportsKept, InvocationKept, DelegationKept DEF DelegationInv
<1>2. CASE Strategy!AuthorizeDispatch
  <2>1. /\ sa_prepared # Strategy!Nothing /\ sa_prepared' = Strategy!Nothing
        /\ sa_authority' = IF Strategy!ReadyObservation(sa_owner) /\ Strategy!MatchesFresh
                           THEN [granted |-> sa_prepared, fresh |-> sa_owner] ELSE sa_authority
        /\ UNCHANGED <<sa_contract, sa_adapter, sa_owner, sa_observation, sa_flight, sa_status, sa_invalidation,
                       sa_call>>
    BY <1>2 DEF Strategy!AuthorizeDispatch
  <2>2. Strategy!DelegationIsCurrent'
    <3>1. CASE Strategy!ReadyObservation(sa_owner) /\ Strategy!MatchesFresh
      <4>1. /\ sa_owner.identity = sa_adapter.identity /\ sa_owner.class = sa_adapter.class
            /\ sa_owner.state = "ready"
            /\ sa_prepared.identity = sa_adapter.identity /\ sa_prepared.class = sa_adapter.class
            /\ sa_prepared.revision = sa_owner.revision
        BY <3>1 DEF Strategy!ReadyObservation, Strategy!ValidObservation, Strategy!MatchesFresh,
           Strategy!MatchesIdentity
      <4>2. /\ sa_prepared = [identity |-> sa_owner.identity, class |-> sa_owner.class, revision |-> sa_owner.revision]
            /\ sa_owner.identity.provider = sa_contract.provider
            /\ sa_contract.selection = "fixed" => sa_owner.identity.alias = sa_contract.alias
        BY <2>1, <4>1 DEF DelegationInv, PreparedInv, OwnerInv
      <4>3. sa_authority'.granted = sa_prepared /\ sa_authority'.fresh = sa_owner /\ sa_contract' = sa_contract
        BY <2>1, <3>1
      <4> QED
        BY <4>1, <4>2, <4>3 DEF Strategy!DelegationIsCurrent
    <3>2. CASE ~(Strategy!ReadyObservation(sa_owner) /\ Strategy!MatchesFresh)
      BY <2>1, <3>2, DelegationKept DEF DelegationInv
    <3> QED
      BY <3>1, <3>2
  <2>3. PreparedInv'
    BY <2>1 DEF PreparedInv, Strategy!Nothing
  <2> QED
    BY <2>1, <2>2, <2>3, OwnerKept, ReportsKept, InvocationKept DEF DelegationInv
<1> QED
  BY <1>1, <1>2

\* An invocation is tried again only where it was not sent.
LEMMA InvocationStep ==
    ASSUME DelegationInv,
           \/ \E demand \in {"unauthenticated_allowed", "authentication_required"} : Strategy!Begin(demand)
           \/ Strategy!Deliver
           \/ \E outcome \in {"complete", "additional_input", "remote_task"} : Strategy!Answer(outcome)
           \/ \E code \in {"policy_denied", "transport_failure", "malformed_response"}, certainty \in Certainties :
                Strategy!Fail(code, certainty)
           \/ Strategy!Retry
    PROVE  DelegationInv'
<1>1. UNCHANGED <<sa_contract, sa_adapter, sa_owner, sa_observation, sa_flight, sa_status, sa_invalidation,
                  sa_prepared, sa_authority>>
  BY DEF Strategy!Begin, Strategy!Deliver, Strategy!Answer, Strategy!Fail, Strategy!Retry
<1>2. InvocationInv
  BY DEF DelegationInv
<1>3. (\E demand \in {"unauthenticated_allowed", "authentication_required"} : Strategy!Begin(demand)) => InvocationInv'
  BY <1>2 DEF InvocationInv, CallStages, Outcomes, Certainties, Strategy!Begin
<1>4. ASSUME Strategy!Deliver
      PROVE  InvocationInv'
  <2>1. /\ sa_call.stage = "before" /\ sa_call' = [sa_call EXCEPT !.stage = "sent", !.sent = @ + 1]
        /\ sa_call.sent = 0 /\ sa_call \in [stage : CallStages, outcome : Outcomes, sent : 0..1, retries : Nat]
    BY <1>2, <1>4 DEF InvocationInv, Strategy!Deliver
  <2>2. sa_call' = [sa_call EXCEPT !.stage = "sent", !.sent = 1] /\ 1 \in 0..1 /\ "sent" \in CallStages
    BY <2>1 DEF CallStages
  <2>3. sa_call' \in [stage : CallStages, outcome : Outcomes, sent : 0..1, retries : Nat] /\ sa_call'.stage = "sent"
    BY <2>1, <2>2
  <2> QED
    BY <2>3 DEF InvocationInv
<1>5. (\E outcome \in {"complete", "additional_input", "remote_task"} : Strategy!Answer(outcome)) => InvocationInv'
  BY <1>2 DEF InvocationInv, CallStages, Outcomes, Certainties, Strategy!Answer
<1>6. ASSUME \E code \in {"policy_denied", "transport_failure", "malformed_response"}, certainty \in Certainties :
                Strategy!Fail(code, certainty)
      PROVE  InvocationInv'
  <2>1. PICK certainty \in Certainties :
          /\ sa_call.stage \in {"before", "sent"} /\ certainty \in Strategy!Certainty(sa_call.stage)
          /\ sa_call' = [sa_call EXCEPT !.stage = "failed", !.outcome = certainty]
    BY <1>6 DEF Strategy!Fail
  <2>2. certainty = "not_dispatched" => sa_call.stage = "before"
    BY <2>1 DEF Strategy!Certainty
  <2> QED
    BY <1>2, <2>1, <2>2 DEF InvocationInv, CallStages, Outcomes, Certainties
<1>7. ASSUME Strategy!Retry
      PROVE  InvocationInv'
  <2>1. /\ sa_call.stage = "failed" /\ Strategy!RetryDisposition(sa_call.outcome) = "safe_before_dispatch"
        /\ sa_call' = [sa_call EXCEPT !.stage = "before", !.outcome = "none", !.retries = @ + 1]
    BY <1>7 DEF Strategy!Retry
  <2>2. sa_call.outcome = "not_dispatched"
    BY <1>2, <2>1 DEF InvocationInv, Certainties, Strategy!RetryDisposition
  <2>3. /\ sa_call.sent = 0 /\ sa_call.retries + 1 \in Nat /\ "before" \in CallStages /\ "none" \in Outcomes
        /\ sa_call \in [stage : CallStages, outcome : Outcomes, sent : 0..1, retries : Nat]
    BY <1>2, <2>1, <2>2 DEF InvocationInv, CallStages, Outcomes
  <2>4. /\ sa_call' \in [stage : CallStages, outcome : Outcomes, sent : 0..1, retries : Nat]
        /\ sa_call'.stage = "before" /\ sa_call'.sent = 0
    BY <2>1, <2>3
  <2> QED
    BY <2>4 DEF InvocationInv
<1>8. InvocationInv'
  BY <1>3, <1>4, <1>5, <1>6, <1>7
<1> QED
  BY <1>1, <1>8, OwnerKept, PreparedKept, ReportsKept, DelegationKept DEF DelegationInv

\* Whatever sessions, permissions, statuses and dispatches do meanwhile, for any
\* contracts, selections and numbers of revisions: a dispatch is delegated for what its
\* owner has at that moment, a status from before an invalidation is not acted upon,
\* and an invocation is sent once (StrategyAdapter, BrowserProfileAdapter).
THEOREM DelegationStaysCurrent == Strategy!Spec => []DelegationIsCurrent
<1>1. Strategy!Init => DelegationInv
  <2> SUFFICES ASSUME Strategy!Init
               PROVE  DelegationInv
    OBVIOUS
  <2>1. /\ sa_owner \in [identity : {sa_owner.identity}, class : {sa_owner.class}, state : {sa_owner.state}, revision : Nat]
        /\ sa_adapter = Strategy!Nothing /\ sa_observation = Strategy!Nothing /\ sa_flight = {}
        /\ sa_status = Strategy!Nothing /\ sa_invalidation = Strategy!Nothing /\ sa_prepared = Strategy!Nothing
        /\ sa_authority = Strategy!Nothing /\ sa_call = Strategy!Idle
    BY OwnersAssumed DEF Strategy!Init
  <2>2. OwnerInv
    BY <2>1 DEF OwnerInv
  <2>3. InvocationInv
    BY <2>1 DEF InvocationInv, Strategy!Idle, CallStages, Outcomes, Certainties
  <2> QED
    BY <2>1, <2>2, <2>3 DEF DelegationInv, PreparedInv, ReportsInv, Strategy!DelegationIsCurrent,
       Strategy!LateStatusIsDropped
<1>2. DelegationInv /\ [Strategy!Next]_(Strategy!vars) => DelegationInv'
  <2> SUFFICES ASSUME DelegationInv, [Strategy!Next]_(Strategy!vars)
               PROVE  DelegationInv'
    OBVIOUS
  <2>1. CASE UNCHANGED Strategy!vars
    BY <2>1, OwnerKept, PreparedKept, ReportsKept, InvocationKept, DelegationKept DEF DelegationInv, Strategy!vars
  <2>2. CASE Strategy!Next
    BY <2>2, AdapterStep, OwnerStep, SessionStep, ObserveStep, ReceiveStep, DispatchStep, InvocationStep
    DEF Strategy!Next, Certainties
  <2> QED
    BY <2>1, <2>2
<1>3. DelegationInv => DelegationIsCurrent
  BY DEF DelegationInv, ReportsInv, InvocationInv, DelegationIsCurrent, Strategy!AutomaticRetrySendsOnce
<1> QED
  BY <1>1, <1>2, <1>3, PTL DEF Strategy!Spec

-----------------------------------------------------------------------------
(* Opening a directory that was issued, while its path changes.            *)

Locators == {"container", "workspace", "auth"} \cup sp_Profiles
Walking == {"open", "issue", "authorize", "before", "after"}

\* A walk stands at a component of its path; it was begun for a directory that
\* was not issued, or for one that was; and what a pin has opened is that one.
WalkInv ==
    /\ sp_walk \in [purpose : Walking \cup {"none", "open_directory"}, locator : Locators, at : Nat,
                   looked : BOOLEAN, found : {sp_walk.found}]
    /\ IF sp_walk.purpose \in Walking THEN sp_walk.at \in 1..Len(Scoped!PathTo(sp_walk.locator))
       ELSE sp_walk.at = 0 /\ ~sp_walk.looked
    /\ sp_walk.purpose = "open" => sp_walk.locator = "container"
    /\ sp_walk.purpose \notin {"none", "open"} => sp_walk.locator \in sp_Used
    /\ sp_walk.purpose = "issue" => sp_handles[sp_walk.locator] = {}
    /\ sp_walk.purpose \in {"authorize", "before", "open_directory", "after"} => sp_handles[sp_walk.locator] # {}
    /\ sp_walk.purpose = "after" => sp_descriptor = sp_handles[sp_walk.locator]

\* What was pinned was issued before, and is not issued again.
IssuedInv ==
    /\ DOMAIN sp_handles = sp_Used
    /\ \A p \in sp_pinned : p.locator \in sp_Used /\ p.identity = sp_handles[p.locator] /\ p.identity # {}

FirstNode(p) ==
    [kind |-> "directory", owner |-> sp_User, device |-> sp_Device, inode |-> sp_Inodes[p],
     mode |-> IF Scoped!IsCredential(p) THEN "private" ELSE "readable"]

\* While nobody touched anything, the tree is the first, and whatever was found
\* and issued is of it.
Untouched ==
    sp_changes = 0 =>
        /\ \A p \in Scoped!Positions : sp_tree[p] = FirstNode(p)
        /\ sp_aliases = {} /\ sp_crowd = sp_MaxEntries
        /\ sp_container \in {{}, Scoped!Identity(FirstNode("container"))}
        /\ \A l \in sp_Used : sp_handles[l] \in {{}, Scoped!Identity(FirstNode(l))}
        /\ sp_walk.looked =>
            sp_walk.found = Scoped!Identity(FirstNode(Scoped!PathTo(sp_walk.locator)[sp_walk.at]))

ScopedInv ==
    /\ sp_changes \in Nat
    /\ WalkInv /\ IssuedInv /\ Untouched /\ Scoped!UntouchedIsAccepted

\* Names of profiles are not names of the tree, and what is used is a locator.
LEMMA LocatorsAssumed ==
    /\ sp_Profiles \cap {"container", "principal", "workspace", "auth"} = {}
    /\ sp_Used \subseteq Locators
    /\ sp_MaxEntries \in Nat
BY DecisionAssumption DEF Scoped!ScopedAssumption, Locators

\* A path leads from the container to its locator.
LEMMA PathFacts ==
    ASSUME NEW l \in Locators
    PROVE  /\ Scoped!PathTo(l) \in Seq(Scoped!Positions)
           /\ Len(Scoped!PathTo(l)) \in Nat \ {0}
           /\ Scoped!PathTo(l)[1] = "container"
           /\ Scoped!PathTo(l)[Len(Scoped!PathTo(l))] = l
<1> DEFINE scope == <<"container", "principal", "workspace">>
<1>0. {"container", "principal", "workspace", "auth"} \subseteq Scoped!Positions /\ sp_Profiles \subseteq Scoped!Positions
  BY DEF Scoped!Positions
<1>1. scope \in Seq(Scoped!Positions) /\ Len(scope) = 3 /\ scope[1] = "container" /\ scope[3] = "workspace"
  BY <1>0
<1>2. CASE l = "container"
  <2>1. Scoped!PathTo(l) = <<"container">>
    BY <1>2, LocatorsAssumed DEF Scoped!PathTo
  <2>2. <<"container">> \in Seq(Scoped!Positions) /\ Len(<<"container">>) = 1 /\ <<"container">>[1] = "container"
    BY <1>0
  <2> QED
    BY <1>2, <2>1, <2>2
<1>3. CASE l = "workspace"
  <2>1. Scoped!PathTo(l) = scope
    BY <1>3, LocatorsAssumed DEF Scoped!PathTo
  <2> HIDE DEF scope
  <2>2. Len(scope) \in Nat \ {0} /\ scope[Len(scope)] = "workspace"
    BY <1>1
  <2> QED
    BY <1>1, <1>3, <2>1, <2>2
<1>4. CASE l = "auth"
  <2>1. Scoped!PathTo(l) = Append(scope, "auth")
    BY <1>4, LocatorsAssumed DEF Scoped!PathTo
  <2> QED
    BY <1>0, <1>1, <1>4, <2>1
<1>5. CASE l \in sp_Profiles
  <2>1. Scoped!PathTo(l) = scope \o <<"auth", l>>
    BY <1>5, LocatorsAssumed DEF Scoped!PathTo
  <2>2. <<"auth", l>> \in Seq(Scoped!Positions) /\ Len(<<"auth", l>>) = 2 /\ <<"auth", l>>[2] = l
    BY <1>0, <1>5
  <2> HIDE DEF scope
  <2> QED
    BY <1>1, <2>1, <2>2
<1> QED
  BY <1>2, <1>3, <1>4, <1>5 DEF Locators

\* The path that was walked so far ends with the component the walk is at.
LEMMA WalkedFacts ==
    ASSUME WalkInv, sp_walk.purpose \in Walking
    PROVE  /\ Scoped!WalkedPath \in Seq(Scoped!Positions)
           /\ Len(Scoped!WalkedPath) = sp_walk.at
           /\ sp_walk.at \in 1..Len(Scoped!PathTo(sp_walk.locator))
           /\ Scoped!WalkedPath[sp_walk.at] = Scoped!PathTo(sp_walk.locator)[sp_walk.at]
           /\ Scoped!Parent(Scoped!WalkedPath) \in Seq(Scoped!Positions)
<1> DEFINE path == Scoped!PathTo(sp_walk.locator)
           at == sp_walk.at
<1>1. path \in Seq(Scoped!Positions) /\ at \in 1..Len(path)
  BY PathFacts DEF WalkInv
<1> HIDE DEF path, at
<1>2. SubSeq(path, 1, at) \in Seq(Scoped!Positions) /\ Len(SubSeq(path, 1, at)) = at /\ SubSeq(path, 1, at)[at] = path[at]
  BY <1>1
<1>3. Scoped!WalkedPath = SubSeq(path, 1, at)
  BY DEF Scoped!WalkedPath, path, at
<1>4. SubSeq(Scoped!WalkedPath, 1, at - 1) \in Seq(Scoped!Positions)
  BY <1>1, <1>2, <1>3
<1> QED
  BY <1>1, <1>2, <1>3, <1>4 DEF Scoped!Parent, path, at

\* In the first tree no path leads through a link, and each position is as it should be.
LEMMA FirstTree ==
    ASSUME \A p \in Scoped!Positions : sp_tree[p] = FirstNode(p),
           NEW path \in Seq(Scoped!Positions), Len(path) > 0, Scoped!Parent(path) \in Seq(Scoped!Positions)
    PROVE  /\ Scoped!Canonical(path)
           /\ Scoped!Seen(path) = FirstNode(path[Len(path)])
           /\ Scoped!Inspects(path) /\ Scoped!Openable(path)
<1>1. ASSUME NEW s \in Seq(Scoped!Positions)
      PROVE  ~Scoped!Linked(s)
  <2>1. ASSUME NEW i \in 1..Len(s)
        PROVE  sp_tree[s[i]].kind # "link"
    <3>1. s[i] \in Scoped!Positions
      OBVIOUS
    <3>2. sp_tree[s[i]] = FirstNode(s[i])
      BY <3>1
    <3>3. FirstNode(s[i]).kind = "directory"
      BY DEF FirstNode
    <3> QED
      BY <3>2, <3>3
  <2> QED
    BY <2>1 DEF Scoped!Linked
<1>2. path[Len(path)] \in Scoped!Positions
  OBVIOUS
<1>3. Scoped!Seen(path) = FirstNode(path[Len(path)])
  BY <1>1, <1>2 DEF Scoped!Seen
<1> QED
  BY <1>1, <1>3 DEF Scoped!Canonical, Scoped!Inspects, Scoped!Openable, Scoped!AcceptedModes, Scoped!SafeModes,
     Scoped!PrivateModes, Scoped!SharedModes, FirstNode

\* No walk is under way.
LEMMA NoWalkFits ==
    ASSUME sp_walk' = Scoped!NoWalk
    PROVE  WalkInv' /\ ~sp_walk'.looked
<1>1. sp_walk' = [purpose |-> "none", locator |-> "container", at |-> 0, looked |-> FALSE, found |-> {}]
  BY DEF Scoped!NoWalk, Scoped!WalkFor
<1> QED
  BY <1>1 DEF WalkInv, Locators, Walking

\* Only for a name that is not portable is a directory refused that nobody touched.
LEMMA RefuseStep ==
    ASSUME ScopedInv, Scoped!Refuse,
           sp_changes = 0 => \E i \in 2..Len(Scoped!PathTo(sp_walk.locator)) :
                                ~Scoped!PortableComponent(sp_Names[Scoped!PathTo(sp_walk.locator)[i]])
    PROVE  ScopedInv'
<1>1. /\ sp_walk' = Scoped!NoWalk
      /\ sp_refused' = IF sp_changes = 0 THEN sp_refused \cup {sp_walk.locator} ELSE sp_refused
      /\ UNCHANGED <<sp_tree, sp_aliases, sp_crowd, sp_changes, sp_container, sp_handles, sp_pinned>>
  BY DEF Scoped!Refuse, Scoped!World
<1>2. Scoped!UntouchedIsAccepted'
  BY <1>1 DEF ScopedInv, Scoped!UntouchedIsAccepted
<1>3. Untouched'
  BY <1>1, NoWalkFits DEF ScopedInv, Untouched
<1>4. IssuedInv'
  BY <1>1 DEF ScopedInv, IssuedInv
<1> QED
  BY <1>1, <1>2, <1>3, <1>4, NoWalkFits DEF ScopedInv

\* A walk begins.
LEMMA WalkForFits ==
    ASSUME ScopedInv, NEW purpose \in Walking, NEW l \in Locators, sp_walk' = Scoped!WalkFor(purpose, l),
           purpose = "open" => l = "container",
           purpose # "open" => l \in sp_Used,
           purpose = "issue" => sp_handles'[l] = {},
           purpose \in {"authorize", "before", "after"} => sp_handles'[l] # {},
           purpose = "after" => sp_descriptor' = sp_handles'[l]
    PROVE  WalkInv' /\ ~sp_walk'.looked
<1>1. sp_walk' = [purpose |-> purpose, locator |-> l, at |-> 1, looked |-> FALSE, found |-> {}]
  BY DEF Scoped!WalkFor
<1>2. 1 \in 1..Len(Scoped!PathTo(l)) /\ 1 \in Nat
  BY PathFacts
<1> QED
  BY <1>1, <1>2 DEF WalkInv, Walking

\* The start of a walk preserves the invariant.
LEMMA WalkStartStep ==
    ASSUME ScopedInv, NEW purpose \in {"open", "issue", "authorize", "before"}, NEW l \in Locators,
           Scoped!Start(purpose, l),
           purpose = "open" => l = "container",
           purpose # "open" => l \in sp_Used,
           purpose = "issue" => sp_handles[l] = {},
           purpose \in {"authorize", "before"} => sp_handles[l] # {}
    PROVE  ScopedInv'
<1>1. /\ sp_walk' = Scoped!WalkFor(purpose, l)
      /\ UNCHANGED <<sp_tree, sp_aliases, sp_crowd, sp_changes, sp_container, sp_handles, sp_descriptor,
                     sp_pinned, sp_refused>>
  BY DEF Scoped!Start, Scoped!World
<1>2. WalkInv' /\ ~sp_walk'.looked
  BY <1>1, WalkForFits DEF Walking
<1>3. Untouched'
  BY <1>1, <1>2 DEF ScopedInv, Untouched
<1> QED
  BY <1>1, <1>2, <1>3 DEF ScopedInv, IssuedInv, Scoped!UntouchedIsAccepted

\* A walk looks at a component: in the first tree only its name can be wrong.
LEMMA WalkLookStep ==
    ASSUME ScopedInv, Scoped!Look
    PROVE  ScopedInv'
<1> DEFINE path == Scoped!WalkedPath
           at == sp_walk.at
<1>1. sp_walk.purpose \in Walking
  BY DEF Scoped!Look, ScopedInv, WalkInv
<1>2. /\ path \in Seq(Scoped!Positions) /\ Len(path) = at /\ at \in 1..Len(Scoped!PathTo(sp_walk.locator))
      /\ path[at] = Scoped!PathTo(sp_walk.locator)[at] /\ Scoped!Parent(path) \in Seq(Scoped!Positions)
  BY <1>1, WalkedFacts DEF ScopedInv
<1>3. sp_changes = 0 => Scoped!Seen(path) = FirstNode(path[at]) /\ Scoped!Inspects(path)
  BY <1>2, FirstTree DEF ScopedInv, Untouched
<1>4. CASE Scoped!FindsExact(path) /\ Scoped!Inspects(path)
  <2>1. /\ sp_walk' = [sp_walk EXCEPT !.looked = TRUE, !.found = Scoped!Identity(Scoped!Seen(path))]
        /\ UNCHANGED <<sp_tree, sp_aliases, sp_crowd, sp_changes, sp_container, sp_handles, sp_descriptor,
                       sp_pinned, sp_refused>>
    BY <1>4 DEF Scoped!Look, Scoped!Refuse, Scoped!World
  <2>2. /\ sp_walk'.found = Scoped!Identity(Scoped!Seen(path))
        /\ sp_walk'.locator = sp_walk.locator /\ sp_walk'.at = at /\ sp_walk'.purpose = sp_walk.purpose
        /\ sp_walk' \in [purpose : Walking \cup {"none", "open_directory"}, locator : Locators, at : Nat,
                         looked : BOOLEAN, found : {sp_walk'.found}]
    BY <2>1 DEF ScopedInv, WalkInv
  <2>3. WalkInv'
    BY <1>1, <2>1, <2>2 DEF ScopedInv, WalkInv
  <2>4. Untouched'
    BY <1>2, <1>3, <2>1, <2>2 DEF ScopedInv, Untouched
  <2> QED
    BY <2>1, <2>3, <2>4 DEF ScopedInv, IssuedInv, Scoped!UntouchedIsAccepted
<1>5. CASE ~(Scoped!FindsExact(path) /\ Scoped!Inspects(path))
  <2>1. Scoped!Refuse
    BY <1>5 DEF Scoped!Look
  <2>2. ASSUME sp_changes = 0
        PROVE  \E i \in 2..Len(Scoped!PathTo(sp_walk.locator)) :
                  ~Scoped!PortableComponent(sp_Names[Scoped!PathTo(sp_walk.locator)[i]])
    <3>1. ~Scoped!FindsExact(path) /\ path[at] \in Scoped!Positions
      BY <1>2, <1>3, <1>5, <2>2
    <3>2. path[at] # "container" /\ ~Scoped!PortableComponent(sp_Names[path[at]])
      BY <1>2, <2>2, <3>1, LocatorsAssumed DEF Scoped!FindsExact, ScopedInv, Untouched, FirstNode
    <3>3. Scoped!PathTo(sp_walk.locator)[1] = "container"
      BY PathFacts DEF ScopedInv, WalkInv
    <3> QED
      BY <1>2, <3>2, <3>3
  <2> QED
    BY <2>1, <2>2, RefuseStep
<1> QED
  BY <1>4, <1>5

\* The path so far is its own canonical form, or was changed.
LEMMA ResolveStep ==
    ASSUME ScopedInv, Scoped!Resolve
    PROVE  ScopedInv'
<1> DEFINE path == Scoped!WalkedPath
           at == sp_walk.at
<1>1. sp_walk.purpose \in Walking /\ sp_walk.looked /\ ~Scoped!AtLast
  BY DEF Scoped!Resolve, ScopedInv, WalkInv
<1>2. /\ path \in Seq(Scoped!Positions) /\ Len(path) = at /\ at \in 1..Len(Scoped!PathTo(sp_walk.locator))
      /\ Scoped!Parent(path) \in Seq(Scoped!Positions) /\ at + 1 \in 1..Len(Scoped!PathTo(sp_walk.locator))
  <2>1. Len(Scoped!PathTo(sp_walk.locator)) \in Nat /\ at # Len(Scoped!PathTo(sp_walk.locator))
    BY <1>1, PathFacts DEF Scoped!AtLast, ScopedInv, WalkInv
  <2> QED
    BY <1>1, <2>1, WalkedFacts DEF ScopedInv
<1>3. CASE Scoped!Canonical(path) /\ Scoped!SameContainer
  <2>1. /\ sp_walk' = [sp_walk EXCEPT !.at = @ + 1, !.looked = FALSE]
        /\ UNCHANGED <<sp_tree, sp_aliases, sp_crowd, sp_changes, sp_container, sp_handles, sp_descriptor,
                       sp_pinned, sp_refused>>
    BY <1>3 DEF Scoped!Resolve, Scoped!Refuse, Scoped!World
  <2>2. /\ sp_walk'.locator = sp_walk.locator /\ sp_walk'.at = at + 1 /\ sp_walk'.purpose = sp_walk.purpose
        /\ ~sp_walk'.looked
        /\ sp_walk' \in [purpose : Walking \cup {"none", "open_directory"}, locator : Locators, at : Nat,
                         looked : BOOLEAN, found : {sp_walk'.found}]
    <3>1. /\ sp_walk \in [purpose : Walking \cup {"none", "open_directory"}, locator : Locators, at : Nat,
                           looked : BOOLEAN, found : {sp_walk.found}]
          /\ at + 1 \in Nat
      BY DEF ScopedInv, WalkInv
    <3>2. sp_walk' = [sp_walk EXCEPT !.at = at + 1, !.looked = FALSE] /\ sp_walk'.found = sp_walk.found
      BY <2>1, <3>1
    <3> QED
      BY <3>1, <3>2
  <2>3. WalkInv'
    BY <1>1, <1>2, <2>1, <2>2 DEF ScopedInv, WalkInv
  <2>4. Untouched'
    BY <2>1, <2>2 DEF ScopedInv, Untouched
  <2> QED
    BY <2>1, <2>3, <2>4 DEF ScopedInv, IssuedInv, Scoped!UntouchedIsAccepted
<1>4. CASE ~(Scoped!Canonical(path) /\ Scoped!SameContainer)
  <2>1. Scoped!Refuse
    BY <1>4 DEF Scoped!Resolve
  <2>2. sp_changes # 0
    <3> SUFFICES ASSUME sp_changes = 0
                 PROVE  FALSE
      OBVIOUS
    <3>1. Scoped!Canonical(path)
      BY <1>2, FirstTree DEF ScopedInv, Untouched
    <3>2. Scoped!SameContainer
      <4>1. Scoped!PathTo(sp_walk.locator)[1] = "container"
        BY PathFacts DEF ScopedInv, WalkInv
      <4> QED
        BY <1>1, <4>1 DEF Scoped!SameContainer, ScopedInv, Untouched
    <3> QED
      BY <1>4, <3>1, <3>2
  <2> QED
    BY <2>1, <2>2, RefuseStep
<1> QED
  BY <1>3, <1>4

\* At its end a walk has found the directory of its locator.
LEMMA AtTheEnd ==
    ASSUME ScopedInv, sp_walk.looked, Scoped!AtLast
    PROVE  /\ sp_walk.purpose \in Walking
           /\ sp_changes = 0 => /\ sp_walk.found = Scoped!Identity(FirstNode(sp_walk.locator))
                                /\ Scoped!Canonical(Scoped!WalkedPath)
<1>1. sp_walk.purpose \in Walking
  BY DEF ScopedInv, WalkInv
<1>2. Scoped!PathTo(sp_walk.locator)[sp_walk.at] = sp_walk.locator
  BY PathFacts DEF ScopedInv, WalkInv, Scoped!AtLast
<1>3. /\ Scoped!WalkedPath \in Seq(Scoped!Positions) /\ Len(Scoped!WalkedPath) > 0
      /\ Scoped!Parent(Scoped!WalkedPath) \in Seq(Scoped!Positions)
  BY <1>1, WalkedFacts DEF ScopedInv
<1>4. sp_changes = 0 => Scoped!Canonical(Scoped!WalkedPath)
  BY <1>3, FirstTree DEF ScopedInv, Untouched
<1> QED
  BY <1>1, <1>2, <1>4 DEF ScopedInv, Untouched

\* A walk that misses its end, or finds another directory than was issued.
LEMMA MissStep ==
    ASSUME ScopedInv, Scoped!MissesTheEnd \/ Scoped!Changed
    PROVE  ScopedInv'
<1>1. Scoped!Refuse /\ sp_walk.looked /\ Scoped!AtLast
  BY DEF Scoped!MissesTheEnd, Scoped!Changed, Scoped!Arrives
<1>2. sp_changes # 0
  <2> SUFFICES ASSUME sp_changes = 0
               PROVE  FALSE
    OBVIOUS
  <2>1. /\ sp_walk.found = Scoped!Identity(FirstNode(sp_walk.locator))
        /\ Scoped!Canonical(Scoped!WalkedPath)
    BY <1>1, AtTheEnd
  <2>2. sp_walk.purpose \in {"authorize", "before", "after"} /\ sp_walk.found # sp_handles[sp_walk.locator]
    BY <2>1 DEF Scoped!MissesTheEnd, Scoped!Changed, Scoped!Arrives, Scoped!Unchanged
  <2>3. sp_handles[sp_walk.locator] = Scoped!Identity(FirstNode(sp_walk.locator))
    BY <2>2 DEF ScopedInv, WalkInv, Untouched
  <2> QED
    BY <2>1, <2>2, <2>3
<1> QED
  BY <1>1, <1>2, RefuseStep

\* A walk ends with the container, or with the directory that is issued.
LEMMA IssueStep ==
    ASSUME ScopedInv, Scoped!Opened \/ Scoped!Issued \/ Scoped!Revalidated
    PROVE  ScopedInv'
<1>1. /\ sp_walk.looked /\ Scoped!AtLast /\ sp_walk' = Scoped!NoWalk
      /\ UNCHANGED <<sp_tree, sp_aliases, sp_crowd, sp_changes, sp_descriptor, sp_pinned, sp_refused>>
  BY DEF Scoped!Opened, Scoped!Issued, Scoped!Revalidated, Scoped!Arrives, Scoped!World
<1>2. WalkInv' /\ ~sp_walk'.looked
  BY <1>1, NoWalkFits
<1>3. sp_changes = 0 => sp_walk.found = Scoped!Identity(FirstNode(sp_walk.locator))
  BY <1>1, AtTheEnd
<1>4. ASSUME Scoped!Opened
      PROVE  IssuedInv' /\ Untouched'
  <2>1. sp_container' = sp_walk.found /\ sp_handles' = sp_handles /\ sp_walk.locator = "container"
    BY <1>4 DEF Scoped!Opened, Scoped!Arrives, ScopedInv, WalkInv
  <2> QED
    BY <1>1, <1>2, <1>3, <2>1 DEF ScopedInv, IssuedInv, Untouched
<1>5. ASSUME Scoped!Issued
      PROVE  IssuedInv' /\ Untouched'
  <2>1. /\ sp_handles' = [sp_handles EXCEPT ![sp_walk.locator] = sp_walk.found] /\ sp_container' = sp_container
        /\ sp_walk.locator \in sp_Used /\ sp_handles[sp_walk.locator] = {}
    BY <1>5 DEF Scoped!Issued, Scoped!Arrives, ScopedInv, WalkInv
  <2>2. DOMAIN sp_handles' = sp_Used
        /\ \A l \in sp_Used : sp_handles'[l] = IF l = sp_walk.locator THEN sp_walk.found ELSE sp_handles[l]
    BY <2>1 DEF ScopedInv, IssuedInv
  <2>3. IssuedInv'
    BY <1>1, <2>1, <2>2 DEF ScopedInv, IssuedInv
  <2>4. Untouched'
    BY <1>1, <1>2, <1>3, <2>1, <2>2 DEF ScopedInv, Untouched
  <2> QED
    BY <2>3, <2>4
<1>6. ASSUME Scoped!Revalidated
      PROVE  IssuedInv' /\ Untouched'
  <2>1. UNCHANGED <<sp_container, sp_handles>>
    BY <1>6 DEF Scoped!Revalidated
  <2> QED
    BY <1>1, <1>2, <2>1 DEF ScopedInv, IssuedInv, Untouched
<1> QED
  BY <1>1, <1>2, <1>4, <1>5, <1>6 DEF ScopedInv, Scoped!UntouchedIsAccepted

\* A pin: the walk before it, the open, and the walk after it.
LEMMA PinStep ==
    ASSUME ScopedInv, Scoped!Walked \/ Scoped!OpenDirectory \/ Scoped!Pinned
    PROVE  ScopedInv'
<1>1. CASE Scoped!Walked
  <2>1. /\ sp_walk.purpose = "before"
        /\ sp_walk' = [Scoped!NoWalk EXCEPT !.purpose = "open_directory", !.locator = sp_walk.locator]
        /\ UNCHANGED <<sp_tree, sp_aliases, sp_crowd, sp_changes, sp_container, sp_handles, sp_descriptor,
                       sp_pinned, sp_refused>>
    BY <1>1 DEF Scoped!Walked, Scoped!Arrives, Scoped!World
  <2>2. sp_walk' = [purpose |-> "open_directory", locator |-> sp_walk.locator, at |-> 0, looked |-> FALSE, found |-> {}]
    BY <2>1 DEF Scoped!NoWalk, Scoped!WalkFor
  <2>3. /\ sp_walk'.purpose = "open_directory" /\ sp_walk'.locator = sp_walk.locator /\ sp_walk'.at = 0
        /\ sp_walk'.looked = FALSE
        /\ sp_walk.locator \in Locators /\ sp_walk.locator \in sp_Used /\ sp_handles[sp_walk.locator] # {}
    <3>1. sp_walk.locator \in Locators /\ sp_walk.locator \in sp_Used /\ sp_handles[sp_walk.locator] # {}
      BY <2>1 DEF ScopedInv, WalkInv
    <3> QED
      BY <2>2, <3>1
  <2>4. sp_walk' \in [purpose : Walking \cup {"none", "open_directory"}, locator : Locators, at : Nat,
                     looked : BOOLEAN, found : {sp_walk'.found}]
    BY <2>2, <2>3
  <2>5. WalkInv'
    BY <2>1, <2>3, <2>4 DEF WalkInv, Walking
  <2>6. Untouched'
    BY <2>1, <2>3 DEF ScopedInv, Untouched
  <2> QED
    BY <2>1, <2>5, <2>6 DEF ScopedInv, IssuedInv, Scoped!UntouchedIsAccepted
<1>2. CASE Scoped!OpenDirectory
  <2> DEFINE path == Scoped!PathTo(sp_walk.locator)
             fits == Scoped!Openable(path) /\ Scoped!DescriptorFits(Scoped!Seen(path), sp_walk.locator)
  <2>1. /\ sp_walk.purpose = "open_directory" /\ sp_walk.locator \in sp_Used /\ sp_walk.locator \in Locators
        /\ sp_handles[sp_walk.locator] # {}
    BY <1>2 DEF Scoped!OpenDirectory, ScopedInv, WalkInv
  <2>2. CASE fits
    <3>1. /\ sp_descriptor' = Scoped!Identity(Scoped!Seen(path))
          /\ sp_walk' = Scoped!WalkFor("after", sp_walk.locator)
          /\ UNCHANGED <<sp_tree, sp_aliases, sp_crowd, sp_changes, sp_container, sp_handles, sp_pinned, sp_refused>>
      BY <1>2, <2>2 DEF Scoped!OpenDirectory, Scoped!World
    <3>2. Scoped!Identity(Scoped!Seen(path)) = sp_handles[sp_walk.locator]
      BY <2>2 DEF Scoped!DescriptorFits
    <3>3. WalkInv' /\ ~sp_walk'.looked
      BY <2>1, <3>1, <3>2, WalkForFits DEF Walking
    <3>4. Untouched'
      BY <3>1, <3>3 DEF ScopedInv, Untouched
    <3> QED
      BY <3>1, <3>3, <3>4 DEF ScopedInv, IssuedInv, Scoped!UntouchedIsAccepted
  <2>3. CASE ~fits
    <3>1. Scoped!Refuse
      BY <1>2, <2>3 DEF Scoped!OpenDirectory
    <3>2. sp_changes # 0
      <4> SUFFICES ASSUME sp_changes = 0
                   PROVE  FALSE
        OBVIOUS
      <4>1. /\ path \in Seq(Scoped!Positions) /\ Len(path) > 0 /\ path[Len(path)] = sp_walk.locator
            /\ Scoped!Parent(path) \in Seq(Scoped!Positions)
        <5>1. /\ path \in Seq(Scoped!Positions) /\ Len(path) \in Nat \ {0} /\ path[Len(path)] = sp_walk.locator
          BY <2>1, PathFacts
        <5> HIDE DEF path
        <5>2. SubSeq(path, 1, Len(path) - 1) \in Seq(Scoped!Positions)
          BY <5>1
        <5> QED
          BY <5>1, <5>2 DEF Scoped!Parent
      <4>2. Scoped!Openable(path) /\ Scoped!Seen(path) = FirstNode(sp_walk.locator)
        BY <4>1, FirstTree DEF ScopedInv, Untouched
      <4>3. sp_handles[sp_walk.locator] = Scoped!Identity(FirstNode(sp_walk.locator))
        BY <2>1 DEF ScopedInv, Untouched
      <4>4. Scoped!DescriptorFits(FirstNode(sp_walk.locator), sp_walk.locator)
        BY <4>3 DEF Scoped!DescriptorFits, FirstNode, Scoped!SafeModes, Scoped!PrivateModes, Scoped!SharedModes
      <4> QED
        BY <2>3, <4>2, <4>4
    <3> QED
      BY <3>1, <3>2, RefuseStep
  <2> QED
    BY <2>2, <2>3
<1>3. CASE Scoped!Pinned
  <2>1. /\ sp_walk.purpose = "after"
        /\ sp_pinned' = {[locator |-> sp_walk.locator, identity |-> sp_descriptor]}
        /\ sp_walk' = Scoped!NoWalk
        /\ UNCHANGED <<sp_tree, sp_aliases, sp_crowd, sp_changes, sp_container, sp_handles, sp_refused>>
    BY <1>3 DEF Scoped!Pinned, Scoped!Arrives, Scoped!World
  <2>2. /\ sp_walk.locator \in sp_Used /\ sp_handles[sp_walk.locator] # {}
        /\ sp_descriptor = sp_handles[sp_walk.locator]
    BY <2>1 DEF ScopedInv, WalkInv
  <2>3. WalkInv' /\ ~sp_walk'.looked
    BY <2>1, NoWalkFits
  <2>4. IssuedInv'
    BY <2>1, <2>2 DEF ScopedInv, IssuedInv
  <2>5. Untouched'
    BY <2>1, <2>3 DEF ScopedInv, Untouched
  <2> QED
    BY <2>1, <2>3, <2>4, <2>5 DEF ScopedInv, Scoped!UntouchedIsAccepted
<1> QED
  BY <1>1, <1>2, <1>3

\* Other programs change the tree; from then on it is not untouched.
LEMMA TouchStep ==
    ASSUME ScopedInv, Scoped!Swap \/ Scoped!Alter \/ Scoped!Crowd
    PROVE  ScopedInv'
<1>1. /\ sp_changes' = sp_changes + 1
      /\ UNCHANGED <<sp_container, sp_handles, sp_walk, sp_descriptor, sp_pinned, sp_refused>>
  BY DEF Scoped!Swap, Scoped!Alter, Scoped!Crowd, Scoped!Touches
<1>2. sp_changes' \in Nat /\ sp_changes' # 0
  BY <1>1 DEF ScopedInv
<1> QED
  BY <1>1, <1>2 DEF ScopedInv, WalkInv, IssuedInv, Untouched, Scoped!UntouchedIsAccepted

\* A directory that is handed out is the one that was issued, however often other
\* programs rename, replace and chmod on the way to it, and one that nobody touched is not
\* refused, for any profiles, names and limits (open_revalidated_directory, issue).
THEOREM IssuedIsOpened == Scoped!Spec => []IssuedDirectoryIsOpened
<1>1. Scoped!Init => ScopedInv
  <2> SUFFICES ASSUME Scoped!Init
               PROVE  ScopedInv
    OBVIOUS
  <2>1. /\ \A p \in Scoped!Positions : sp_tree[p] = FirstNode(p)
        /\ sp_aliases = {} /\ sp_crowd = sp_MaxEntries /\ sp_changes = 0 /\ sp_container = {}
        /\ sp_handles = [l \in sp_Used |-> {}] /\ sp_pinned = {} /\ sp_refused = {}
    BY DEF Scoped!Init, FirstNode
  <2>2. sp_walk = [purpose |-> "none", locator |-> "container", at |-> 0, looked |-> FALSE, found |-> {}]
    BY DEF Scoped!Init, Scoped!NoWalk, Scoped!WalkFor
  <2>3. WalkInv
    BY <2>2 DEF WalkInv, Locators, Walking
  <2> QED
    BY <2>1, <2>2, <2>3 DEF ScopedInv, IssuedInv, Untouched, Scoped!UntouchedIsAccepted
<1>2. ScopedInv /\ [Scoped!Next]_(Scoped!vars) => ScopedInv'
  <2> SUFFICES ASSUME ScopedInv, [Scoped!Next]_(Scoped!vars)
               PROVE  ScopedInv'
    OBVIOUS
  <2>1. CASE UNCHANGED Scoped!vars
    BY <2>1 DEF Scoped!vars, ScopedInv, WalkInv, IssuedInv, Untouched, Scoped!UntouchedIsAccepted
  <2>2. CASE Scoped!OpenContainer
    BY <2>2, WalkStartStep DEF Scoped!OpenContainer, Locators
  <2>3. ASSUME NEW l \in sp_Used, Scoped!Issue(l) \/ Scoped!Pin(l)
        PROVE  ScopedInv'
    BY <2>3, LocatorsAssumed, WalkStartStep DEF Scoped!Issue, Scoped!Pin
  <2>4. ASSUME NEW l \in sp_Used, NEW status \in sp_Statuses, Scoped!Authorize(l, status)
        PROVE  ScopedInv'
    <3>1. sp_handles[l] # {} /\ (Scoped!Start("authorize", l) \/ UNCHANGED Scoped!vars)
      BY <2>4 DEF Scoped!Authorize
    <3> QED
      BY <2>1, <3>1, LocatorsAssumed, WalkStartStep
  <2>5. CASE Scoped!Walks
    BY <2>5, WalkLookStep, ResolveStep, MissStep, IssueStep, PinStep DEF Scoped!Walks
  <2>6. CASE Scoped!Swap \/ Scoped!Alter \/ Scoped!Crowd
    BY <2>6, TouchStep
  <2> QED
    BY <2>1, <2>2, <2>3, <2>4, <2>5, <2>6 DEF Scoped!Next
<1>3. ScopedInv => IssuedDirectoryIsOpened
  BY DEF ScopedInv, IssuedInv, IssuedDirectoryIsOpened, Scoped!PinsWhatWasIssued
<1> QED
  BY <1>1, <1>2, <1>3, PTL DEF Scoped!Spec

-----------------------------------------------------------------------------
(* The registry of profiles as it is written, read and selected from.      *)

\* What the file and the configuration hold together is a snapshot, and the file
\* is one that is read.
RegistryInv ==
    /\ Registry!SnapshotFits(Registry!Merged)
    /\ Cardinality(DOMAIN pr_stored) <= pr_MaxBytes

\* The cardinality of the part is the one of the library.
LEMMA SameCardinality == \A S : Cardinality(S) = Registry!Cardinality(S)
BY DEF Cardinality, Registry!Cardinality

\* The bounds of a registry are numbers.
LEMMA RegistryAssumed == pr_MaxBytes \in Nat /\ pr_MaxNesting \in Nat \ {0}
BY DecisionAssumption DEF Registry!RegistryAssumption

\* Everybody can read a registry that fits, in a file nobody else has touched.
LEMMA FittingIsRead ==
    ASSUME RegistryInv
    PROVE  Registry!AcceptedWritesStayReadable
<1> SUFFICES ASSUME pr_condition = Registry!Private
             PROVE  Registry!SnapshotOf(pr_Scope).result = "ok"
  BY DEF Registry!AcceptedWritesStayReadable
<1>1. pr_condition.private /\ pr_condition.nesting = 1 /\ pr_condition.scope = pr_Scope
  BY DEF Registry!Private
<1>2. Registry!NestsShallow
  BY <1>1, RegistryAssumed DEF Registry!NestsShallow
<1>3. Registry!ReadsWhole
  <2>1. Cardinality(DOMAIN pr_stored) <= pr_MaxBytes
    BY DEF RegistryInv
  <2> QED
    BY <1>1, <2>1, SameCardinality, Zenon DEF Registry!ReadsWhole
<1>4. Registry!Readable
  BY <1>1, <1>2, <1>3 DEF Registry!Readable
<1> QED
  BY <1>4 DEF RegistryInv, Registry!SnapshotOf, Registry!Done

\* The profile that is chosen by default is the default of its group.
DefaultOf(k, group) ==
    k \in DOMAIN Registry!Merged /\ Registry!Group(k) = group /\ Registry!Merged[k].default

\* What is chosen of a group by default is its default profile.
LEMMA ChosenIsDefault ==
    ASSUME NEW key, NEW group, group = Registry!Group(key), Registry!ByDefault(group) # {}
    PROVE  \E k : DefaultOf(k, group) /\ Registry!ByDefault(group) = {k}
<1> DEFINE policy == [kind |-> "selectable", alias |-> pr_Nobody]
           candidates == {k \in DOMAIN Registry!Merged : Registry!IsCandidate(k, group.provider, group.binding)}
           defaults == {k \in candidates : Registry!Merged[k].default}
           chosen == CHOOSE k \in defaults : TRUE
           denial == Registry!RequestDenial(group.provider, policy, pr_Nobody)
<1>1. \A code : Registry!Undecided(code).key = {}
  BY DEF Registry!Undecided
<1>2. denial = {} /\ Registry!ByDefault(group) = Registry!SelectDefault(candidates).key
  <2>1. policy.kind = "selectable" /\ policy.alias = pr_Nobody
    OBVIOUS
  <2>2. /\ denial = {}
        /\ Registry!Selection(pr_Scope, group.provider, group.binding, policy, pr_Nobody) =
              Registry!SelectDefault(candidates)
    BY <1>1, <2>1 DEF Registry!ByDefault, Registry!Selection
  <2> QED
    BY <2>2 DEF Registry!ByDefault
<1>3. defaults # {} /\ Registry!ByDefault(group) = Registry!SelectedDecision(chosen, "registry_default").key
  BY <1>1, <1>2 DEF Registry!SelectDefault
<1>4. chosen \in defaults
  BY <1>3
<1>5. Registry!ByDefault(group) = {chosen}
  BY <1>1, <1>3 DEF Registry!SelectedDecision
<1>6. Registry!Group(chosen) = group
  BY <1>4 DEF Registry!Group, Registry!IsCandidate
<1> QED
  BY <1>4, <1>5, <1>6 DEF DefaultOf

ChosenAreDefaults ==
    \A key, group :
        group = Registry!Group(key) /\ Registry!ByDefault(group) # {} =>
            \E k : DefaultOf(k, group) /\ Registry!ByDefault(group) = {k}

\* This holds of every group.
LEMMA AllChosenAreDefaults == ChosenAreDefaults
BY ChosenIsDefault DEF ChosenAreDefaults

\* A step that changes at most one profile moves no default.
LEMMA DefaultStays ==
    ASSUME Registry!SnapshotFits(Registry!Merged), Registry!SnapshotFits(Registry!Merged)', NEW key,
           \A k : k # key => /\ k \in DOMAIN Registry!Merged <=> k \in DOMAIN Registry!Merged'
                             /\ k \in DOMAIN Registry!Merged => Registry!Merged'[k] = Registry!Merged[k]
    PROVE  Registry!DefaultMovesInTwoSteps
<1> SUFFICES ASSUME NEW k0 \in pr_Keys, NEW group, group = Registry!Group(k0),
                    Registry!ByDefault(group) # {}, Registry!ByDefault(group)' # {}
             PROVE  Registry!ByDefault(group)' = Registry!ByDefault(group)
  BY DEF Registry!DefaultMovesInTwoSteps
<1>1. PICK a : DefaultOf(a, group) /\ Registry!ByDefault(group) = {a}
  BY ChosenIsDefault
<1>2. ChosenAreDefaults'
  BY AllChosenAreDefaults, PTL
<1>3. PICK b : DefaultOf(b, group)' /\ Registry!ByDefault(group)' = {b}
  BY <1>2 DEF ChosenAreDefaults, Registry!Group
<1>4. Registry!OneDefault(Registry!Merged) /\ Registry!OneDefault(Registry!Merged)'
  BY DEF Registry!SnapshotFits
<1>5. a = b
  BY <1>1, <1>3, <1>4 DEF DefaultOf, Registry!OneDefault, Registry!Group
<1> QED
  BY <1>1, <1>3, <1>5

\* What the registry and its configuration hold is left as it is.
Held == UNCHANGED <<pr_legacy, pr_stored>>

\* A step that leaves the registry alone moves no default.
LEMMA HeldIsKept ==
    ASSUME RegistryInv, Held
    PROVE  RegistryInv' /\ Registry!DefaultMovesInTwoSteps
<1>1. Registry!Merged' = Registry!Merged
  BY DEF Held, Registry!Merged, Registry!Overlay
<1>2. RegistryInv'
  BY <1>1 DEF Held, RegistryInv, Registry!SnapshotFits, Registry!WithinScope, Registry!OneDefault
<1>3. Registry!DefaultMovesInTwoSteps
  BY <1>1, <1>2, DefaultStays DEF RegistryInv
<1> QED
  BY <1>2, <1>3

\* A write that is accepted moves no default in one step.
LEMMA CommitStep ==
    ASSUME RegistryInv, NEW key, NEW m, Registry!Commit(key, m)
    PROVE  RegistryInv' /\ Registry!DefaultMovesInTwoSteps
<1> DEFINE table == [k \in DOMAIN pr_stored \cup {key} |-> IF k = key THEN m ELSE pr_stored[k]]
<1>1. CASE Held
  BY <1>1, HeldIsKept
<1>2. CASE ~Held
  <2>1. /\ pr_stored' = table /\ pr_legacy' = pr_legacy
        /\ Registry!Candidate(table) /\ Cardinality(DOMAIN table) <= pr_MaxBytes
    BY <1>2, SameCardinality DEF Held, Registry!Commit
  <2>2. Registry!Merged' = Registry!Overlay(pr_legacy, table)
    BY <2>1 DEF Registry!Merged, Registry!Overlay
  <2>3. RegistryInv'
    <3>1. Registry!SnapshotFits(Registry!Overlay(pr_legacy, table))
      BY <2>1 DEF Registry!Candidate, Registry!ValidatesMerged
    <3>2. Registry!SnapshotFits(Registry!Merged)'
      BY <2>2, <3>1 DEF Registry!SnapshotFits, Registry!WithinScope, Registry!OneDefault
    <3> QED
      BY <2>1, <3>2 DEF RegistryInv
  <2>4. \A k : k # key => /\ k \in DOMAIN Registry!Merged <=> k \in DOMAIN Registry!Merged'
                          /\ k \in DOMAIN Registry!Merged => Registry!Merged'[k] = Registry!Merged[k]
    <3> DEFINE old == Registry!Overlay(pr_legacy, pr_stored)
               new == Registry!Overlay(pr_legacy, table)
               configured == Registry!Projection(pr_legacy)
    <3>1. \A k : k # key => (k \in DOMAIN table <=> k \in DOMAIN pr_stored)
      OBVIOUS
    <3>2. \A k \in DOMAIN pr_stored : k # key => table[k] = pr_stored[k]
      OBVIOUS
    <3>3. /\ DOMAIN old = DOMAIN configured \cup DOMAIN pr_stored
          /\ DOMAIN new = DOMAIN configured \cup DOMAIN table
          /\ \A k \in DOMAIN old : old[k] = IF k \in DOMAIN pr_stored THEN pr_stored[k] ELSE configured[k]
          /\ \A k \in DOMAIN new : new[k] = IF k \in DOMAIN table THEN table[k] ELSE configured[k]
      BY DEF Registry!Overlay
    <3>4. Registry!Merged = old /\ Registry!Merged' = new
      BY <2>2 DEF Registry!Merged
    <3> HIDE DEF table, old, new, configured
    <3> QED
      BY <3>1, <3>2, <3>3, <3>4
  <2> QED
    BY <2>3, <2>4, DefaultStays DEF RegistryInv
<1> QED
  BY <1>1, <1>2

\* No step does.
LEMMA RegistryStep ==
    ASSUME RegistryInv, [Registry!Next]_(Registry!vars)
    PROVE  RegistryInv' /\ Registry!DefaultMovesInTwoSteps
<1>1. CASE UNCHANGED Registry!vars
  BY <1>1, HeldIsKept DEF Held, Registry!vars
<1>2. ASSUME NEW code, Registry!Refuses(code)
      PROVE  Held
  BY <1>2 DEF Held, Registry!Refuses
<1>3. ASSUME NEW key, NEW identity, NEW default, Registry!CreateReference(key, identity, default)
      PROVE  Held \/ Registry!Commit(key, Registry!NewMetadata(identity, default))
  BY <1>2, <1>3 DEF Registry!CreateReference
<1>4. ASSUME NEW key, NEW expected, NEW m, Registry!Change(key, expected, m)
      PROVE  Held \/ \E revised : Registry!Commit(key, revised)
  BY <1>2, <1>4 DEF Registry!Change
<1>5. CASE Registry!Call
  <2>1. ASSUME NEW scope, Registry!Snapshot(scope)
        PROVE  Held
    BY <2>1 DEF Held, Registry!Snapshot
  <2>2. ASSUME NEW scope, NEW provider, NEW binding, NEW policy, NEW requested,
               Registry!Select(scope, provider, binding, policy, requested)
        PROVE  Held
    BY <2>2 DEF Held, Registry!Select
  <2>3. Held \/ \E key, m : Registry!Commit(key, m)
    BY <1>3, <1>4, <1>5, <2>1, <2>2 DEF Registry!Call, Registry!UpdateMetadata, Registry!SetDisabled
  <2> QED
    BY <2>3, HeldIsKept, CommitStep
<1>6. CASE Registry!Return
  BY <1>6, HeldIsKept DEF Held, Registry!Return
<1>7. CASE Registry!LoseDirectory
  BY <1>7, HeldIsKept DEF Held, Registry!LoseDirectory
<1>8. CASE Registry!Disturb
  BY <1>8, HeldIsKept DEF Held, Registry!Disturb
<1> QED
  BY <1>1, <1>5, <1>6, <1>7, <1>8 DEF Registry!Next

\* The registry starts within its invariant.
LEMMA RegistryStarts == Registry!Init => RegistryInv
<1> SUFFICES ASSUME Registry!Init
             PROVE  RegistryInv
  OBVIOUS
<1> DEFINE configured == Registry!Projection(pr_legacy)
<1>1. DOMAIN pr_stored = {} /\ Registry!ProjectionFits(pr_legacy)
  BY DEF Registry!Init
<1>2. Registry!Merged = configured
  <2>1. configured = [key \in DOMAIN configured |-> configured[key]]
    BY DEF Registry!Projection
  <2>2. Registry!Merged = [key \in DOMAIN configured |-> configured[key]]
    BY <1>1 DEF Registry!Merged, Registry!Overlay
  <2> QED
    BY <2>1, <2>2
<1>3. Cardinality(DOMAIN pr_stored) = 0
  BY <1>1, FS_EmptySet
<1>4. Registry!SnapshotFits(Registry!Merged)
  BY <1>1, <1>2 DEF Registry!ProjectionFits
<1> QED
  BY <1>3, <1>4, RegistryAssumed DEF RegistryInv

\* What fits is what its readers accept.
LEMMA FittingIsReadNow == RegistryInv => Registry!AcceptedWritesStayReadable
BY FittingIsRead

\* Whatever is accepted, the registry is one that its own readers take, and the
\* profile of a call which leaves the choice to the registry changes only by way
\* of a refusal (validate_candidate, select_credential_profile_from_snapshot).
THEOREM RegistryKeepsReadable == Registry!Spec => RegistryStaysReadable
<1>1. RegistryInv /\ [Registry!Next]_(Registry!vars) => RegistryInv' /\ Registry!DefaultMovesInTwoSteps
  BY RegistryStep
<1>2. RegistryInv' => Registry!AcceptedWritesStayReadable'
  BY FittingIsReadNow, PTL
<1>3. RegistryInv /\ RegistryInv' /\ [Registry!Next]_(Registry!vars) =>
        [subject = "profiles" /\ Registry!registry' # Registry!registry =>
            Registry!AcceptedWritesStayReadable' /\ Registry!DefaultMovesInTwoSteps]_pr
  BY <1>1, <1>2 DEF pr, Registry!vars
<1> QED
  BY RegistryStarts, <1>1, <1>3, PTL DEF Registry!Spec, RegistryStaysReadable

-----------------------------------------------------------------------------
(* Readers of one SKILL.md.                                                *)

\* What was read of a file stays what its text says.
SkillFileInv ==
    /\ sk_source \in sk_Sources
    /\ sk_package \in {SkillFile!Unread, SkillFile!Package(sk_source)}
    /\ sk_exposed \in {SkillFile!Unread, SkillFile!Extension(sk_source)}

\* A result is a refusal or one of three answers.
LEMMA AnswersDiffer ==
    /\ SkillFile!Read # SkillFile!Unread /\ SkillFile!Read # SkillFile!Absent
    /\ \A reason : SkillFile!Refused(reason) \notin {SkillFile!Read, SkillFile!Absent, SkillFile!Unread}
BY DEF SkillFile!Read, SkillFile!Unread, SkillFile!Absent, SkillFile!Refused

\* Of a file that ends its first line, the parser and the inventory find the same
\* frontmatter, but for its bound.
LEMMA FrontmatterAgrees ==
    ASSUME NEW lines, lines # <<>>, lines[1].ended
    PROVE  SkillFile!InventoryReads(lines) <=>
             \/ SkillFile!Extraction(lines) = SkillFile!Read
             \/ SkillFile!Closes(lines[1]) /\ SkillFile!Fences(lines) # {} /\ SkillFile!GrowsTooLarge(lines)
<1>1. CASE ~SkillFile!Closes(lines[1])
  <2>1. SkillFile!Extraction(lines) = SkillFile!Refused("missing_frontmatter")
    BY <1>1 DEF SkillFile!Extraction, SkillFile!Opens
  <2> QED
    BY <1>1, <2>1, AnswersDiffer DEF SkillFile!InventoryReads
<1>2. CASE SkillFile!Closes(lines[1]) /\ SkillFile!GrowsTooLarge(lines)
  <2>1. SkillFile!Extraction(lines) = SkillFile!Refused("frontmatter_too_large")
    BY <1>2 DEF SkillFile!Extraction, SkillFile!Opens
  <2> QED
    BY <1>2, <2>1, AnswersDiffer DEF SkillFile!InventoryReads
<1>3. CASE SkillFile!Closes(lines[1]) /\ ~SkillFile!GrowsTooLarge(lines)
  <2>1. SkillFile!Extraction(lines) =
          IF SkillFile!Fences(lines) = {} THEN SkillFile!Refused("unterminated_frontmatter") ELSE SkillFile!Read
    BY <1>3 DEF SkillFile!Extraction, SkillFile!Opens
  <2> QED
    BY <1>3, <2>1, AnswersDiffer DEF SkillFile!InventoryReads
<1> QED
  BY <1>1, <1>2, <1>3

\* A package that is read has an envelope that is, and a catalog that fits its
\* contract.
LEMMA ReadPackageFits ==
    ASSUME NEW s, SkillFile!Package(s) = SkillFile!Read
    PROVE  /\ SkillFile!Envelope(s) = SkillFile!Read
           /\ SkillFile!CatalogFits(s.yaml.contract, s.yaml.catalog)
BY AnswersDiffer DEF SkillFile!Package

\* The controls of a catalog that fits are those of its contract.
LEMMA ControlsFit ==
    ASSUME NEW s, SkillFile!CatalogFits(s.yaml.contract, s.yaml.catalog)
    PROVE  /\ SkillFile!Cardinality(SkillFile!ProfileParameter(s)) <= 1
           /\ SkillFile!DirectoryParameter(s) # {} => s.yaml.contract.directory = "workspace"
           /\ SkillFile!DirectoryParameter(s) \cap {"profile", "stdin", "timeout_secs"} = {}
<1>1. SkillFile!Cardinality(SkillFile!ProfileParameter(s)) <= 1
  <2>1. SkillFile!ProfileParameter(s) = {} \/ \E name : SkillFile!ProfileParameter(s) = {name}
    BY DEF SkillFile!ProfileParameter
  <2>2. Cardinality(SkillFile!ProfileParameter(s)) \in {0, 1}
    BY <2>1, FS_EmptySet, FS_Singleton
  <2>3. \A S : SkillFile!Cardinality(S) = Cardinality(S)
    BY Zenon DEF Cardinality, IsFiniteSet, SkillFile!Cardinality, SkillFile!IsFiniteSet
  <2> QED
    BY <2>2, <2>3
<1>2. SkillFile!DirectoryParameter(s) # {} => s.yaml.contract.directory = "workspace"
  BY DEF SkillFile!DirectoryParameter, SkillFile!CatalogFits, SkillFile!DirectoryFits
<1>3. SkillFile!DirectoryParameter(s) \cap {"profile", "stdin", "timeout_secs"} = {}
  <2>1. {"profile", "stdin", "timeout_secs"} \subseteq sk_Reserved["directory"]
    BY DecisionAssumption DEF SkillFile!PackageAssumption
  <2>2. SkillFile!Offered(s.yaml.catalog, "directory") =>
            s.yaml.catalog.names["directory"] \notin {"profile", "stdin", "timeout_secs"}
    BY <2>1 DEF SkillFile!CatalogFits, SkillFile!NameFits
  <2> QED
    BY <2>2 DEF SkillFile!DirectoryParameter
<1> QED
  BY <1>1, <1>2, <1>3

\* The readers of a SKILL.md agree, whatever its lines, its YAML and the bounds on
\* them are (parse_skill_runtime_package, against the frontmatter of the inventory).
LEMMA ReadersStayInAgreement == SkillFile!Spec => [](subject = "package" => SkillFile!ReadersAgree)
<1>1. SkillFile!Init => SkillFileInv
  BY DEF SkillFile!Init, SkillFileInv
<1>2. SkillFileInv /\ [SkillFile!Next]_(SkillFile!vars) => SkillFileInv'
  <2> SUFFICES ASSUME SkillFileInv, [SkillFile!Next]_(SkillFile!vars)
               PROVE  SkillFileInv'
    OBVIOUS
  <2>1. CASE SkillFile!ReadPackage
    BY <2>1 DEF SkillFileInv, SkillFile!ReadPackage
  <2>2. CASE SkillFile!ReadAudience
    BY <2>2 DEF SkillFileInv, SkillFile!ReadAudience
  <2>3. CASE UNCHANGED SkillFile!vars
    BY <2>3 DEF SkillFileInv, SkillFile!vars
  <2> QED
    BY <2>1, <2>2, <2>3 DEF SkillFile!Next
<1>3. SkillFileInv => SkillFile!ReadersAgree
  <2> SUFFICES ASSUME SkillFileInv
               PROVE  SkillFile!ReadersAgree
    OBVIOUS
  <2>1. ASSUME sk_package = SkillFile!Read
        PROVE  SkillFile!Package(sk_source) = SkillFile!Read
    BY <2>1, AnswersDiffer DEF SkillFileInv
  <2>2. ASSUME sk_package = SkillFile!Read, sk_exposed # SkillFile!Unread
        PROVE  sk_exposed \in {SkillFile!Read, SkillFile!Absent, SkillFile!Refused("invalid_magician_extension")}
    <3>1. sk_exposed = SkillFile!Extension(sk_source)
      BY <2>2 DEF SkillFileInv
    <3>2. SkillFile!Envelope(sk_source) = SkillFile!Read
      BY <2>1, <2>2, ReadPackageFits
    <3>3. sk_source.yaml.expose \in {"absent", "valid", "invalid"}
      BY DecisionAssumption DEF SkillFileInv, SkillFile!PackageAssumption
    <3> QED
      BY <3>1, <3>2, <3>3 DEF SkillFile!Extension
  <2> QED
    BY <2>1, <2>2, FrontmatterAgrees, ReadPackageFits, ControlsFit DEF SkillFile!ReadersAgree
<1> QED
  BY <1>1, <1>2, <1>3, PTL DEF SkillFile!Spec

-----------------------------------------------------------------------------
(* The reviewed tools of an MCP server.                                    *)

\* A catalog is what the compiled contract publishes of the last offer, and it
\* is only compiled of a skill that passed its checks.
McpInv ==
    /\ mc_skill \in mc_Skills
    /\ mc_contract # Mcp!Nothing =>
        /\ mc_contract = Mcp!CompiledContract(mc_skill)
        /\ Mcp!ValidDiscovery(mc_skill) /\ Mcp!CompileFits(mc_skill)
    /\ \/ mc_offered = {} /\ mc_catalog = Mcp!Nothing
       \/ /\ mc_contract # Mcp!Nothing
          /\ mc_offered \in mc_Offers
          /\ mc_catalog =
                [tool \in {t \in mc_offered : Mcp!Published(mc_contract, t)} |->
                    [name |-> Mcp!LocalName(mc_contract, tool), policy |-> Mcp!EffectivePolicy(mc_contract, tool)]]
    /\ mc_surface # Mcp!Nothing => mc_surface = Mcp!Actions(mc_skill) /\ Mcp!ProjectionFits(mc_skill)

\* The cardinality of the part is the one of the library.
LEMMA CatalogCounts == \A S : Mcp!Cardinality(S) = Cardinality(S)
BY Zenon DEF Mcp!Cardinality, Cardinality, Mcp!IsFiniteSet, IsFiniteSet

\* No policy asks for less than the floor and its risk do.
LEMMA ComposedKeepsFloor ==
    ASSUME NEW floor, NEW p
    PROVE  /\ Mcp!Composed(floor, p).risk = p.risk
           /\ floor.approval \in Mcp!Composed(floor, p).approvals
           /\ Mcp!RiskApproval[p.risk] \in Mcp!Composed(floor, p).approvals
           /\ floor.sets.grants \subseteq Mcp!Composed(floor, p).grants
           /\ p.scopes \subseteq Mcp!Composed(floor, p).scopes
BY DEF Mcp!Composed

\* A tool that completes a purchase is reviewed as one.
LEMMA FinalToolsAreReviewed ==
    ASSUME NEW s, Mcp!ValidDiscovery(s), s.discovery.commerce # Mcp!Nothing,
           NEW tool \in s.discovery.commerce.final
    PROVE  /\ tool \in DOMAIN s.discovery.policies
           /\ s.discovery.policies[tool].risk = "commerce"
           /\ s.discovery.commerce.scope \in s.discovery.policies[tool].scopes
<1>1. Mcp!FinalToolsFit(s.discovery)
  BY DEF Mcp!ValidDiscovery, Mcp!CommerceFits
<1>2. Mcp!IsCommerce(s.discovery, tool) /\ Mcp!Resourced(s.discovery, tool)
  BY <1>1 DEF Mcp!FinalToolsFit, Mcp!FinalToolsDeclared
<1> QED
  BY <1>2 DEF Mcp!IsCommerce, Mcp!Resourced

\* No policy is refused at discovery of a skill that was compiled: neither one
\* that was declared nor the one of a tool nobody reviewed.
LEMMA PoliciesFit ==
    ASSUME NEW s \in mc_Skills, Mcp!ValidDiscovery(s), Mcp!CompileFits(s), NEW tool
    PROVE  Mcp!FitsTogether(Mcp!EffectivePolicy(Mcp!CompiledContract(s), tool))
<1> DEFINE compiled == Mcp!CompiledContract(s)
<1>1. compiled.floor = s.floor /\ compiled.policies = s.discovery.policies
  BY DEF Mcp!CompiledContract
<1>2. CASE tool \in DOMAIN s.discovery.policies
  <2>1. Mcp!EffectivePolicy(compiled, tool) = Mcp!Composed(s.floor, s.discovery.policies[tool])
    BY <1>1, <1>2 DEF Mcp!EffectivePolicy
  <2> QED
    BY <1>2, <2>1 DEF Mcp!CompileFits, Mcp!CompiledPoliciesFit
<1>3. CASE tool \notin DOMAIN s.discovery.policies
  <2>1. Mcp!EffectivePolicy(compiled, tool) = Mcp!Composed(s.floor, Mcp!Unreviewed)
    BY <1>1, <1>3 DEF Mcp!EffectivePolicy
  <2>2. /\ Mcp!Composed(s.floor, Mcp!Unreviewed).grants = s.floor.sets.grants
        /\ Mcp!Composed(s.floor, Mcp!Unreviewed).scopes = s.floor.sets.scopes
        /\ Mcp!Composed(s.floor, Mcp!Unreviewed).authorities = s.floor.sets.authorities
    BY DEF Mcp!Composed, Mcp!Unreviewed
  <2>3. \A part \in DOMAIN s.floor.sets : Mcp!Cardinality(s.floor.sets[part]) <= mc_MaxEntries
    BY DEF Mcp!ValidDiscovery
  <2>4. DOMAIN s.floor.sets = {"grants", "scopes", "authorities"}
    BY DecisionAssumption DEF Mcp!CatalogAssumption
  <2> QED
    BY <2>1, <2>2, <2>3, <2>4 DEF Mcp!FitsTogether
<1> QED
  BY <1>2, <1>3

\* Two tools do not get one name.
LEMMA LocalNamesDiffer ==
    ASSUME NEW s \in mc_Skills, NEW tools \in mc_Offers, NEW a \in tools, NEW b \in tools,
           Mcp!LocalName(Mcp!CompiledContract(s), a) = Mcp!LocalName(Mcp!CompiledContract(s), b)
    PROVE  a = b
<1>1. Mcp!Namespace(s) \in Seq(STRING)
  <2>1. s.id \in Seq(STRING) /\ s.discovery.namespace \in Seq(STRING)
    BY DecisionAssumption DEF Mcp!CatalogAssumption
  <2> QED
    BY <2>1, ConcatProperties DEF Mcp!Namespace
<1>2. a \in Seq(STRING) /\ b \in Seq(STRING)
  BY DecisionAssumption DEF Mcp!CatalogAssumption
<1>3. Mcp!Namespace(s) \o a = Mcp!Namespace(s) \o b
  BY DEF Mcp!LocalName, Mcp!CompiledContract
<1> QED
  BY <1>1, <1>2, <1>3, ConcatSimplifications

\* Init => McpInv, and each step preserves it.
LEMMA McpInvHolds == Mcp!Spec => []McpInv
<1>1. Mcp!Init => McpInv
  BY DEF Mcp!Init, McpInv
<1>2. McpInv /\ [Mcp!Next]_(Mcp!vars) => McpInv'
  <2> SUFFICES ASSUME McpInv, [Mcp!Next]_(Mcp!vars)
               PROVE  McpInv'
    OBVIOUS
  <2>1. CASE Mcp!Compile
    BY <2>1 DEF McpInv, Mcp!Compile
  <2>2. ASSUME NEW tools \in mc_Offers, Mcp!Discover(tools)
        PROVE  McpInv'
    BY <2>2 DEF McpInv, Mcp!Discover
  <2>3. CASE Mcp!Project
    BY <2>3 DEF McpInv, Mcp!Project
  <2>4. CASE UNCHANGED Mcp!vars
    BY <2>4 DEF McpInv, Mcp!vars
  <2> QED
    BY <2>1, <2>2, <2>3, <2>4 DEF Mcp!Next
<1> QED
  BY <1>1, <1>2, PTL DEF Mcp!Spec

\* A published tool asks for what the review says.
LEMMA PublishedAsReviewed ==
    ASSUME McpInv, mc_contract # Mcp!Nothing, NEW tool \in DOMAIN mc_catalog
    PROVE  LET policy == mc_catalog[tool].policy
           IN  /\ Mcp!Eligible(mc_skill.discovery, tool)
               /\ mc_skill.floor.approval \in policy.approvals /\ Mcp!RiskApproval[policy.risk] \in policy.approvals
               /\ mc_skill.floor.sets.grants \subseteq policy.grants
               /\ tool \notin DOMAIN mc_skill.discovery.policies => policy.risk = "unclassified"
               /\ mc_skill.discovery.commerce # Mcp!Nothing /\ tool \in mc_skill.discovery.commerce.final =>
                    /\ "commerce_checkout" \in policy.approvals
                    /\ mc_skill.discovery.commerce.scope \in policy.scopes
<1>1. /\ mc_contract = Mcp!CompiledContract(mc_skill)
      /\ Mcp!ValidDiscovery(mc_skill)
  BY DEF McpInv
<1>2. mc_catalog =
        [t \in {x \in mc_offered : Mcp!Published(mc_contract, x)} |->
            [name |-> Mcp!LocalName(mc_contract, t), policy |-> Mcp!EffectivePolicy(mc_contract, t)]]
  BY DEF McpInv, Mcp!Nothing
<1>3. Mcp!Published(mc_contract, tool) /\ mc_catalog[tool].policy = Mcp!EffectivePolicy(mc_contract, tool)
  BY <1>2
<1>4. /\ mc_contract.floor = mc_skill.floor /\ mc_contract.policies = mc_skill.discovery.policies
      /\ mc_contract.allow = mc_skill.discovery.allow /\ mc_contract.deny = mc_skill.discovery.deny
  BY <1>1 DEF Mcp!CompiledContract
<1>5. Mcp!Eligible(mc_skill.discovery, tool)
  BY <1>3, <1>4 DEF Mcp!Published, Mcp!Denied, Mcp!Eligible
<1>6. PICK p : /\ mc_catalog[tool].policy = Mcp!Composed(mc_skill.floor, p)
               /\ tool \in DOMAIN mc_skill.discovery.policies => p = mc_skill.discovery.policies[tool]
               /\ tool \notin DOMAIN mc_skill.discovery.policies => p = Mcp!Unreviewed
  BY <1>3, <1>4 DEF Mcp!EffectivePolicy
<1>7. tool \notin DOMAIN mc_skill.discovery.policies => p.risk = "unclassified"
  BY <1>6 DEF Mcp!Unreviewed
<1>8. mc_skill.discovery.commerce # Mcp!Nothing /\ tool \in mc_skill.discovery.commerce.final =>
        p.risk = "commerce" /\ mc_skill.discovery.commerce.scope \in p.scopes
  BY <1>1, <1>6, FinalToolsAreReviewed
<1>9. Mcp!RiskApproval["commerce"] = "commerce_checkout"
  BY DEF Mcp!RiskApproval
<1> QED
  BY <1>5, <1>6, <1>7, <1>8, <1>9, ComposedKeepsFloor

\* No tool the skill admits is lost.
LEMMA EligibleIsPublished ==
    ASSUME McpInv, mc_contract # Mcp!Nothing, NEW tool \in mc_offered,
           Mcp!Eligible(mc_skill.discovery, tool), Mcp!NameFits(mc_contract, tool)
    PROVE  tool \in DOMAIN mc_catalog
<1>1. /\ mc_contract = Mcp!CompiledContract(mc_skill) /\ mc_skill \in mc_Skills
      /\ Mcp!ValidDiscovery(mc_skill) /\ Mcp!CompileFits(mc_skill)
  BY DEF McpInv
<1>2. Mcp!FitsTogether(Mcp!EffectivePolicy(mc_contract, tool))
  BY <1>1, PoliciesFit
<1>3. mc_contract.allow = mc_skill.discovery.allow /\ mc_contract.deny = mc_skill.discovery.deny
  BY <1>1 DEF Mcp!CompiledContract
<1>4. Mcp!Published(mc_contract, tool)
  BY <1>2, <1>3 DEF Mcp!Published, Mcp!Denied, Mcp!Eligible
<1> QED
  BY <1>4 DEF McpInv

\* The catalog of a skill that lists its tools is no longer than its list.
LEMMA CatalogIsBounded ==
    ASSUME McpInv, mc_contract # Mcp!Nothing, mc_skill.discovery.allow # {}
    PROVE  Mcp!Cardinality(DOMAIN mc_catalog) <= Mcp!Cardinality(mc_skill.discovery.allow)
<1>1. DOMAIN mc_catalog \subseteq mc_skill.discovery.allow
  BY PublishedAsReviewed DEF Mcp!Eligible
<1>2. IsFiniteSet(mc_skill.discovery.allow)
  <2>1. Mcp!IsFiniteSet(mc_skill.discovery.allow)
    BY DecisionAssumption DEF McpInv, Mcp!CatalogAssumption
  <2> QED
    BY <2>1, Zenon DEF Mcp!IsFiniteSet, IsFiniteSet
<1>3. Cardinality(DOMAIN mc_catalog) <= Cardinality(mc_skill.discovery.allow)
  BY <1>1, <1>2, FS_Subset
<1> QED
  BY <1>3, CatalogCounts

\* The names of a catalog tell its tools apart.
LEMMA CatalogNamesDiffer ==
    ASSUME McpInv, mc_contract # Mcp!Nothing, NEW a \in DOMAIN mc_catalog, NEW b \in DOMAIN mc_catalog,
           mc_catalog[a].name = mc_catalog[b].name
    PROVE  a = b
<1>1. mc_contract = Mcp!CompiledContract(mc_skill) /\ mc_skill \in mc_Skills
  BY DEF McpInv
<1>2. /\ mc_offered \in mc_Offers
      /\ mc_catalog =
            [t \in {x \in mc_offered : Mcp!Published(mc_contract, x)} |->
                [name |-> Mcp!LocalName(mc_contract, t), policy |-> Mcp!EffectivePolicy(mc_contract, t)]]
  BY DEF McpInv, Mcp!Nothing
<1>3. /\ a \in mc_offered /\ b \in mc_offered
      /\ Mcp!LocalName(mc_contract, a) = Mcp!LocalName(mc_contract, b)
  BY <1>2
<1> QED
  BY <1>1, <1>2, <1>3, LocalNamesDiffer

\* What is published of a skill is what was reviewed, whatever a server lists:
\* the readers of its file agree, and neither a discovered tool nor a parameter
\* slips past the policy (parse_skill_runtime_package, McpCatalogPolicyContract).
THEOREM CatalogStaysReviewed == SkillFile!Spec /\ Mcp!Spec => []CatalogIsAsReviewed
<1>1. McpInv => Mcp!CatalogIsAsReviewed
  <2> SUFFICES ASSUME McpInv, mc_contract # Mcp!Nothing
               PROVE  Mcp!CatalogIsAsReviewed
    BY DEF Mcp!CatalogIsAsReviewed
  <2> QED
    BY PublishedAsReviewed, EligibleIsPublished, CatalogIsBounded, CatalogNamesDiffer DEF Mcp!CatalogIsAsReviewed
<1>2. McpInv => Mcp!ParametersDiffer
  <2> SUFFICES ASSUME McpInv, mc_surface # Mcp!Nothing, NEW action \in DOMAIN mc_surface
               PROVE  Mcp!Distinct(mc_surface[action])
    BY DEF Mcp!ParametersDiffer
  <2>1. /\ mc_surface = Mcp!Actions(mc_skill)
        /\ Mcp!CommonDistinct(mc_skill)
        /\ Mcp!Distinct(Mcp!Common(mc_skill) \o Mcp!CallParameters(mc_skill))
    BY DEF McpInv, Mcp!ProjectionFits
  <2>2. mc_surface[action] \in {Mcp!Common(mc_skill), Mcp!Common(mc_skill) \o Mcp!CallParameters(mc_skill)}
    BY <2>1 DEF Mcp!Actions
  <2> QED
    BY <2>1, <2>2 DEF Mcp!CommonDistinct
<1>3. McpInv /\ (subject = "package" => SkillFile!ReadersAgree) => CatalogIsAsReviewed
  BY <1>1, <1>2 DEF CatalogIsAsReviewed
<1> QED
  BY <1>3, McpInvHolds, ReadersStayInAgreement, PTL
=============================================================================
