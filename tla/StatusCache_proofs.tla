------------------------- MODULE StatusCache_proofs -------------------------
(***************************************************************************)
(* Proofs about StatusCache, for every number of threads, targets,         *)
(* directories and replacements, and every limit of the generation.        *)
(***************************************************************************)
EXTENDS StatusCache, FiniteSetTheorems, TLAPS

(* The steps by name. *)

\* The steps of the callers and the clock, one by one.
LEMMA StepCases ==
    ASSUME Next
    PROVE  \/ \E c \in Callers, to \in {"beginning", "looking"}, t \in Targets, k \in Contracts,
                 h \in UNION {IssuedHandles(d) : d \in Directories} : Asks(c, to, t, k, h)
           \/ \E c \in Callers, t \in Targets, k \in Contracts,
                 h \in UNION {IssuedHandles(d) : d \in Directories} : RejectLookup(c, t, k, h)
           \/ \E c \in Callers : TakeTicket(c)
           \/ \E c \in Callers : DiscardTicket(c)
           \/ \E c \in Callers : RevalidateStore(c)
           \/ \E c \in Callers, at \in 0..clock, ttl \in Ttls : StoreReady(c, at, ttl)
           \/ \E c \in Callers, now \in 0..clock : Lookup(c, now)
           \/ \E c \in Callers : InvalidateRejected(c)
           \/ \E t \in Targets : Invalidate(t)
           \/ \E d \in Directories : \E h \in IssuedHandles(d) : InvalidateDirectory(h)
           \/ \E e \in Epochs : ReplaceProcessEpoch(e)
           \/ \E p \in Policies : ReplacePolicyRevision(p)
           \/ \E d \in Directories, inode \in Inodes : ReplaceDirectory(d, inode)
           \/ Tick
<1>1. ASSUME NEW c \in Callers, NEW t \in Targets, NEW k \in Contracts,
             NEW h \in UNION {IssuedHandles(d) : d \in Directories},
             StartObservation(c, t, k, h) \/ StartLookup(c, t, k, h)
      PROVE  \E to \in {"beginning", "looking"} : Asks(c, to, t, k, h)
  BY <1>1 DEF StartObservation, StartLookup
<1> QED
  BY <1>1, Zenon DEF Next, Calls, Host, FileSystem

-----------------------------------------------------------------------------
(* Type correctness, and the capacity of the cache.                        *)

\* Steps that only take entries away keep what is left as it was.
Shrinks == \A t \in Targets : entries'[t] = entries[t] \/ entries'[t] = NoEntry

\* An advance of the generation only takes entries away.
LEMMA AdvanceShrinks ==
    ASSUME NEW gone, Advance(gone)
    PROVE  Shrinks /\ \A t \in gone \cap Targets : entries'[t] = NoEntry
  BY DEF Advance, Without, Shrinks

StoreOK ==
    /\ mutation_generation \in 1..MaxGeneration
    /\ entries \in [Targets -> Entries \cup {NoEntry}]
    /\ Cardinality(Cached) <= MaxEntries

CallsOK ==
    /\ stage \in [Callers -> Stages]
    /\ call \in [Callers -> Questions \cup Probes \cup {NoCall}]
    /\ \A c \in Callers :
          /\ stage[c] = "idle" => call[c] = NoCall
          /\ HoldsTicket(c) => call[c] \in Probes
          /\ stage[c] \in {"beginning", "looking", "rejecting"} => call[c] \in Questions

WorldOK ==
    /\ clock \in Nat
    /\ directory \in [Directories -> Seq(Inodes)]
    /\ cache_epoch \in Epochs
    /\ policy_revision \in Policies
    /\ outdated \subseteq Callers
    /\ lapped \subseteq Callers

TypeInv == StoreOK /\ CallsOK /\ WorldOK

\* What is cached is finite, and so is each part of it.
LEMMA CachedIsFinite ==
    /\ IsFiniteSet(Cached)
    /\ Cardinality(Cached) \in Nat
    /\ \A S \in SUBSET Cached : IsFiniteSet(S) /\ Cardinality(S) <= Cardinality(Cached)
<1>1. IsFiniteSet(Cached)
  BY CacheAssumption, FS_Subset DEF Cached
<1> QED
  BY <1>1, FS_Subset, FS_CardinalityType

\* It keeps the store within its bound.
LEMMA AdvanceStore ==
    ASSUME StoreOK, NEW gone, Advance(gone)
    PROVE  StoreOK' /\ (lapped \subseteq Callers => lapped' \subseteq Callers)
<1>1. mutation_generation' \in 1..MaxGeneration
  BY CacheAssumption DEF Advance, StoreOK
<1>2. entries' \in [Targets -> Entries \cup {NoEntry}]
  BY DEF Advance, Without, StoreOK
<1>3. Cached' \subseteq Cached
  BY AdvanceShrinks DEF Shrinks, Cached
<1>4. Cardinality(Cached') <= MaxEntries
  BY <1>3, CachedIsFinite, FS_CardinalityType, CacheAssumption DEF StoreOK
<1> QED
  BY <1>1, <1>2, <1>4 DEF StoreOK, Advance, Cached

\* Storing a status keeps it so.
LEMMA StoreStep ==
    ASSUME TypeInv, NEW c \in Callers, NEW at \in 0..clock, NEW ttl \in Ttls, StoreReady(c, at, ttl)
    PROVE  StoreOK'
<1> DEFINE q == call[c].question
           new == [contract |-> q.contract, handle |-> q.handle, epoch |-> cache_epoch,
                   policy |-> policy_revision, expires_at |-> at + ttl]
<1>1. q \in Questions
  BY DEF TypeInv, CallsOK, StoreReady, HoldsTicket, Probes
<1>2. at \in Nat /\ ttl \in Nat
  BY CacheAssumption DEF TypeInv, WorldOK
<1>3. new \in Entries
  BY <1>1, <1>2 DEF TypeInv, WorldOK, Entries, Questions
<1>4. UNCHANGED mutation_generation
  BY DEF StoreReady, authority
<1>5. CASE ~IsCurrent(c)
  BY <1>4, <1>5 DEF StoreReady, TypeInv, StoreOK, Cached
<1>6. CASE IsCurrent(c)
  <2>1. entries' = [t \in Targets |->
               IF t = q.target /\ HasRoom(t, at) THEN new
               ELSE IF t \in Unexpired(at) THEN entries[t] ELSE NoEntry]
    BY <1>6 DEF StoreReady
  <2> HIDE DEF new
  <2>2. entries' \in [Targets -> Entries \cup {NoEntry}]
    BY <1>3, <2>1 DEF TypeInv, StoreOK
  <2>3. Unexpired(at) \subseteq Cached
    BY DEF Unexpired
  <2>4. IsFiniteSet(Unexpired(at)) /\ Cardinality(Unexpired(at)) <= MaxEntries
    BY <2>3, CachedIsFinite, FS_CardinalityType, CacheAssumption DEF TypeInv, StoreOK
  <2>5. CASE HasRoom(q.target, at) /\ q.target \notin Unexpired(at)
    <3>1. Cached' \subseteq Unexpired(at) \cup {q.target}
      BY <2>1 DEF Cached
    <3>2. Cardinality(Unexpired(at)) < MaxEntries
      BY <2>5 DEF HasRoom
    <3>3. /\ IsFiniteSet(Unexpired(at) \cup {q.target})
          /\ Cardinality(Unexpired(at) \cup {q.target}) <= MaxEntries
      <4>1. /\ IsFiniteSet(Unexpired(at) \cup {q.target})
            /\ Cardinality(Unexpired(at) \cup {q.target}) = Cardinality(Unexpired(at)) + 1
        BY <2>4, <2>5, FS_AddElement
      <4>2. Cardinality(Unexpired(at)) \in Nat
        BY <2>4, FS_CardinalityType
      <4> QED
        BY <3>2, <4>1, <4>2, CacheAssumption
    <3>4. Cardinality(Cached') <= Cardinality(Unexpired(at) \cup {q.target})
      BY <3>1, <3>3, FS_Subset
    <3>5. Cardinality(Cached') \in Nat
      BY <3>1, <3>3, FS_Subset, FS_CardinalityType
    <3>6. Cardinality(Cached') <= MaxEntries
      BY <3>3, <3>4, <3>5, FS_CardinalityType, CacheAssumption
    <3> QED
      BY <1>4, <2>2, <3>6 DEF TypeInv, StoreOK, Cached
  <2>6. CASE ~(HasRoom(q.target, at) /\ q.target \notin Unexpired(at))
    <3>1. Cached' \subseteq Unexpired(at)
      BY <2>1, <2>6 DEF Cached
    <3>2. Cardinality(Cached') <= Cardinality(Unexpired(at)) /\ Cardinality(Cached') \in Nat
      BY <2>4, <3>1, FS_Subset, FS_CardinalityType
    <3>3. Cardinality(Cached') <= MaxEntries
      BY <2>4, <3>2, FS_CardinalityType, CacheAssumption
    <3> QED
      BY <1>4, <2>2, <3>3 DEF TypeInv, StoreOK, Cached
  <2> QED
    BY <2>5, <2>6
<1> QED
  BY <1>5, <1>6

\* One caller moves; the others' calls stay as they are.
LEMMA OneCallMoves ==
    ASSUME CallsOK, NEW c \in Callers, NEW to \in Stages, NEW q,
           stage' = [stage EXCEPT ![c] = to], call' = [call EXCEPT ![c] = q],
           to = "idle" => q = NoCall,
           to \in {"probing", "storing"} => q \in Probes,
           to \in {"beginning", "looking", "rejecting"} => q \in Questions
    PROVE  CallsOK'
<1>1. /\ stage' \in [Callers -> Stages]
      /\ call' \in [Callers -> Questions \cup Probes \cup {NoCall}]
  BY DEF CallsOK, Stages
<1>2. stage'[c] = to /\ call'[c] = q
  BY DEF CallsOK
<1>3. \A d \in Callers : d # c => stage'[d] = stage[d] /\ call'[d] = call[d]
  BY DEF CallsOK
<1> QED
  BY <1>1, <1>2, <1>3 DEF CallsOK, HoldsTicket

\* Every step keeps the types.
LEMMA TypeNext == TypeInv /\ [Next]_cacheVars => TypeInv'
<1> SUFFICES ASSUME TypeInv, [Next]_cacheVars PROVE TypeInv'
  OBVIOUS
<1>0. CallsOK /\ StoreOK /\ WorldOK
  BY DEF TypeInv
<1>1. \A d \in Directories : \A h \in IssuedHandles(d) : h \in Handles
  BY DEF IssuedHandles, Handles, WorldOK, TypeInv
<1>2. ASSUME UNCHANGED calls PROVE CallsOK'
  BY <1>0, <1>2 DEF CallsOK, calls, HoldsTicket
<1>3. ASSUME UNCHANGED <<mutation_generation, entries>> PROVE StoreOK'
  BY <1>0, <1>3 DEF StoreOK, Cached
<1>4. ASSUME NEW c \in Callers, NEW to \in {"beginning", "looking"}, NEW t \in Targets,
             NEW k \in Contracts, NEW h \in UNION {IssuedHandles(d) : d \in Directories},
             Asks(c, to, t, k, h)
      PROVE  TypeInv'
  <2>1. [target |-> t, contract |-> k, handle |-> h] \in Questions
    BY <1>1 DEF Questions
  <2>2. CallsOK'
    BY <1>0, <1>4, <2>1, OneCallMoves DEF Asks, Moves, Stages
  <2>3. StoreOK'
    BY <1>3, <1>4 DEF Asks, authority
  <2>4. WorldOK'
    BY <1>0, <1>4 DEF Asks, authority, probes, WorldOK
  <2> QED
    BY <2>2, <2>3, <2>4 DEF TypeInv
<1>5. ASSUME NEW c \in Callers, NEW t \in Targets, NEW k \in Contracts,
             NEW h \in UNION {IssuedHandles(d) : d \in Directories}, RejectLookup(c, t, k, h)
      PROVE  TypeInv'
  <2>1. [target |-> t, contract |-> k, handle |-> h] \in Questions
    BY <1>1 DEF Questions
  <2>2. CallsOK'
    BY <1>0, <1>5, <2>1, OneCallMoves DEF RejectLookup, Moves, Stages
  <2>3. StoreOK'
    BY <1>3, <1>5 DEF RejectLookup, authority
  <2>4. WorldOK'
    BY <1>0, <1>5 DEF RejectLookup, authority, probes, WorldOK
  <2> QED
    BY <2>2, <2>3, <2>4 DEF TypeInv
<1>6. ASSUME NEW c \in Callers, TakeTicket(c) PROVE TypeInv'
  <2>1. call[c] \in Questions
    BY <1>0, <1>6 DEF TakeTicket, CallsOK
  <2>2. [question |-> call[c], epoch |-> cache_epoch, policy |-> policy_revision,
         generation |-> mutation_generation] \in Probes
    BY <1>0, <2>1 DEF Probes, StoreOK, WorldOK
  <2>3. CallsOK'
    BY <1>0, <1>6, <2>2, OneCallMoves DEF TakeTicket, Moves, Stages
  <2>4. StoreOK'
    BY <1>3, <1>6 DEF TakeTicket, authority
  <2>5. WorldOK'
    BY <1>0, <1>6 DEF TakeTicket, authority, WorldOK
  <2> QED
    BY <2>3, <2>4, <2>5 DEF TypeInv
<1>7. ASSUME NEW c \in Callers, DiscardTicket(c) PROVE TypeInv'
  <2>1. CallsOK'
    BY <1>0, <1>7, OneCallMoves DEF DiscardTicket, Finish, Stages
  <2>2. StoreOK'
    BY <1>3, <1>7 DEF DiscardTicket, authority
  <2>3. WorldOK'
    BY <1>0, <1>7 DEF DiscardTicket, authority, probes, WorldOK
  <2> QED
    BY <2>1, <2>2, <2>3 DEF TypeInv
<1>8. ASSUME NEW c \in Callers, RevalidateStore(c) PROVE TypeInv'
  <2>1. call[c] \in Probes /\ call[c].question \in Questions
    BY <1>0, <1>8 DEF RevalidateStore, CallsOK, HoldsTicket, Probes
  <2>2. CASE Revalidates(call[c].question.handle)
    <3>1. stage' = [stage EXCEPT ![c] = "storing"] /\ call' = [call EXCEPT ![c] = call[c]]
      BY <1>0, <1>8, <2>2 DEF RevalidateStore, Moves, CallsOK
    <3> QED
      BY <1>0, <2>1, <3>1, <1>8, <1>3, OneCallMoves
      DEF RevalidateStore, authority, probes, WorldOK, TypeInv, Stages
  <2>3. CASE ~Revalidates(call[c].question.handle)
    <3>1. stage' = [stage EXCEPT ![c] = "rejecting"] /\ call' = [call EXCEPT ![c] = call[c].question]
      BY <1>8, <2>3 DEF RevalidateStore, Moves
    <3> QED
      BY <1>0, <2>1, <3>1, <1>8, <1>3, OneCallMoves
      DEF RevalidateStore, authority, probes, WorldOK, TypeInv, Stages
  <2> QED
    BY <2>2, <2>3
<1>9. ASSUME NEW c \in Callers, NEW at \in 0..clock, NEW ttl \in Ttls, StoreReady(c, at, ttl)
      PROVE  TypeInv'
  <2>1. CallsOK'
    BY <1>0, <1>9, OneCallMoves DEF StoreReady, Finish, Stages
  <2>2. StoreOK'
    BY <1>9, StoreStep
  <2>3. WorldOK'
    BY <1>0, <1>9 DEF StoreReady, authority, probes, WorldOK
  <2> QED
    BY <2>1, <2>2, <2>3 DEF TypeInv
<1>10. ASSUME NEW t, InvalidateTarget(t), UNCHANGED <<clock, directory, cache_epoch, policy_revision>>
       PROVE  StoreOK' /\ WorldOK'
  BY <1>0, <1>10, AdvanceStore DEF InvalidateTarget, Outdate, WorldOK
<1>11. ASSUME NEW c \in Callers, NEW now \in 0..clock, Lookup(c, now) PROVE TypeInv'
  <2>1. CallsOK'
    BY <1>0, <1>11, OneCallMoves DEF Lookup, Finish, Stages
  <2>2. UNCHANGED <<clock, directory, cache_epoch, policy_revision>>
    BY <1>11 DEF Lookup
  <2>3. CASE UNCHANGED <<mutation_generation, entries, probes>>
    BY <1>0, <1>3, <2>1, <2>2, <2>3 DEF TypeInv, WorldOK, probes
  <2>4. CASE InvalidateTarget(call[c].target)
    BY <1>10, <2>1, <2>2, <2>4 DEF TypeInv
  <2> QED
    BY <1>11, <2>3, <2>4 DEF Lookup
<1>12. ASSUME NEW c \in Callers, InvalidateRejected(c) PROVE TypeInv'
  <2>1. CallsOK'
    BY <1>0, <1>12, OneCallMoves DEF InvalidateRejected, Finish, Stages
  <2> QED
    BY <1>10, <1>12, <2>1 DEF InvalidateRejected, TypeInv
<1>13. ASSUME NEW t \in Targets, Invalidate(t) PROVE TypeInv'
  BY <1>2, <1>10, <1>13 DEF Invalidate, TypeInv
<1>14. ASSUME NEW h, InvalidateDirectory(h) PROVE TypeInv'
  BY <1>0, <1>2, <1>14, AdvanceStore DEF InvalidateDirectory, WorldOK, TypeInv
<1>15. ASSUME NEW e \in Epochs, ReplaceProcessEpoch(e) PROVE TypeInv'
  BY <1>0, <1>2, <1>15, AdvanceStore DEF ReplaceProcessEpoch, Outdate, WorldOK, TypeInv
<1>16. ASSUME NEW p \in Policies, ReplacePolicyRevision(p) PROVE TypeInv'
  BY <1>0, <1>2, <1>16, AdvanceStore DEF ReplacePolicyRevision, Outdate, WorldOK, TypeInv
<1>17. ASSUME NEW d \in Directories, NEW inode \in Inodes, ReplaceDirectory(d, inode)
       PROVE  TypeInv'
  <2>1. directory' \in [Directories -> Seq(Inodes)]
    BY <1>0, <1>17 DEF ReplaceDirectory, WorldOK
  <2> QED
    BY <1>0, <1>2, <1>3, <1>17, <2>1 DEF ReplaceDirectory, WorldOK, TypeInv, authority, probes
<1>18. CASE Tick
  BY <1>0, <1>2, <1>3, <1>18 DEF Tick, WorldOK, TypeInv, authority, probes
<1>19. CASE UNCHANGED cacheVars
  BY <1>0, <1>2, <1>3, <1>19 DEF cacheVars, WorldOK, TypeInv, authority, probes
<1> QED
  BY <1>4, <1>5, <1>6, <1>7, <1>8, <1>9, <1>11, <1>12, <1>13, <1>14, <1>15, <1>16, <1>17, <1>18,
     <1>19, StepCases

\* The types hold throughout.
LEMMA TypeInvariant == Spec => []TypeInv
<1>1. Init => TypeInv
  <2> SUFFICES ASSUME Init PROVE TypeInv
    OBVIOUS
  <2>1. Cached = {}
    BY DEF Init, Cached
  <2>2. StoreOK
    <3>1. Cardinality(Cached) = 0
      BY <2>1, FS_EmptySet
    <3>2. mutation_generation \in 1..MaxGeneration /\ entries \in [Targets -> Entries \cup {NoEntry}]
      BY CacheAssumption DEF Init
    <3>3. Cardinality(Cached) <= MaxEntries
      BY <3>1, CacheAssumption
    <3> QED
      BY <3>2, <3>3 DEF StoreOK
  <2>3. CallsOK
    BY DEF Init, CallsOK, Stages, HoldsTicket
  <2>4. WorldOK
    <3>1. \A i \in Inodes : <<i>> \in Seq(Inodes)
      OBVIOUS
    <3> QED
      BY <3>1 DEF Init, WorldOK
  <2> QED
    BY <2>2, <2>3, <2>4 DEF TypeInv
<1> QED
  BY <1>1, TypeNext, PTL DEF Spec

\* Every variable stays in its domain, and the cache never holds more than
\* its capacity (store_ready).
THEOREM TypeCorrect == Spec => []TypeOK
<1>1. TypeInv => TypeOK
  BY DEF TypeInv, TypeOK, StoreOK, CallsOK, WorldOK
<1> QED
  BY <1>1, TypeInvariant, PTL

-----------------------------------------------------------------------------
(* What is cached matches the authority in force: entries enter under the  *)
(* current epoch and policy, and leave when either is replaced.            *)

\* Taking entries away keeps those that are left of their authority.
LEMMA ShrinkKeepsAuthority ==
    ASSUME EntriesMatchAuthority, Shrinks, UNCHANGED <<cache_epoch, policy_revision>>
    PROVE  EntriesMatchAuthority'
  BY DEF EntriesMatchAuthority, Shrinks, Cached

\* Every step keeps entries of their authority.
LEMMA AuthorityNext == EntriesMatchAuthority /\ [Next]_cacheVars => EntriesMatchAuthority'
<1> SUFFICES ASSUME EntriesMatchAuthority, [Next]_cacheVars PROVE EntriesMatchAuthority'
  OBVIOUS
<1>1. ASSUME UNCHANGED <<entries, cache_epoch, policy_revision>> PROVE EntriesMatchAuthority'
  BY <1>1, ShrinkKeepsAuthority DEF Shrinks
<1>2. ASSUME NEW c \in Callers, NEW to, NEW t, NEW k, NEW h, Asks(c, to, t, k, h)
      PROVE  EntriesMatchAuthority'
  BY <1>1, <1>2 DEF Asks, authority
<1>3. ASSUME NEW c \in Callers, NEW t, NEW k, NEW h, RejectLookup(c, t, k, h)
      PROVE  EntriesMatchAuthority'
  BY <1>1, <1>3 DEF RejectLookup, authority
<1>4. ASSUME NEW c \in Callers, TakeTicket(c) \/ DiscardTicket(c) \/ RevalidateStore(c)
      PROVE  EntriesMatchAuthority'
  BY <1>1, <1>4 DEF TakeTicket, DiscardTicket, RevalidateStore, authority
<1>5. ASSUME NEW c \in Callers, NEW at \in 0..clock, NEW ttl \in Ttls, StoreReady(c, at, ttl)
      PROVE  EntriesMatchAuthority'
  <2> DEFINE q == call[c].question
             new == [contract |-> q.contract, handle |-> q.handle, epoch |-> cache_epoch,
                     policy |-> policy_revision, expires_at |-> at + ttl]
  <2>1. UNCHANGED <<cache_epoch, policy_revision>>
    BY <1>5 DEF StoreReady, authority
  <2>2. ASSUME NEW t \in Targets
        PROVE  entries'[t] \in {new, entries[t], NoEntry}
    BY <1>5 DEF StoreReady
  <2>3. new.epoch = cache_epoch /\ new.policy = policy_revision
    OBVIOUS
  <2> HIDE DEF new
  <2> QED
    BY <2>1, <2>2, <2>3 DEF EntriesMatchAuthority, Cached
<1>6. ASSUME NEW gone, Advance(gone), UNCHANGED <<cache_epoch, policy_revision>>
      PROVE  EntriesMatchAuthority'
  BY <1>6, AdvanceShrinks, ShrinkKeepsAuthority
<1>7. ASSUME NEW c \in Callers, NEW now \in 0..clock, Lookup(c, now) PROVE EntriesMatchAuthority'
  BY <1>1, <1>6, <1>7 DEF Lookup, InvalidateTarget
<1>8. ASSUME NEW c \in Callers, InvalidateRejected(c) PROVE EntriesMatchAuthority'
  BY <1>6, <1>8 DEF InvalidateRejected, InvalidateTarget
<1>9. ASSUME NEW t \in Targets, Invalidate(t) PROVE EntriesMatchAuthority'
  BY <1>6, <1>9 DEF Invalidate, InvalidateTarget
<1>10. ASSUME NEW h, InvalidateDirectory(h) PROVE EntriesMatchAuthority'
  BY <1>6, <1>10 DEF InvalidateDirectory
<1>11. ASSUME Advance(ReplacedEntries) PROVE EntriesMatchAuthority'
  BY <1>11, AdvanceShrinks DEF ReplacedEntries, EntriesMatchAuthority, Cached
<1>12. ASSUME NEW e \in Epochs, ReplaceProcessEpoch(e) PROVE EntriesMatchAuthority'
  BY <1>11, <1>12 DEF ReplaceProcessEpoch
<1>13. ASSUME NEW p \in Policies, ReplacePolicyRevision(p) PROVE EntriesMatchAuthority'
  BY <1>11, <1>13 DEF ReplacePolicyRevision
<1>14. ASSUME NEW d \in Directories, NEW inode \in Inodes, ReplaceDirectory(d, inode)
       PROVE  EntriesMatchAuthority'
  BY <1>1, <1>14 DEF ReplaceDirectory, authority
<1>15. CASE Tick
  BY <1>1, <1>15 DEF Tick, authority
<1>16. CASE UNCHANGED cacheVars
  BY <1>1, <1>16 DEF cacheVars, authority
<1> QED
  BY <1>2, <1>3, <1>4, <1>5, <1>7, <1>8, <1>9, <1>10, <1>12, <1>13, <1>14, <1>15, <1>16, StepCases

\* No entry outlives the process epoch or the policy revision it was
\* published under (replace_process_epoch and replace_policy_revision against
\* store_ready).
THEOREM AuthorityMatches == Spec => []EntriesMatchAuthority
<1>1. Init => EntriesMatchAuthority
  BY DEF Init, EntriesMatchAuthority, Cached
<1> QED
  BY <1>1, AuthorityNext, PTL DEF Spec

-----------------------------------------------------------------------------
(* Readiness is not resurrected: a probe that was overtaken by a mutation  *)
(* holds a ticket of an older generation.                                  *)

Counting ==
    /\ mutation_generation \in 1..MaxGeneration
    /\ stage \in [Callers -> Stages]
    /\ DOMAIN call = Callers
    /\ \A c \in Callers : HoldsTicket(c) => call[c].generation \in 1..MaxGeneration

Overtaken ==
    \A c \in Callers \ lapped :
        HoldsTicket(c) =>
            /\ call[c].generation <= mutation_generation
            /\ c \in outdated => call[c].generation < mutation_generation

GenerationInv == Counting /\ Overtaken

\* The effect of a step on tickets and generation when no ticket is given out.
Mutates ==
    \/ UNCHANGED <<mutation_generation, outdated, lapped>>
    \/ mutation_generation < MaxGeneration /\ mutation_generation' = mutation_generation + 1
       /\ lapped' = lapped
    \/ mutation_generation' = 1 /\ lapped' = lapped \cup {c \in Callers : HoldsTicket(c)}

\* It counts as one mutation, which marks the tickets that it laps.
LEMMA AdvanceMutates ==
    ASSUME NEW gone, Advance(gone)
    PROVE  Mutates
  BY DEF Advance, Mutates

\* A mutation keeps what is known of the generations of the tickets.
LEMMA MutatesKeeps ==
    ASSUME GenerationInv, Mutates, stage' \in [Callers -> Stages], DOMAIN call' = Callers,
           \A c \in Callers : HoldsTicket(c)' => HoldsTicket(c) /\ call'[c].generation = call[c].generation
    PROVE  GenerationInv'
<1> USE DEF GenerationInv, Counting, Overtaken
<1>1. mutation_generation \in Nat /\ MaxGeneration \in Nat \ {0}
  BY CacheAssumption
<1>2. CASE UNCHANGED <<mutation_generation, outdated, lapped>>
  BY <1>2
<1>3. CASE mutation_generation < MaxGeneration /\ mutation_generation' = mutation_generation + 1
           /\ lapped' = lapped
  BY <1>1, <1>3
<1>4. CASE mutation_generation' = 1 /\ lapped' = lapped \cup {c \in Callers : HoldsTicket(c)}
  <2>1. Overtaken'
    BY <1>4
  <2> QED
    BY <1>1, <1>4, <2>1
<1> QED
  BY <1>2, <1>3, <1>4 DEF Mutates

\* Every step keeps them.
LEMMA GenerationNext == GenerationInv /\ [Next]_cacheVars => GenerationInv'
<1> SUFFICES ASSUME GenerationInv, [Next]_cacheVars PROVE GenerationInv'
  OBVIOUS
<1>0. stage \in [Callers -> Stages] /\ DOMAIN call = Callers
  BY DEF GenerationInv, Counting
<1>1. ASSUME UNCHANGED calls, Mutates PROVE GenerationInv'
  BY <1>0, <1>1, MutatesKeeps DEF calls, HoldsTicket
<1>2. ASSUME UNCHANGED calls, UNCHANGED authority, UNCHANGED probes PROVE GenerationInv'
  BY <1>1, <1>2 DEF authority, probes, Mutates
\* One caller's call moves on, without a ticket.
<1>3. ASSUME Mutates, NEW c \in Callers, NEW to \in Stages \ {"probing", "storing"}, NEW q,
             stage' = [stage EXCEPT ![c] = to], call' = [call EXCEPT ![c] = q]
      PROVE  GenerationInv'
  <2>1. stage' \in [Callers -> Stages] /\ DOMAIN call' = Callers
    BY <1>0, <1>3
  <2>2. ASSUME NEW d \in Callers, HoldsTicket(d)'
        PROVE  HoldsTicket(d) /\ call'[d].generation = call[d].generation
    <3>1. d # c
      BY <1>0, <1>3, <2>2 DEF HoldsTicket
    <3> QED
      BY <1>0, <1>3, <2>2, <3>1 DEF HoldsTicket
  <2> QED
    BY <1>3, <2>1, <2>2, MutatesKeeps
<1>4. ASSUME NEW c \in Callers, NEW to \in {"beginning", "looking"}, NEW t, NEW k, NEW h,
             Asks(c, to, t, k, h)
      PROVE  GenerationInv'
  BY <1>3, <1>4 DEF Asks, Moves, Stages, Mutates, authority, probes
<1>5. ASSUME NEW c \in Callers, NEW t, NEW k, NEW h, RejectLookup(c, t, k, h)
      PROVE  GenerationInv'
  BY <1>3, <1>5 DEF RejectLookup, Moves, Stages, Mutates, authority, probes
<1>6. ASSUME NEW c \in Callers, TakeTicket(c) PROVE GenerationInv'
  <2>1. /\ stage' = [stage EXCEPT ![c] = "probing"]
        /\ call'[c].generation = mutation_generation
        /\ DOMAIN call' = Callers
        /\ \A d \in Callers : d # c => call'[d] = call[d]
    BY <1>0, <1>6 DEF TakeTicket, Moves
  <2>2. mutation_generation' = mutation_generation /\ outdated' = outdated \ {c} /\ lapped' = lapped \ {c}
    BY <1>6 DEF TakeTicket, authority
  <2>3. stage' \in [Callers -> Stages] /\ stage'[c] = "probing"
        /\ \A d \in Callers : d # c => stage'[d] = stage[d]
    BY <1>0, <2>1 DEF Stages
  <2>4. mutation_generation \in Nat
    BY CacheAssumption DEF GenerationInv, Counting
  <2>5. Counting'
    BY <2>1, <2>2, <2>3 DEF GenerationInv, Counting, HoldsTicket
  <2>6. Overtaken'
    BY <2>1, <2>2, <2>3, <2>4 DEF GenerationInv, Overtaken, HoldsTicket
  <2> QED
    BY <2>5, <2>6 DEF GenerationInv
<1>7. ASSUME NEW c \in Callers, DiscardTicket(c) PROVE GenerationInv'
  BY <1>3, <1>7 DEF DiscardTicket, Finish, Stages, Mutates, authority, probes
<1>8. ASSUME NEW c \in Callers, RevalidateStore(c) PROVE GenerationInv'
  <2>1. CASE Revalidates(call[c].question.handle)
    <3>1. stage' = [stage EXCEPT ![c] = "storing"] /\ call' = call /\ Mutates
      BY <1>8, <2>1 DEF RevalidateStore, Moves, Mutates, authority, probes
    <3>2. stage' \in [Callers -> Stages]
      BY <1>0, <3>1 DEF Stages
    <3>3. \A d \in Callers : HoldsTicket(d)' => HoldsTicket(d)
      BY <1>0, <1>8, <3>1 DEF RevalidateStore, HoldsTicket
    <3> QED
      BY <1>0, <3>1, <3>2, <3>3, MutatesKeeps
  <2>2. CASE ~Revalidates(call[c].question.handle)
    BY <1>3, <1>8, <2>2 DEF RevalidateStore, Moves, Stages, Mutates, authority, probes
  <2> QED
    BY <2>1, <2>2
<1>9. ASSUME NEW c \in Callers, NEW at \in 0..clock, NEW ttl \in Ttls, StoreReady(c, at, ttl)
      PROVE  GenerationInv'
  BY <1>3, <1>9 DEF StoreReady, Finish, Stages, Mutates, authority, probes
<1>10. ASSUME NEW c \in Callers, NEW now \in 0..clock, Lookup(c, now) PROVE GenerationInv'
  <2>1. Mutates
    BY <1>10, AdvanceMutates DEF Lookup, InvalidateTarget, Mutates, probes
  <2> QED
    BY <1>3, <1>10, <2>1 DEF Lookup, Finish, Stages
<1>11. ASSUME NEW c \in Callers, InvalidateRejected(c) PROVE GenerationInv'
  BY <1>3, <1>11, AdvanceMutates DEF InvalidateRejected, InvalidateTarget, Finish, Stages
<1>12. ASSUME NEW t \in Targets, Invalidate(t) PROVE GenerationInv'
  BY <1>1, <1>12, AdvanceMutates DEF Invalidate, InvalidateTarget
<1>13. ASSUME NEW h, InvalidateDirectory(h) PROVE GenerationInv'
  BY <1>1, <1>13, AdvanceMutates DEF InvalidateDirectory
<1>14. ASSUME NEW e \in Epochs, ReplaceProcessEpoch(e) PROVE GenerationInv'
  BY <1>1, <1>14, AdvanceMutates DEF ReplaceProcessEpoch
<1>15. ASSUME NEW p \in Policies, ReplacePolicyRevision(p) PROVE GenerationInv'
  BY <1>1, <1>15, AdvanceMutates DEF ReplacePolicyRevision
<1>16. ASSUME NEW d \in Directories, NEW inode \in Inodes, ReplaceDirectory(d, inode)
       PROVE  GenerationInv'
  BY <1>2, <1>16 DEF ReplaceDirectory
<1>17. CASE Tick
  BY <1>2, <1>17 DEF Tick
<1>18. CASE UNCHANGED cacheVars
  BY <1>2, <1>18 DEF cacheVars
<1> QED
  BY <1>4, <1>5, <1>6, <1>7, <1>8, <1>9, <1>10, <1>11, <1>12, <1>13, <1>14, <1>15, <1>16, <1>17,
     <1>18, StepCases

\* The generations hold throughout.
LEMMA GenerationInvariant == Spec => []GenerationInv
<1>1. Init => GenerationInv
  BY CacheAssumption DEF Init, GenerationInv, Counting, Overtaken, HoldsTicket, Stages
<1> QED
  BY <1>1, GenerationNext, PTL DEF Spec

\* A probe overtaken by an invalidation of its target or its directory, or by
\* a new epoch or policy, never publishes (the generation in the ticket of
\* begin_observation, compared by store_ready).
THEOREM ReadinessStaysDown == Spec => NoResurrection
<1> DEFINE Fair == \A c \in Callers : Publishes(c) => c \notin outdated \/ c \in lapped
<1>1. TypeInv /\ GenerationInv /\ [Next]_cacheVars => [Fair]_cacheVars
  <2> SUFFICES ASSUME TypeInv, GenerationInv, [Next]_cacheVars, NEW c \in Callers,
                      Publishes(c), c \in outdated, c \notin lapped
               PROVE  FALSE
    OBVIOUS
  <2> DEFINE u == call[c].question.target
  <2>1. u \in Targets
    BY DEF Publishes, HoldsTicket, TypeInv, CallsOK, Probes, Questions
  <2>2. call[c].generation # mutation_generation
    <3>1. call[c].generation < mutation_generation
      BY DEF Publishes, HoldsTicket, GenerationInv, Overtaken
    <3>2. call[c].generation \in Int /\ mutation_generation \in Int
      BY DEF Publishes, HoldsTicket, GenerationInv, Counting
    <3> QED
      BY <3>1, <3>2
  <2>3. entries'[u] # entries[u] /\ entries'[u] # NoEntry
    BY DEF Publishes
  <2>4. ASSUME NEW gone, Advance(gone) PROVE FALSE
    BY <2>1, <2>3, <2>4, AdvanceShrinks DEF Shrinks
  <2>5. entries' # entries
    BY <2>3
  <2>6. ASSUME NEW d \in Callers, NEW at \in 0..clock, NEW ttl \in Ttls, StoreReady(d, at, ttl)
        PROVE  FALSE
    <3>1. d = c
      BY <2>6 DEF StoreReady, Finish, Publishes, TypeInv, CallsOK
    <3>2. entries' = entries
      BY <2>2, <2>6, <3>1 DEF StoreReady, IsCurrent
    <3> QED
      BY <2>5, <3>2
  <2>7. ASSUME NEW d \in Callers, NEW now \in 0..clock, Lookup(d, now) PROVE FALSE
    BY <2>4, <2>5, <2>7 DEF Lookup, InvalidateTarget
  <2>8. ASSUME \/ \E d \in Callers : InvalidateRejected(d)
               \/ \E t \in Targets : Invalidate(t)
               \/ \E d \in Directories : \E h \in IssuedHandles(d) : InvalidateDirectory(h)
               \/ \E e \in Epochs : ReplaceProcessEpoch(e)
               \/ \E p \in Policies : ReplacePolicyRevision(p)
        PROVE  FALSE
    BY <2>4, <2>8
    DEF InvalidateRejected, Invalidate, InvalidateTarget, InvalidateDirectory,
        ReplaceProcessEpoch, ReplacePolicyRevision
  <2>9. ASSUME \/ \E d \in Callers, to \in {"beginning", "looking"}, t \in Targets, k \in Contracts,
                     h \in UNION {IssuedHandles(x) : x \in Directories} : Asks(d, to, t, k, h)
               \/ \E d \in Callers, t \in Targets, k \in Contracts,
                     h \in UNION {IssuedHandles(x) : x \in Directories} : RejectLookup(d, t, k, h)
               \/ \E d \in Callers : TakeTicket(d) \/ DiscardTicket(d) \/ RevalidateStore(d)
               \/ \E d \in Directories, inode \in Inodes : ReplaceDirectory(d, inode)
               \/ Tick
               \/ UNCHANGED cacheVars
        PROVE  FALSE
    BY <2>5, <2>9
    DEF Asks, RejectLookup, TakeTicket, DiscardTicket, RevalidateStore, ReplaceDirectory, Tick,
        cacheVars
  <2> QED
    BY <2>6, <2>7, <2>8, <2>9, StepCases
<1>2. NoResurrection <=> [][Fair]_cacheVars
  BY DEF NoResurrection
<1> QED
  BY <1>1, <1>2, TypeInvariant, GenerationInvariant, PTL DEF Spec
=============================================================================
