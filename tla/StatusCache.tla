---------------------------- MODULE StatusCache ----------------------------
(***************************************************************************)
(* The process-local cache of verified login status                        *)
(* (src/tool-runtime-core/src/credential_status_cache.rs) and the          *)
(* directory capabilities it revalidates (scoped_paths.rs).                *)
(*                                                                         *)
(* A probe takes a ticket, runs a status command, and may then publish     *)
(* `ready`.  Directory checks run outside the cache's mutex, so a call is  *)
(* two steps here: the revalidation, then the critical section.  What a    *)
(* ticket or an entry remembers of the plan (profile revision, lifecycle   *)
(* contract) and of the directory revision is one value, its contract: the *)
(* lookup compares all of them and answers every mismatch in the same way. *)
(***************************************************************************)
EXTENDS Integers, FiniteSets, Sequences

CONSTANTS
    Callers,         \* threads that use the cache
    Targets,         \* profiles or implicit bindings whose status is cached
    Contracts,       \* a plan and a directory revision, as the lookup compares them
    Epochs,          \* process epochs
    Policies,        \* policy revisions
    Directories,     \* credential directories, by path
    DirectoryOf,     \* target -> the path validate_directory_target admits
    Inodes,          \* device and inode numbers the file system may hand out
    Ttls,            \* times to live a caller may ask for
    MaxEntries,      \* MAX_CREDENTIAL_STATUS_CACHE_ENTRIES
    MaxGeneration,   \* u64::MAX of the mutation generation
    MaxReplacements, \* bound of the model: replacements of one directory
    MaxClock,        \* bound of the model: the last instant
    NoEntry, NoCall

Handles == [directory : Directories, birth : Nat]

Questions == [target : Targets, contract : Contracts, handle : Handles]

Entries ==
    [contract : Contracts, handle : Handles, epoch : Epochs, policy : Policies, expires_at : Nat]

Probes ==
    [question : Questions, epoch : Epochs, policy : Policies, generation : 1..MaxGeneration]

ASSUME CacheAssumption ==
    /\ DirectoryOf \in [Targets -> Directories]
    /\ Ttls \subseteq Nat \ {0}
    /\ MaxEntries \in Nat \ {0}
    /\ MaxGeneration \in Nat \ {0}
    /\ MaxReplacements \in Nat
    /\ MaxClock \in Nat
    /\ IsFiniteSet(Targets)
    /\ NoEntry \notin Entries

VARIABLES
    clock,               \* the monotonic clock
    directory,           \* path -> the identities of the directories that stood there, in order
    cache_epoch,         \* process_epoch
    policy_revision,
    mutation_generation,
    entries,             \* target -> entry or NoEntry
    stage,               \* caller -> idle, or how far its call has come
    call,                \* caller -> what it is asking, or the ticket it holds
    outdated,            \* history: callers whose probe began before a mutation of its target
    lapped               \* history: callers whose probe began before the generation wrapped

authority == <<cache_epoch, policy_revision, mutation_generation>>
calls == <<stage, call>>
probes == <<outdated, lapped>>
cacheVars == <<clock, directory, authority, entries, calls, probes>>

Stages == {"idle", "beginning", "probing", "storing", "looking", "rejecting"}

Init ==
    /\ clock = 0
    /\ directory \in [Directories -> {<<i>> : i \in Inodes}]
    /\ cache_epoch \in Epochs
    /\ policy_revision \in Policies
    /\ mutation_generation = 1
    /\ entries = [t \in Targets |-> NoEntry]
    /\ stage = [c \in Callers |-> "idle"]
    /\ call = [c \in Callers |-> NoCall]
    /\ outdated = {}
    /\ lapped = {}

-----------------------------------------------------------------------------
(* Directory capabilities.  A handle remembers the identity its directory  *)
(* had when it was issued; `birth` only says which directory that was.     *)

IssuedHandles(d) == {[directory |-> d, birth |-> b] : b \in 1..Len(directory[d])}
Identity(h) == directory[h.directory][h.birth]

\* ScopedPath::revalidate: the path still names a directory of this identity.
Revalidates(h) == Identity(h) = directory[h.directory][Len(directory[h.directory])]

\* ScopedPath::has_same_directory_identity.
SameDirectory(g, h) == g.directory = h.directory /\ Identity(g) = Identity(h)

\* The directory is removed and made again; the file system may give the
\* new one the number of the old.
ReplaceDirectory(d, inode) ==
    /\ Len(directory[d]) <= MaxReplacements
    /\ directory' = [directory EXCEPT ![d] = Append(@, inode)]
    /\ UNCHANGED <<clock, authority, entries, calls, probes>>

-----------------------------------------------------------------------------
(* The mutation generation.                                                *)

HoldsTicket(c) == stage[c] \in {"probing", "storing"}
Cached == {t \in Targets : entries[t] # NoEntry}
Without(gone) == [t \in Targets |-> IF t \in gone THEN NoEntry ELSE entries[t]]

\* advance_mutation_generation, after the entries of `gone` were removed: at
\* the limit the generation starts again from 1 and the cache is emptied.
Advance(gone) ==
    IF mutation_generation < MaxGeneration
    THEN /\ mutation_generation' = mutation_generation + 1
         /\ entries' = Without(gone)
         /\ lapped' = lapped
    ELSE /\ mutation_generation' = 1
         /\ entries' = Without(Targets)
         /\ lapped' = lapped \cup {c \in Callers : HoldsTicket(c)}

Outdate(targets) ==
    outdated' = outdated \cup {c \in Callers : HoldsTicket(c) /\ call[c].question.target \in targets}

\* invalidate_target that removes the entry and forgets the probes under way.
RemoveOnly(t) ==
    /\ entries' = Without({t})
    /\ Outdate({t})
    /\ UNCHANGED <<mutation_generation, lapped>>
InvalidateTarget(t) == Advance({t}) /\ Outdate({t})

\* A caller is done: nothing of its call is left.
Finish(c) ==
    /\ stage' = [stage EXCEPT ![c] = "idle"]
    /\ call' = [call EXCEPT ![c] = NoCall]

Moves(c, to) == stage' = [stage EXCEPT ![c] = to]

-----------------------------------------------------------------------------
(* begin_observation.                                                      *)

Asks(c, to, t, k, h) ==
    /\ stage[c] = "idle"
    /\ Revalidates(h)
    /\ Moves(c, to)
    /\ call' = [call EXCEPT ![c] = [target |-> t, contract |-> k, handle |-> h]]
    /\ UNCHANGED <<clock, directory, authority, entries, probes>>

StartObservation(c, t, k, h) == Asks(c, "beginning", t, k, h)

TakeTicket(c) ==
    /\ stage[c] = "beginning"
    /\ Moves(c, "probing")
    /\ call' = [call EXCEPT ![c] =
          [question |-> call[c], epoch |-> cache_epoch, policy |-> policy_revision,
           generation |-> mutation_generation]]
    /\ outdated' = outdated \ {c}
    /\ lapped' = lapped \ {c}
    /\ UNCHANGED <<clock, directory, authority, entries>>

\* The probe failed, was not `ready`, or reported on another plan.
DiscardTicket(c) ==
    /\ stage[c] = "probing"
    /\ Finish(c)
    /\ UNCHANGED <<clock, directory, authority, entries, probes>>

-----------------------------------------------------------------------------
(* store_ready.                                                            *)

RevalidateStore(c) ==
    /\ stage[c] = "probing"
    /\ Moves(c, IF Revalidates(call[c].question.handle) THEN "storing" ELSE "rejecting")
    /\ call' = IF Revalidates(call[c].question.handle)
               THEN call
               ELSE [call EXCEPT ![c] = call[c].question]
    /\ UNCHANGED <<clock, directory, authority, entries, probes>>

\* The ticket check without the generation.
SameAuthority(c) ==
    /\ call[c].epoch = cache_epoch
    /\ call[c].policy = policy_revision
IsCurrent(c) ==
    /\ SameAuthority(c)
    /\ call[c].generation = mutation_generation

Unexpired(at) == {t \in Cached : entries[t].expires_at > at}

HasRoom(t, at) == t \in Unexpired(at) \/ Cardinality(Unexpired(at)) < MaxEntries

\* Expired entries go even when the new one then finds no room.
StoreReady(c, at, ttl) ==
    LET q == call[c].question
        new == [contract |-> q.contract, handle |-> q.handle, epoch |-> cache_epoch,
                policy |-> policy_revision, expires_at |-> at + ttl]
    IN
    /\ stage[c] = "storing"
    /\ IF IsCurrent(c)
       THEN entries' = [t \in Targets |->
               IF t = q.target /\ HasRoom(t, at) THEN new
               ELSE IF t \in Unexpired(at) THEN entries[t] ELSE NoEntry]
       ELSE entries' = entries
    /\ Finish(c)
    /\ UNCHANGED <<clock, directory, authority, probes>>

-----------------------------------------------------------------------------
(* lookup.                                                                 *)

StartLookup(c, t, k, h) == Asks(c, "looking", t, k, h)

\* The directory of a lookup is gone or replaced.
RejectLookup(c, t, k, h) ==
    /\ stage[c] = "idle"
    /\ ~Revalidates(h)
    /\ Moves(c, "rejecting")
    /\ call' = [call EXCEPT ![c] = [target |-> t, contract |-> k, handle |-> h]]
    /\ UNCHANGED <<clock, directory, authority, entries, probes>>

Answers(c, now) ==
    LET e == entries[call[c].target] IN
    /\ e # NoEntry
    /\ e.expires_at > now
    /\ e.epoch = cache_epoch
    /\ e.policy = policy_revision
    /\ e.contract = call[c].contract
    /\ SameDirectory(e.handle, call[c].handle)

\* A miss on an entry removes it; a miss on nothing changes nothing.
Lookup(c, now) ==
    /\ stage[c] = "looking"
    /\ IF Answers(c, now) \/ entries[call[c].target] = NoEntry
       THEN UNCHANGED <<mutation_generation, entries, probes>>
       ELSE InvalidateTarget(call[c].target)
    /\ Finish(c)
    /\ UNCHANGED <<clock, directory, cache_epoch, policy_revision>>

\* Both store_ready and lookup invalidate a target whose directory changed.
InvalidateRejected(c) ==
    /\ stage[c] = "rejecting"
    /\ InvalidateTarget(call[c].target)
    /\ Finish(c)
    /\ UNCHANGED <<clock, directory, cache_epoch, policy_revision>>

-----------------------------------------------------------------------------
(* Invalidation by the host.                                               *)

\* invalidate_after_auth_failure and invalidate_after_lifecycle_mutation.
Invalidate(t) ==
    /\ InvalidateTarget(t)
    /\ UNCHANGED <<clock, directory, cache_epoch, policy_revision, calls>>

\* invalidate_after_lifecycle_mutation_for_process_epoch.
InvalidateForEpoch(t, e) ==
    /\ e = cache_epoch
    /\ Invalidate(t)

InvalidateDirectory(h) ==
    /\ Advance({t \in Cached : SameDirectory(entries[t].handle, h)})
    /\ outdated' = outdated \cup
          {c \in Callers : HoldsTicket(c) /\ SameDirectory(call[c].question.handle, h)}
    /\ UNCHANGED <<clock, directory, cache_epoch, policy_revision, calls>>

\* A replacement that keeps the entries of the old authority.
KeepsEntries == {}
ReplacedEntries == Targets

ReplaceProcessEpoch(e) ==
    /\ e # cache_epoch
    /\ cache_epoch' = e
    /\ Advance(ReplacedEntries)
    /\ Outdate(Targets)
    /\ UNCHANGED <<clock, directory, policy_revision, calls>>

ReplacePolicyRevision(p) ==
    /\ p # policy_revision
    /\ policy_revision' = p
    /\ Advance(ReplacedEntries)
    /\ Outdate(Targets)
    /\ UNCHANGED <<clock, directory, cache_epoch, calls>>

Tick ==
    /\ clock < MaxClock
    /\ clock' = clock + 1
    /\ UNCHANGED <<directory, authority, entries, calls, probes>>

-----------------------------------------------------------------------------

Calls(c) ==
    \/ \E t \in Targets, k \in Contracts, h \in UNION {IssuedHandles(d) : d \in Directories} :
          /\ h.directory = DirectoryOf[t]
          /\ \/ StartObservation(c, t, k, h)
             \/ StartLookup(c, t, k, h)
             \/ RejectLookup(c, t, k, h)
    \/ TakeTicket(c)
    \/ DiscardTicket(c)
    \/ RevalidateStore(c)
    \/ \E at \in 0..clock, ttl \in Ttls : StoreReady(c, at, ttl)
    \/ \E now \in 0..clock : Lookup(c, now)
    \/ InvalidateRejected(c)

Host ==
    \/ \E t \in Targets : Invalidate(t)
    \/ \E d \in Directories : \E h \in IssuedHandles(d) : InvalidateDirectory(h)
    \/ \E e \in Epochs : ReplaceProcessEpoch(e)
    \/ \E p \in Policies : ReplacePolicyRevision(p)

FileSystem == \E d \in Directories, inode \in Inodes : ReplaceDirectory(d, inode)

Next ==
    \/ \E c \in Callers : Calls(c)
    \/ Host
    \/ FileSystem
    \/ Tick

Spec == Init /\ [][Next]_cacheVars
-----------------------------------------------------------------------------
(* Properties.                                                             *)

\* The variables stay in their domains, and the cache within its capacity.
TypeOK ==
    /\ clock \in Nat
    /\ directory \in [Directories -> Seq(Inodes)]
    /\ cache_epoch \in Epochs
    /\ policy_revision \in Policies
    /\ mutation_generation \in 1..MaxGeneration
    /\ entries \in [Targets -> Entries \cup {NoEntry}]
    /\ Cardinality(Cached) <= MaxEntries
    /\ stage \in [Callers -> Stages]
    /\ \A c \in Callers :
          /\ stage[c] = "idle" => call[c] = NoCall
          /\ HoldsTicket(c) => call[c] \in Probes
          /\ stage[c] \in {"beginning", "looking", "rejecting"} => call[c] \in Questions
    /\ outdated \subseteq Callers
    /\ lapped \subseteq Callers

\* Caller c publishes readiness in this step.
Publishes(c) ==
    /\ stage[c] = "storing"
    /\ stage'[c] = "idle"
    /\ entries'[call[c].question.target] # entries[call[c].question.target]
    /\ entries'[call[c].question.target] # NoEntry

\* A probe that was under way when its target was invalidated, its directory
\* was invalidated, or the epoch or the policy was replaced, never publishes:
\* an in-flight probe does not resurrect readiness (the ticket's generation).
\* The one exception is a probe that outlives all generations of a u64.
NoResurrection ==
    [][\A c \in Callers : Publishes(c) => c \notin outdated \/ c \in lapped]_cacheVars

\* The same for the replacement of the authority alone, and without the
\* exception: what is cached is cached under the epoch and the policy in
\* force, so neither can be wrong in a hit (replace_process_epoch and
\* replace_policy_revision against store_ready).
EntriesMatchAuthority ==
    \A t \in Cached : entries[t].epoch = cache_epoch /\ entries[t].policy = policy_revision

\* The doc of ScopedPath::revalidate: a directory replaced since the
\* capability was issued is rejected, so what is validated is what was issued.
RevalidationRejectsReplacement ==
    [][\A c \in Callers :
          stage[c] = "idle" /\ stage'[c] \in {"beginning", "looking"}
          => call'[c].handle.birth = Len(directory[DirectoryOf[call'[c].target]])]_cacheVars
=============================================================================
