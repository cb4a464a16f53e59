--------------------------- MODULE ProfileRegistry ---------------------------
(***************************************************************************)
(* Credential profiles as their callers see them: the keys of profiles     *)
(* (src/tool-runtime-core/src/credential_profiles.rs), the operations of   *)
(* the local registry (credential_profile_store.rs) and the selection of   *)
(* a profile for a call (profile_selection.rs).                            *)
(*                                                                         *)
(* An operation is one step here; ProfileStore has the steps of the lock   *)
(* and the file.  A name is its own length, what its characters are and    *)
(* whether it can be a path; a URL is what the library finds in it, and    *)
(* the text it would print it as.                                          *)
(***************************************************************************)
EXTENDS Integers, FiniteSets

CONSTANTS
    Scope, Foreign,       \* the scope of the registry, and another one
    Asked, Keys,          \* the profiles callers ask for, in their words, and their keys
    Identities, NoIdentity,
    Projections,          \* the references of a configuration that it may read
    Policies, Aliases,    \* of selection: the policies of contracts, requested names
    Bindings, Providers,  \* of the request
    MaxIdentifier,        \* MAX_PROFILE_IDENTIFIER_BYTES
    MaxUrl,               \* MAX_CREDENTIAL_BINDING_URL_BYTES
    MaxProfiles,          \* MAX_PROFILES_PER_SCOPE
    MaxBytes,             \* MAX_CREDENTIAL_PROFILE_STORE_BYTES, in profiles
    MaxNesting,           \* MAX_DOCUMENT_DEPTH
    MaxRevision,          \* the last revision before the counter overflows
    Nobody                \* no name, no profile

VARIABLES
    legacy,     \* the references of this registry's configuration
    usable,     \* the references whose directory is still what it was
    stored,     \* key -> the metadata in the registry file, of the keys in it
    condition,  \* the registry file as anybody finds it
    outcome     \* what the last call returned

vars == <<legacy, usable, stored, condition, outcome>>

-----------------------------------------------------------------------------
(* Keys.                                                                   *)

\* A name of one to limit characters that could be part of a path.
Portable(name) ==
    /\ name.bytes \in 1..MaxIdentifier
    /\ ~name.dots
    /\ name.first_alphanumeric
    /\ name.plain

\* Only the local host is reached without TLS.
SecureScheme(url) == url.scheme = "https" \/ (url.scheme = "http" /\ url.host = "loopback")

UrlFits(url) ==
    /\ url.bytes \in 1..MaxUrl
    /\ url.host # "none"
    /\ ~url.userinfo /\ ~url.query /\ ~url.fragment
    /\ SecureScheme(url)
    /\ url.printed_bytes <= MaxUrl

\* A URL is kept as the library prints it, whatever way it was spelled.
BindingFits(binding) == binding.kind = "provider" \/ (UrlFits(binding.resource) /\ UrlFits(binding.issuer))
Binding(binding) ==
    IF binding.kind = "provider" THEN [kind |-> "provider", resource |-> Nobody, issuer |-> Nobody]
    ELSE [kind |-> "mcp_oauth", resource |-> binding.resource.printed, issuer |-> binding.issuer.printed]

KeyFits(asked) == Portable(asked.provider) /\ Portable(asked.alias) /\ BindingFits(asked.binding)
Key(asked) ==
    [scope |-> asked.scope, provider |-> asked.provider.text, alias |-> asked.alias.text, binding |-> Binding(asked.binding)]
RegistryAssumption ==
    /\ Keys = {Key(asked) : asked \in {a \in Asked : KeyFits(a)}}
    /\ MaxBytes \in Nat /\ MaxNesting \in Nat \ {0}

Group(key) == [provider |-> key.provider, binding |-> key.binding]

-----------------------------------------------------------------------------
(* Metadata, and collections of it.                                        *)

MetadataFits(m) == ~(m.default /\ m.disabled) /\ m.revision # 0

WithinScope(table) == \A key \in DOMAIN table : key.scope = Scope

OneDefault(table) ==
    \A j, k \in DOMAIN table :
        Group(j) = Group(k) /\ table[j].default /\ table[k].default => j = k

SnapshotFits(table) == Cardinality(DOMAIN table) <= MaxProfiles /\ WithinScope(table) /\ OneDefault(table)

FileFits(table) ==
    /\ Cardinality(DOMAIN table) <= MaxProfiles
    /\ WithinScope(table)
    /\ \A key \in DOMAIN table : MetadataFits(table[key])

\* A directory may be given with a reference, if it is the directory of that
\* profile; the whole must be a snapshot.
ReferenceFits(reference) == reference.root \subseteq {reference.key}
Projection(references) ==
    [key \in {r.key : r \in references} |-> (CHOOSE r \in references : r.key = key).metadata]
ProjectionFits(references) ==
    /\ \A r \in references : ReferenceFits(r) /\ MetadataFits(r.metadata)
    /\ \A r, s \in references : r.key = s.key => r = s
    /\ SnapshotFits(Projection(references))

\* What is stored replaces the reference it was made from.
Overlay(references, table) ==
    LET configured == Projection(references)
    IN  [key \in DOMAIN configured \cup DOMAIN table |->
            IF key \in DOMAIN table THEN table[key] ELSE configured[key]]
Merged == Overlay(legacy, stored)

AuthState(key, m) ==
    IF m.disabled THEN "denied"
    ELSE IF \E r \in legacy : r.key = key /\ r.root # {}
    THEN IF key \in usable THEN "unknown" ELSE "error"
    ELSE "missing"

\* The file is read whole, from a regular private file that is as long as it
\* said, and nothing that nests too deep reaches the JSON library.
ReadsWhole == condition.private /\ Cardinality(DOMAIN stored) <= MaxBytes
NestsShallow == condition.nesting <= MaxNesting
Readable == ReadsWhole /\ NestsShallow /\ condition.scope = Scope

-----------------------------------------------------------------------------
(* The operations.                                                         *)

Refused(code) == [result |-> "refused", code |-> code, key |-> {}]
Done == [result |-> "ok", code |-> "none", key |-> {}]
Idle == [result |-> "none", code |-> "none", key |-> {}]
Granted(key) == [result |-> "ok", code |-> "none", key |-> {key}]

ValidatesStored(table) == SnapshotFits(table)
ValidatesMerged(table) == SnapshotFits(Overlay(legacy, table))
Candidate(table) == ValidatesMerged(table)

\* The result of an operation replaces the file, if the whole is a snapshot.
TooMany(table) ==
    \/ Cardinality(DOMAIN Overlay(legacy, table)) > MaxProfiles
    \/ OneDefault(Overlay(legacy, table)) /\ Cardinality(DOMAIN table) > MaxBytes

Commit(key, m) ==
    LET table == [k \in DOMAIN stored \cup {key} |-> IF k = key THEN m ELSE stored[k]]
        published == FileFits(table) /\ Candidate(table) /\ Cardinality(DOMAIN table) <= MaxBytes
    IN  /\ stored' = IF published THEN table ELSE stored
        /\ outcome' = IF published THEN Granted(key)
                     ELSE Refused(IF TooMany(table) THEN "collection_too_large" ELSE "multiple_defaults")
        /\ UNCHANGED <<legacy, usable, condition>>

Refuses(code) ==
    /\ outcome' = Refused(code)
    /\ UNCHANGED <<legacy, usable, stored, condition>>

\* What every operation needs before its own conditions are looked at.
Denial(key) ==
    IF key.scope # Scope THEN {"scope_mismatch"}
    ELSE IF ~Readable THEN {"registry_unavailable"} ELSE {}

NewMetadata(identity, default) ==
    [identity |-> identity, default |-> default, disabled |-> FALSE, revision |-> 1]

CreateReference(key, identity, default) ==
    LET denial == Denial(key)
        known == key \in DOMAIN Merged
    IN  \/ denial # {} /\ \E code \in denial : Refuses(code)
        \/ denial = {} /\ known /\ Refuses("duplicate_profile")
        \/ denial = {} /\ ~known /\ Commit(key, NewMetadata(identity, default))

NextRevision(revision) == revision + 1

\* An update names the revision it is about, and what it leaves as it was.
Change(key, expected, m) ==
    LET denial == Denial(key)
        current == Merged[key]
        revised == [m EXCEPT !.revision = NextRevision(current.revision)]
    IN  \/ denial # {} /\ \E code \in denial : Refuses(code)
        \/ denial = {} /\ key \notin DOMAIN Merged /\ Refuses("not_found")
        \/ /\ denial = {} /\ key \in DOMAIN Merged
           /\ \/ current.revision # expected /\ Refuses("conflict")
              \/ /\ current.revision = expected
                 /\ \/ current.revision = MaxRevision /\ Refuses("registry_unavailable")
                    \/ current.revision < MaxRevision /\ ~MetadataFits(revised) /\ Refuses("invalid_status")
                    \/ current.revision < MaxRevision /\ MetadataFits(revised) /\ Commit(key, revised)

\* A key nobody has is refused before its metadata matters.
Current(key) ==
    IF key \in DOMAIN Merged THEN Merged[key]
    ELSE NewMetadata(NoIdentity, FALSE)

IdentityAfter(identity, update) == IF update = "preserve" THEN identity ELSE update
DefaultAfter(default, update) == IF update = "preserve" THEN default ELSE update = "set"

UpdateMetadata(key, expected, identity, default) ==
    LET current == Current(key)
    IN  Change(key, expected,
               [current EXCEPT !.identity = IdentityAfter(@, identity), !.default = DefaultAfter(@, default)])

SetDisabled(key, expected, disabled) ==
    Change(key, expected, [Current(key) EXCEPT !.disabled = disabled])

\* The statuses of all profiles, and the status of one.
SnapshotOf(scope) ==
    IF scope # Scope THEN Refused("scope_mismatch")
    ELSE IF ~Readable THEN Refused("registry_unavailable")
    ELSE IF ~SnapshotFits(Merged) THEN Refused("multiple_defaults") ELSE Done

Snapshot(scope) ==
    /\ outcome' = SnapshotOf(scope)
    /\ UNCHANGED <<legacy, usable, stored, condition>>

-----------------------------------------------------------------------------
(* Selection.                                                              *)

\* A contract may name no profile, one, a default, or leave it to the tool; a
\* caller may ask for one only where the contract lets it choose.
RequestDenial(provider, policy, requested) ==
    CASE requested # Nobody /\ policy.kind # "selectable" -> {"unexpected_requested_profile"}
      [] (requested = Nobody \/ policy.kind = "selectable") /\ provider = "malformed" -> {"invalid_provider"}
      [] (requested = Nobody \/ policy.kind = "selectable") /\ provider # "malformed" ->
            IF policy.alias = "malformed" THEN {"invalid_policy"}
            ELSE IF policy.kind # "none" /\ provider = Nobody THEN {"missing_provider"}
            ELSE IF requested = "malformed" THEN {"invalid_requested_profile"} ELSE {}

Undecided(code) == [mode |-> "refused", code |-> code, key |-> {}, source |-> "none", readiness |-> "none"]
Unprofiled(mode) == [mode |-> mode, code |-> "none", key |-> {}, source |-> "none", readiness |-> "none"]

Readiness(state) ==
    CASE state = "unknown" -> "verification_required"
      [] state = "missing" -> "authentication_required"
      [] state \in {"error", "denied"} -> "blocked"

SelectedDecision(key, source) ==
    IF Merged[key].disabled THEN Undecided("profile_disabled")
    ELSE [mode |-> "selected", code |-> "none", key |-> {key}, source |-> source,
          readiness |-> Readiness(AuthState(key, Merged[key]))]

SelectAlias(candidates, alias, source) ==
    IF \E key \in candidates : key.alias = alias
    THEN SelectedDecision(CHOOSE key \in candidates : key.alias = alias, source)
    ELSE Undecided("profile_not_found")

SelectDefault(candidates) ==
    LET defaults == {key \in candidates : Merged[key].default}
    IN  IF defaults = {} THEN Undecided("missing_profile_selection")
        ELSE SelectedDecision(CHOOSE key \in defaults : TRUE, "registry_default")

\* The profiles of the request's provider and binding.
IsCandidate(key, provider, binding) == key.provider = provider /\ key.binding = binding

Selection(scope, provider, binding, policy, requested) ==
    LET denial == RequestDenial(provider, policy, requested)
        candidates == {key \in DOMAIN Merged : IsCandidate(key, provider, binding)}
    IN  IF denial # {} THEN Undecided(CHOOSE code \in denial : TRUE)
        ELSE IF policy.kind \in {"none", "implicit"} THEN Unprofiled(policy.kind)
        ELSE IF SnapshotOf(scope).result = "refused"
        THEN Undecided(IF scope # Scope THEN "snapshot_scope_mismatch" ELSE "registry_unavailable")
        ELSE IF policy.kind = "fixed" THEN SelectAlias(candidates, policy.alias, "fixed")
        ELSE IF requested # Nobody THEN SelectAlias(candidates, requested, "requested")
        ELSE IF policy.alias # Nobody THEN SelectAlias(candidates, policy.alias, "contract_default")
        ELSE SelectDefault(candidates)

Select(scope, provider, binding, policy, requested) ==
    /\ outcome' = Selection(scope, provider, binding, policy, requested)
    /\ UNCHANGED <<legacy, usable, stored, condition>>

-----------------------------------------------------------------------------
Private == [private |-> TRUE, nesting |-> 1, scope |-> Scope]

Init ==
    /\ legacy \in {references \in Projections : ProjectionFits(references)}
    /\ usable = UNION {r.root : r \in legacy}
    /\ stored = [key \in {} |-> 0]
    /\ condition = Private
    /\ outcome = Idle

\* The directory of a profile is moved, or its file is written over by another
\* program.
LoseDirectory ==
    /\ \E key \in usable : usable' = usable \ {key}
    /\ UNCHANGED <<legacy, stored, condition, outcome>>

Disturb ==
    /\ condition = Private
    /\ condition' \in {[Private EXCEPT !.private = FALSE], [Private EXCEPT !.nesting = MaxNesting + 1],
                       [Private EXCEPT !.scope = Foreign]}
    /\ UNCHANGED <<legacy, usable, stored, outcome>>

\* The caller has its answer.
Return ==
    /\ outcome # Idle
    /\ outcome' = Idle
    /\ UNCHANGED <<legacy, usable, stored, condition>>

Call ==
    \/ \E key \in Keys, identity \in Identities \cup {NoIdentity}, default \in BOOLEAN :
          CreateReference(key, identity, default)
    \/ \E key \in Keys, expected \in 1..MaxRevision :
          \/ \E identity \in Identities \cup {NoIdentity, "preserve"}, default \in {"preserve", "set", "unset"} :
                UpdateMetadata(key, expected, identity, default)
          \/ \E disabled \in BOOLEAN : SetDisabled(key, expected, disabled)
    \/ \E scope \in {Scope, Foreign} : Snapshot(scope)
    \/ \E scope \in {Scope, Foreign}, provider \in Providers, binding \in {Binding(b) : b \in Bindings}, policy \in Policies, requested \in Aliases :
          Select(scope, provider, binding, policy, requested)

Next ==
    \/ outcome = Idle /\ Call
    \/ Return
    \/ LoseDirectory
    \/ Disturb

Spec == Init /\ [][Next]_vars
-----------------------------------------------------------------------------
(* Properties.                                                             *)

\* No sequence of accepted operations makes a registry that its own readers
\* refuse: while the file is the one that was written, a snapshot can be taken
\* (mutate, which validates what readers merge and not only what is stored).
AcceptedWritesStayReadable == condition = Private => SnapshotOf(Scope).result = "ok"

ByDefault(group) ==
    Selection(Scope, group.provider, group.binding, [kind |-> "selectable", alias |-> Nobody], Nobody).key
registry == <<legacy, usable, stored, condition>>

\* The profile that a call gets which leaves the choice to the registry never
\* changes in one operation, whoever makes it: such a call is refused in
\* between and does not quietly get another account (validate_candidate, and
\* the default in select_credential_profile_from_snapshot).
DefaultMovesInTwoSteps ==
    registry' # registry => \A group \in {Group(key) : key \in Keys} :
        ByDefault(group) # {} /\ ByDefault(group)' # {} => ByDefault(group)' = ByDefault(group)
=============================================================================
