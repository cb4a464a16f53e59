--------------------------- MODULE StrategyAdapter ---------------------------
(***************************************************************************)
(* Strategies whose credentials the runtime never holds: the common status,*)
(* retry and invalidation rules of                                         *)
(* src/tool-runtime-core/src/strategy_adapter.rs and the two adapters that *)
(* speak them, browser_profile_adapter.rs and native_permission_adapter.rs.*)
(*                                                                         *)
(* The owner is the browser controller or the native integration; what it  *)
(* reports may be late when the host uses it, so that an observation and a *)
(* status are values on their way.  An owner that replaces what it owns    *)
(* gives it a newer revision.  A contract names one identity: a profile, or*)
(* the provider of an implicit one, or the subject of a permission.        *)
(***************************************************************************)
EXTENDS Integers, FiniteSets

CONSTANTS
    Contracts,   \* validated contracts a skill may have
    Selections,  \* what the profile registry decides
    Owners,      \* states an owner starts in
    Classes,     \* classes of browser session
    MaxRevision, MaxInFlight, MaxRetries

\* An owner holds one thing, at a revision; a selection is a permission, or what
\* the registry decided.
StrategyAssumption ==
    /\ \A o \in Owners : o \in [identity : {o.identity}, class : {o.class}, state : {o.state}, revision : Nat]
    /\ \A s \in Selections : "permission" \in DOMAIN s \/ s.mode \in {"selected", "implicit", "none"}

VARIABLES
    contract, adapter,
    owner,        \* what the owner holds
    observation,  \* the host's last view of it, perhaps late
    flight,       \* statuses on their way to the host
    status,       \* the status the host acts upon
    invalidation, \* the last invalidation the host has seen
    prepared, authority,
    call          \* an invocation: how far it got and how often it was sent

vars == <<contract, adapter, owner, observation, flight, status, invalidation, prepared, authority, call>>

Nothing == [n \in {} |-> 0]  \* what is absent or was refused
AdapterKinds == {"browser_profile", "native_permission", "delegated_credential"}

-----------------------------------------------------------------------------
(* Contract, status and what they ask of the user.                         *)

Kind(c) == IF c.protocol = "mcp" THEN "mcp" ELSE IF c.auth \in AdapterKinds THEN c.auth ELSE "unsupported"

StatusFits(c, state) == c.auth = "none" => state = "ready"

\* Some actions of a skill whose authentication is optional do without it.
Demands(requirement, demand) ==
    \/ requirement \in {"required", "at_least_one"}
    \/ requirement \in {"optional", "conditional"} /\ demand = "authentication_required"

Readiness(s, demand) ==
    CASE ~Demands(s.requirement, demand) /\ s.state # "ready" -> "ready_without_authentication"
      [] s.state = "ready" -> "ready"
      [] OTHER ->
            CASE s.state = "unknown" -> "verification_required"
              [] s.state \in {"missing", "interaction_required", "expired"} -> "interaction_required"
              [] s.state = "authenticating" -> "authentication_in_progress"
              [] s.state \in {"revoked", "identity_mismatch", "denied", "error"} -> "blocked"

IsReady(s, demand) == Readiness(s, demand) \in {"ready", "ready_without_authentication"}

Login(auth) ==
    CASE auth = "none" -> "invalid"
      [] auth = "secrets" -> "configure_credentials"
      [] auth = "cli_profile" -> "authenticate_profile"
      [] auth = "oauth_session" -> "authorize"
      [] auth = "browser_profile" -> "open_browser_login"
      [] auth = "native_permission" -> "request_native_permission"
      [] auth = "delegated_credential" -> "request_delegated_grant"

PendingAction(s) ==
    CASE s.state = "ready" -> "none"
      [] s.state = "unknown" -> "verify_status"
      [] s.state = "authenticating" -> "await_authorization"
      [] s.state = "identity_mismatch" -> "correct_identity"
      [] s.state = "denied" -> IF s.auth = "native_permission" THEN "open_system_settings" ELSE "authorization_denied"
      [] s.state = "error" -> "repair_authentication"
      [] s.state \in {"missing", "interaction_required", "expired", "revoked"} -> Login(s.auth)

\* An invocation that waits for the user has reached the server in MCP alone.
WaitsAfterDispatch(c) == IF Kind(c) = "mcp" THEN {"additional_input", "remote_task"} ELSE {}

-----------------------------------------------------------------------------
(* Failure, retry and invalidation.                                        *)

FailureFits(code, certainty) ==
    /\ code = "policy_denied" => certainty = "not_dispatched"
    /\ code = "malformed_response" => certainty # "not_dispatched"

RetryDisposition(certainty) ==
    CASE certainty = "not_dispatched" -> "safe_before_dispatch"
      [] certainty = "dispatched" -> "requires_idempotency_decision"
      [] certainty = "unknown" -> "never_automatic"

Applies(c, cause) ==
    CASE cause = "browser_session_changed" -> c.auth = "browser_profile"
      [] cause = "native_permission_changed" -> c.auth = "native_permission"
      [] cause = "delegated_grant_changed" -> c.auth = "delegated_credential"
      [] cause \in {"authorization_server_changed", "resource_binding_changed", "scope_changed"} ->
            Kind(c) = "mcp" /\ c.auth = "oauth_session"
      [] cause = "transport_closed" -> Kind(c) \in {"mcp", "browser_profile", "delegated_credential"}
      [] cause = "authentication_failure" -> c.auth # "none"
      [] cause = "credential_changed" -> c.auth \in {"secrets", "cli_profile", "oauth_session"}
      [] cause \in {"process_restart", "policy_changed"} -> TRUE

Effect(cause) ==
    CASE cause = "policy_changed" -> {"invocations", "approval"}
      [] cause = "transport_closed" -> {"session", "interactions", "invocations"}
      [] OTHER -> {"status", "session", "interactions", "invocations", "approval"}

Supersedes(i, s) == i.kind = s.kind /\ i.auth = s.auth /\ i.revision > s.revision

-----------------------------------------------------------------------------
(* The browser profile adapter.                                            *)

BrowserContract(c) ==
    c.auth = "browser_profile" /\ c.storage = "browser_profile" /\ c.protocol = "cli" /\ Kind(c) = "browser_profile"

\* A chosen profile carries its revision; an implicit one is its provider.
SelectionFits(c, selection) ==
    /\ selection.provider = c.provider /\ selection.binding = "provider"
    /\ CASE selection.mode = "selected" ->
            /\ selection.scope = selection.profile_scope
            /\ c.selection \in {"selectable", "fixed"} /\ (c.selection = "fixed" => selection.alias = c.alias)
         [] selection.mode = "implicit" -> c.selection = "implicit"
         [] selection.mode = "none" -> FALSE

Identity(selection) ==
    [mode |-> selection.mode, scope |-> selection.scope, provider |-> selection.provider,
     alias |-> IF selection.mode = "selected" THEN selection.alias ELSE "none",
     revision |-> IF selection.mode = "selected" THEN selection.revision ELSE 0]

BrowserAdapter(selection, class) ==
    IF BrowserContract(contract) /\ SelectionFits(contract, selection)
    THEN [kind |-> "browser_profile", identity |-> Identity(selection), class |-> class] ELSE Nothing

ValidObservation(o) == o.identity = adapter.identity /\ o.class = adapter.class
ReadyObservation(o) == ValidObservation(o) /\ o.state = "ready"

-----------------------------------------------------------------------------
(* The native permission adapter.                                          *)

NativeContract(c) ==
    /\ c.auth = "native_permission" /\ c.storage = "operating_system" /\ c.selection = "none"
    /\ Kind(c) \in {"native_permission", "mcp"}

NativeAdapter(permission, binding) ==
    IF NativeContract(contract)
    THEN [kind |-> Kind(contract), identity |-> [permission |-> permission, binding |-> binding], class |-> "none"] ELSE Nothing

Projected ==
    [not_determined |-> "interaction_required", requesting |-> "authenticating", granted |-> "ready",
     denied |-> "denied", restricted |-> "denied", unavailable |-> "error", error |-> "error"]

Guidance ==
    [not_determined |-> "request", requesting |-> "await", granted |-> "none", denied |-> "open_settings",
     restricted |-> "restricted", unavailable |-> "unavailable", error |-> "recheck"]

\* The state of a status and the guidance that goes with it, from what the
\* owner reports.
ReportedState(o) == IF o.state \in DOMAIN Projected THEN Projected[o.state] ELSE o.state
ReportedGuidance(o) == IF o.state \in DOMAIN Guidance THEN Guidance[o.state] ELSE "none"

-----------------------------------------------------------------------------
Idle == [stage |-> "idle", outcome |-> "none", sent |-> 0, retries |-> 0]

Init ==
    /\ contract \in Contracts /\ owner \in Owners
    /\ adapter = Nothing /\ observation = Nothing /\ flight = {} /\ status = Nothing
    /\ invalidation = Nothing /\ prepared = Nothing /\ authority = Nothing /\ call = Idle

Bind(selection, class) ==
    /\ adapter = Nothing
    /\ adapter' =
            IF "permission" \in DOMAIN selection THEN NativeAdapter(selection.permission, selection.binding)
            ELSE BrowserAdapter(selection, class)
    /\ UNCHANGED <<contract, owner, observation, flight, status, invalidation, prepared, authority, call>>

\* The user signs in or out, or decides about a permission.
OwnerChangesState(state) ==
    /\ owner' = [owner EXCEPT !.state = state]
    /\ owner.state # state
    /\ UNCHANGED <<contract, adapter, observation, flight, status, invalidation, prepared, authority, call>>

\* The user follows what the host asks for, perhaps on an old status.
Interact ==
    /\ status # Nothing
    /\ PendingAction(status) \notin {"none", "invalid", "verify_status", "await_authorization", "authorization_denied"}
    /\ status.guidance # "unavailable"
    /\ owner' = [owner EXCEPT !.state = IF contract.auth = "native_permission" THEN "granted" ELSE "ready"]
    /\ UNCHANGED <<contract, adapter, observation, flight, status, invalidation, prepared, authority, call>>

\* A session restarts, or a permission is decided anew: a newer revision, of
\* which the host is told.
OwnerReplacesSession(class, state, cause) ==
    /\ owner.revision < MaxRevision /\ Applies(contract, cause)
    /\ owner' = [owner EXCEPT !.revision = @ + 1, !.class = class, !.state = state]
    /\ invalidation' =
            [kind |-> Kind(contract), auth |-> contract.auth, revision |-> owner.revision + 1, effect |-> Effect(cause)]
    /\ status' =
            IF status # Nothing /\ Supersedes(invalidation', status) /\ "status" \in Effect(cause) THEN Nothing ELSE status
    /\ call' = IF call.stage = "before" THEN [call EXCEPT !.stage = "failed", !.outcome = "not_dispatched"] ELSE call
    /\ UNCHANGED <<contract, adapter, observation, flight, prepared, authority>>

OwnerReplacesProfile ==
    /\ "revision" \in DOMAIN owner.identity /\ owner.identity.revision \in 1..(MaxRevision - 1)
    /\ owner' = [owner EXCEPT !.identity.revision = @ + 1]
    /\ UNCHANGED <<contract, adapter, observation, flight, status, invalidation, prepared, authority, call>>

Observe ==
    /\ adapter # Nothing
    /\ observation' = owner
    /\ UNCHANGED <<contract, adapter, owner, flight, status, invalidation, prepared, authority, call>>

ProjectStatus ==
    /\ observation # Nothing /\ ValidObservation(observation) /\ Cardinality(flight) < MaxInFlight
    /\ StatusFits(contract, ReportedState(observation))
    /\ flight' = flight \cup
        {[kind |-> Kind(contract), auth |-> contract.auth, requirement |-> contract.requirement,
          revision |-> observation.revision, state |-> ReportedState(observation), guidance |-> ReportedGuidance(observation)]}
    /\ UNCHANGED <<contract, adapter, owner, observation, status, invalidation, prepared, authority, call>>

\* Statuses arrive in any order; a superseded one is dropped.
ReceiveStatus(s) ==
    /\ flight' = flight \ {s}
    /\ status' =
            IF invalidation # Nothing /\ "status" \in invalidation.effect /\ Supersedes(invalidation, s) THEN status ELSE s
    /\ UNCHANGED <<contract, adapter, owner, observation, invalidation, prepared, authority, call>>

PrepareDispatch ==
    /\ observation # Nothing /\ prepared = Nothing /\ authority = Nothing
    /\ contract.auth = "browser_profile" /\ ReadyObservation(observation)
    /\ prepared' = [identity |-> adapter.identity, class |-> adapter.class, revision |-> observation.revision]
    /\ UNCHANGED <<contract, adapter, owner, observation, flight, status, invalidation, authority, call>>

\* A fresh observation; the delegation is used up whatever it says.
MatchesIdentity == prepared.identity = adapter.identity /\ prepared.class = adapter.class
MatchesFresh == MatchesIdentity /\ prepared.revision = owner.revision
AuthorizeDispatch ==
    /\ prepared # Nothing
    /\ prepared' = Nothing
    /\ authority' =
            IF ReadyObservation(owner) /\ MatchesFresh
            THEN [granted |-> prepared, fresh |-> owner] ELSE authority
    /\ UNCHANGED <<contract, adapter, owner, observation, flight, status, invalidation, call>>

\* An invocation: what the host knows of it depends on where it failed.
Begin(demand) ==
    /\ call.stage = "idle" /\ status # Nothing /\ IsReady(status, demand)
    /\ call' = [call EXCEPT !.stage = "before"]
    /\ UNCHANGED <<contract, adapter, owner, observation, flight, status, invalidation, prepared, authority>>

Deliver ==
    /\ call.stage = "before"
    /\ call' = [call EXCEPT !.stage = "sent", !.sent = @ + 1]
    /\ UNCHANGED <<contract, adapter, owner, observation, flight, status, invalidation, prepared, authority>>

Answer(outcome) ==
    /\ call.stage = "sent"
    /\ outcome \in {"complete"} \cup WaitsAfterDispatch(contract)
    /\ call' = [call EXCEPT !.stage = "answered", !.outcome = outcome]
    /\ UNCHANGED <<contract, adapter, owner, observation, flight, status, invalidation, prepared, authority>>

\* A transport that fails while sending does not know if the request arrived.
Certainty(stage) == IF stage = "before" THEN {"not_dispatched", "unknown"} ELSE {"dispatched", "unknown"}
Fail(code, certainty) ==
    /\ call.stage \in {"before", "sent"} /\ certainty \in Certainty(call.stage) /\ FailureFits(code, certainty)
    /\ call' = [call EXCEPT !.stage = "failed", !.outcome = certainty]
    /\ UNCHANGED <<contract, adapter, owner, observation, flight, status, invalidation, prepared, authority>>

Retry ==
    /\ call.stage = "failed" /\ call.retries < MaxRetries
    /\ RetryDisposition(call.outcome) = "safe_before_dispatch"
    /\ call' = [call EXCEPT !.stage = "before", !.outcome = "none", !.retries = @ + 1]
    /\ UNCHANGED <<contract, adapter, owner, observation, flight, status, invalidation, prepared, authority>>

States == IF contract.auth = "native_permission" THEN DOMAIN Projected ELSE {"ready", "expired"}
Renewed == IF contract.auth = "native_permission" THEN {"granted", "not_determined"} ELSE {"ready", "expired"}

Next ==
    \/ \E s \in Selections, class \in Classes : Bind(s, class)
    \/ \E state \in States : OwnerChangesState(state)
    \/ \E class \in Classes, state \in Renewed, cause \in {"browser_session_changed", "native_permission_changed"} :
            OwnerReplacesSession(class, state, cause)
    \/ OwnerReplacesProfile \/ Interact
    \/ Observe \/ ProjectStatus
    \/ \E s \in flight : ReceiveStatus(s)
    \/ PrepareDispatch \/ AuthorizeDispatch
    \/ \E demand \in {"unauthenticated_allowed", "authentication_required"} : Begin(demand)
    \/ Deliver
    \/ \E outcome \in {"complete", "additional_input", "remote_task"} : Answer(outcome)
    \/ \E code \in {"policy_denied", "transport_failure", "malformed_response"},
          certainty \in {"not_dispatched", "dispatched", "unknown"} : Fail(code, certainty)
    \/ Retry

Spec == Init /\ [][Next]_vars
-----------------------------------------------------------------------------
(* What a dispatch is delegated for is what the owner has at that moment:   *)
(* the profile the contract asks for, unreplaced, in the session that was   *)
(* observed when the dispatch was prepared, of the bound class, signed in   *)
(* (BrowserProfileAdapter::prepare_dispatch, authorize_dispatch).           *)
DelegationIsCurrent ==
    authority # Nothing =>
        /\ authority.granted =
            [identity |-> authority.fresh.identity, class |-> authority.fresh.class, revision |-> authority.fresh.revision]
        /\ authority.fresh.state = "ready" /\ authority.fresh.identity.provider = contract.provider
        /\ contract.selection = "fixed" => authority.fresh.identity.alias = contract.alias

(* However late a status arrives, the host does not act upon one from       *)
(* before the last invalidation of statuses it has seen                     *)
(* (StrategyInvalidation::supersedes).                                      *)
LateStatusIsDropped ==
    status # Nothing /\ invalidation # Nothing /\ "status" \in invalidation.effect =>
        status.revision >= invalidation.revision

(* Retried only where the failure says it is safe, an invocation is never   *)
(* sent twice without a decision of the host, whatever the transport knows  *)
(* (StrategyInvocationFailure::retry_disposition).                          *)
AutomaticRetrySendsOnce == call.sent <= 1
==============================================================================
