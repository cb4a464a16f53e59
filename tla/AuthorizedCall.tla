---------------------------- MODULE AuthorizedCall ----------------------------
(***************************************************************************)
(* What a call shows its authorizer, which evidence it accepts and what    *)
(* its one audit receipt says (governed_execution_coordinator.rs).  The    *)
(* interleavings of a call are those of GovernedExecution; this module has *)
(* the data that one leaves out: the digest a request is known by, the     *)
(* evidence and the policy floor, and every field of the receipt.          *)
(*                                                                         *)
(* An authorizer may answer with evidence it made for another request: one *)
(* that was approved before, or is approved at the same time.  A digest is *)
(* the sequence of what is hashed; different sequences have different      *)
(* digests.                                                                *)
(***************************************************************************)
EXTENDS Integers, Sequences

CONSTANTS
    Invocations,  \* the calls that are compared with one another
    Floor,        \* the policy floor of every contract
    Evidence,     \* what an authorizer may grant, without the digest
    MaxItems      \* MAX_GOVERNED_AUTHORIZATION_EVIDENCE_ITEMS, in each set

CallsAssumption ==
    /\ \A i \in Invocations :
          /\ \A list \in {i.prefix, i.arguments, i.directory} : list \in Seq(STRING)
          /\ \A option \in {i.memory, i.stdin} : \A v, w \in option : v = w
    /\ \A e \in Evidence : "digest" \in DOMAIN e

VARIABLES
    invocation,  \* the call
    issued,      \* the call whose request the evidence at hand was made for
    accepted,    \* the evidence that was accepted, if any
    phase,
    receipt,     \* the audit receipt, once there is one
    answer       \* what the caller gets

vars == <<invocation, issued, accepted, phase, receipt, answer>>

-----------------------------------------------------------------------------
(* The request.                                                            *)

\* What is hashed is words and numbers; only its place says what a word is for.
Word(w) == <<"word", w>>
Number(n) == <<"number", n>>
Words(list) == [k \in DOMAIN list |-> Word(list[k])]

\* hash_strings, and the optional values.
HashCounted(list) == <<Number(Len(list))>> \o Words(list)
HashUncounted(list) == Words(list)
HashStrings(list) == HashCounted(list)
HashOption(value) ==
    IF value = {} THEN <<Number(0)>> ELSE <<Number(1), Word(CHOOSE v \in value : TRUE)>>

\* Public and fixed: the contract and the injection plan are digested whole.
Context(i) == <<i.call, i.capability, i.action>>

RequestDigest(i) ==
    Words(Context(i)) \o Words(<<i.contract, i.plan, i.executable>>)
        \o HashStrings(i.prefix) \o HashStrings(i.arguments) \o HashStrings(i.directory)
        \o Words(<<i.interaction, i.limits>>) \o HashOption(i.memory) \o HashOption(i.stdin)

\* Sets of grants, scopes and authorities are bounded.
Constructible(e) == \A s \in {e.grants, e.scopes, e.authorities} : Len(s) <= MaxItems
Held(s) == {s[k] : k \in DOMAIN s}

\* An approval above the ordinary class needs a receipt of its own.
MeetsFloor(e, floor) ==
    /\ e.class >= floor.approval
    /\ floor.approval = 0 \/ e.approval_receipt
    /\ Held(floor.grants) \subseteq Held(e.grants)
    /\ Held(floor.scopes) \subseteq Held(e.scopes)
    /\ Held(floor.authorities) \subseteq Held(e.authorities)

AuthorizationMatches(i, e) == e.digest = RequestDigest(i) /\ MeetsFloor(e, Floor[i.contract])

AuthorizationAudit(e) ==
    [class |-> e.class, grants |-> Len(e.grants), scopes |-> Len(e.scopes),
     authorities |-> Len(e.authorities)]

-----------------------------------------------------------------------------
(* Terminals and the accounts a receipt gives of them.                     *)

Ended == {"success", "non_zero_exit", "output_limit_exceeded", "memory_limit_exceeded",
          "cpu_limit_exceeded", "process_limit_exceeded", "file_limit_exceeded",
          "artifact_rejected"}
Terminal(t, d) == [terminal |-> t, dispatch |-> d]
Dispatches == {"not_dispatched", "dispatched", "unknown_after_dispatch"}

\* terminal_dispatch_is_valid
ValidTerminals ==
    {Terminal(t, "dispatched") : t \in Ended} \cup {Terminal("launch_rejected", "not_dispatched")}
        \cup {Terminal(t, d) : t \in {"cancelled", "timed_out", "runtime_failure"}, d \in Dispatches}

\* credential_outcome_for_terminal
CredentialOutcome(t) ==
    CASE t = "success" -> "succeeded"
      [] t = "cancelled" -> "cancelled"
      [] t = "timed_out" -> "process_timed_out"
      [] t = "non_zero_exit" -> "process_exited_non_zero"
      [] t = "output_limit_exceeded" -> "output_truncated"
      [] t = "memory_limit_exceeded" -> "process_memory_exceeded"
      [] t = "artifact_rejected" -> "output_malformed"
      [] OTHER -> "internal"

\* audit_outcome_for_terminal
AuditOutcome(t) ==
    CASE t = "success" -> "completed"
      [] t \in {"cancelled", "timed_out"} -> t
      [] OTHER -> "execution_failed"

-----------------------------------------------------------------------------
(* Settling.                                                               *)

Error(code, d) == [code |-> code, dispatch |-> d]
Nothing == Error("none", "not_dispatched")
NoReceipt == [outcome |-> "none"]

Init ==
    /\ invocation \in Invocations /\ issued \in Invocations
    /\ accepted = {} /\ phase = "entry" /\ receipt = NoReceipt /\ answer = Nothing

\* A receipt that is not recorded takes the answer's place.
Audits(r, a) ==
    /\ receipt' = r
    /\ answer' \in {a, Error("audit_failed", a.dispatch)}
    /\ phase' = "returned"
    /\ UNCHANGED <<invocation, issued, accepted>>

\* failure_receipt_from_parts: neither the jail nor an executable is known of.
FailureReceipt(outcome, terminal, credential) ==
    [outcome |-> outcome, terminal |-> terminal.terminal, dispatch |-> terminal.dispatch,
     credential |-> credential, authorization |-> accepted,
     executable |-> FALSE, jail |-> FALSE, artifacts |-> FALSE]

Rejects(outcome, credential, code) ==
    Audits(FailureReceipt(outcome, Terminal("launch_rejected", "not_dispatched"), credential),
           Error(code, "not_dispatched"))

\* Cancelled or too late: looked at before and after everything that takes time.
Stops ==
    \E why \in {"cancelled", "timed_out"} :
        Audits(FailureReceipt(why, Terminal(why, "not_dispatched"), CredentialOutcome(why)),
               Error(why, "not_dispatched"))

-----------------------------------------------------------------------------
(* Admission.                                                              *)

\* GovernedExecutorMode: a jail is for a batch command.
Fits == (invocation.mode = "pty") = (invocation.interaction = "pty")

CheckEntry ==
    /\ phase = "entry"
    /\ \/ Stops
       \/ ~Fits /\ Rejects("preparation_failed", "internal", "contract_mismatch")
       \/ Fits /\ phase' = "authorize" /\ UNCHANGED <<invocation, issued, accepted, receipt, answer>>

\* A panic of the authorizer counts as unavailable.
Refuses ==
    \/ Rejects("authorization_denied", "authorization_denied", "authorization_denied")
    \/ Rejects("approval_required", "approval_denied", "approval_required")
    \/ Rejects("authorization_unavailable", "authorization_denied", "authorization_unavailable")

Offered ==
    {[e EXCEPT !.digest = RequestDigest(issued)] : e \in {f \in Evidence : Constructible(f)}}

Approves(e) ==
    IF AuthorizationMatches(invocation, e)
    THEN /\ accepted' = {AuthorizationAudit(e)} /\ phase' = "authorized"
         /\ UNCHANGED <<invocation, issued, receipt, answer>>
    ELSE Rejects("authorization_denied", "authorization_denied", "invalid_authorization_evidence")

Decide ==
    /\ phase = "authorize"
    /\ Stops \/ Refuses \/ \E e \in Offered : Approves(e)

\* The ready profile's authority is issued once the call is authorized.
IssueAuthority ==
    /\ phase = "authorized"
    /\ \/ Stops
       \/ Rejects("preparation_failed", "scoped_path_unavailable", "profile_authority_unavailable")
       \/ phase' = "execute" /\ UNCHANGED <<invocation, issued, accepted, receipt, answer>>

-----------------------------------------------------------------------------
(* Execution: how what runs inside the credentials may end.                *)

\* The error or the result; the dispatch; the terminal that was observed, if any;
\* and whether the executable was bound by then.
Ends(code, d, observed, bound) ==
    [code |-> code, dispatch |-> d, observed |-> observed, bound |-> bound]

BeforeBinding ==
    {Ends(c, "not_dispatched", {}, FALSE) :
        c \in {"cancelled", "timed_out", "contract_mismatch", "result_sealing_failed",
               "execution_authority_failed", "credential_preparation_failed",
               "credential_materialization_failed", "internal_failure"}}

\* The executor fails before it has anything to report.
Lost ==
    {Ends(c, d, {}, TRUE) :
        c \in {"process_failed", "credential_materialization_failed", "internal_failure"}, d \in Dispatches}

\* A raw result is sealed; rejected artifacts take a success's place; then the
\* credentials are cleaned up, which may fail whatever the result is.
Seals(t) == {t} \cup (IF t.terminal = "success" THEN {Terminal("artifact_rejected", "dispatched")} ELSE {})
Observed ==
    UNION {{Ends(c, t.dispatch, {t}, TRUE) :
              c \in {"settled", "result_sealing_failed", "credential_materialization_failed",
                     "internal_failure"}} :
           t \in UNION {Seals(t) : t \in ValidTerminals}}

\* A cleanup that fails after a command that was not dispatched, past the deadline.
Late ==
    {Ends("timed_out", "not_dispatched", {t}, TRUE) :
        t \in {u \in ValidTerminals : u.dispatch = "not_dispatched"}}

Endings == BeforeBinding \cup Lost \cup Observed \cup Late

ExecutionReceipt(outcome, t, bound, artifacts) ==
    [outcome |-> outcome, terminal |-> t.terminal, dispatch |-> t.dispatch,
     credential |-> CredentialOutcome(t.terminal), authorization |-> accepted,
     executable |-> bound, jail |-> invocation.mode = "jailed", artifacts |-> artifacts]

\* audit_execution_error: a terminal that was observed is kept, unless it is a
\* success that the caller will not get.
Surviving(observed) == {t \in observed : t.terminal # "success"}

Stopped == {"cancelled", "timed_out"}
TerminalOf(end) ==
    IF end.code \in Stopped THEN Terminal(end.code, end.dispatch)
    ELSE IF Surviving(end.observed) # {} THEN CHOOSE t \in end.observed : TRUE
    ELSE Terminal("runtime_failure", end.dispatch)

OutcomeOf(end) ==
    IF end.code \in Stopped THEN end.code
    ELSE IF end.dispatch = "not_dispatched" THEN "preparation_failed"
    ELSE "execution_failed"

Settles(end) ==
    IF end.code = "settled"
    THEN LET t == CHOOSE t \in end.observed : TRUE
         IN  Audits(ExecutionReceipt(AuditOutcome(t.terminal), t, TRUE, TRUE),
                    Error(t.terminal, t.dispatch))
    ELSE Audits(ExecutionReceipt(OutcomeOf(end), TerminalOf(end), end.bound, FALSE),
                Error(end.code, end.dispatch))

Execute ==
    /\ phase = "execute"
    /\ \E end \in Endings : Settles(end)

Next == CheckEntry \/ Decide \/ IssueAuthority \/ Execute

Spec == Init /\ [][Next]_vars
-----------------------------------------------------------------------------
(* Properties.                                                             *)

\* What is shown to the authorizer or decides what runs, but for where: the jail,
\* the root of the working directory and the bytes of the executable are the
\* host's, not the request's.
Shown == {"call", "capability", "action", "contract", "plan", "executable", "prefix", "arguments",
          "directory", "interaction", "limits", "memory", "stdin"}

\* Evidence that was made for one request is accepted for no other, however the
\* words of two commands may run together: an argument that moves into the
\* prefix or into the directory, an input that moves into a limit
\* (build_authorization_request, authorization_matches).
ApprovalIsForThisCall ==
    accepted # {} => \A f \in Shown : issued[f] = invocation[f]

\* A receipt tells one story.  Its outcome, its terminal and its account of the
\* credentials agree on a success, and the caller gets that success or learns
\* that it was not recorded; a command that may have run is named; and a call
\* that was refused before it was authorized says so.
ReceiptTellsOneStory ==
    phase = "returned" =>
        /\ (receipt.outcome = "completed") = (receipt.terminal = "success")
        /\ (receipt.credential = "succeeded") = (receipt.terminal = "success")
        /\ receipt.terminal = "success" => answer.code \in {"success", "audit_failed"}
        /\ answer.code = "success" => receipt.terminal = "success" /\ receipt.artifacts
        /\ receipt.outcome \in Stopped =>
              receipt.terminal = receipt.outcome /\ receipt.credential = CredentialOutcome(receipt.outcome)
        /\ receipt.dispatch # "not_dispatched" => receipt.executable /\ receipt.authorization # {}
        /\ answer.dispatch = receipt.dispatch
        /\ receipt.credential \in {"authorization_denied", "approval_denied"} => receipt.authorization = {}
=============================================================================
