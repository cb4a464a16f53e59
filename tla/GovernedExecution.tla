-------------------------- MODULE GovernedExecution --------------------------
(***************************************************************************)
(* The calls one thread makes through the execution coordinator            *)
(* (src/tool-runtime-core/src/governed_execution_coordinator.rs, with the  *)
(* preparation and materialization of credentials it runs inside):         *)
(* authorization, credentials, dispatch, sealing, cleanup and audit.       *)
(*                                                                         *)
(* The code is sequential.  What is not is everything it calls: the host's *)
(* authorizer, credential resolver, audit sink and terminal bridge may     *)
(* fail, panic, take any time and call back into the coordinator, while    *)
(* the caller cancels and the deadline passes.  A check of both is one     *)
(* step: neither is ever taken back.  Which process ran is abstracted to   *)
(* whether the admitted command may have started.                          *)
(***************************************************************************)

VARIABLES
    \* the call
    pc,
    active,       \* GOVERNED_EXECUTION_ACTIVE of this thread
    cancelled, expired,
    decision,     \* what the authorizer answered
    profile,      \* the ready profile's authority was issued
    scratch,      \* the scoped files: none, live, removed or left behind
    outcome,      \* how the consumer of the materialized credentials ended
    dispatch_observed, terminal_observed,
    receipt,      \* the audit receipt that is, or was, recorded
    answer,       \* what is returned if the receipt is durable
    returned,
    \* histories of the call
    approved,     \* evidence that matched was accepted
    late,         \* it was cancelled, or expired, while admission was pending
    asked,        \* the credential resolver was called
    ran,          \* the command may have run
    sink,         \* the audit sink: unasked, accepted or refused
    nested        \* another call was admitted inside this one

observations == <<dispatch_observed, terminal_observed>>
settling == <<receipt, answer, sink, returned>>
credentials == <<scratch, asked>>
admission == <<decision, approved, profile>>
clocks == <<cancelled, expired, late>>
reentry == <<active, nested>>
vars == <<pc, reentry, clocks, admission, credentials, outcome, observations, ran, settling>>

Terminal(t, d) == [terminal |-> t, dispatch |-> d]
Nothing == Terminal("none", "none")
Error(code, d) == [code |-> code, dispatch |-> d]
NoAnswer == Error("none", "none")
NoReceipt == [outcome |-> "none", terminal |-> Nothing, authorized |-> FALSE]

Init ==
    /\ pc = "idle" /\ active = FALSE /\ nested = FALSE
    /\ cancelled = FALSE /\ expired = FALSE /\ late = FALSE
    /\ decision = "none" /\ profile = FALSE /\ approved = FALSE
    /\ scratch = "none" /\ asked = FALSE
    /\ outcome = NoAnswer
    /\ dispatch_observed = "not_dispatched" /\ terminal_observed = Nothing
    /\ ran = FALSE
    /\ receipt = NoReceipt /\ answer = NoAnswer /\ returned = NoAnswer
    /\ sink = "unasked"

-----------------------------------------------------------------------------
(* The thread's guard against calls from inside a call.                    *)

\* Steps during which code of the host runs on this thread.
Callbacks == {"authorize", "resolving", "collect", "record"}

\* GovernedExecutionReentryGuard::enter, and what its refusal leaves behind.
FlagReset == FALSE
FlagStays == active
AfterRefusal == FlagStays

Enter ==
    /\ pc \in {"idle", "returned"}
    /\ ~active /\ active' = TRUE
    /\ pc' = "request"
    /\ cancelled' \in BOOLEAN /\ expired' = FALSE /\ late' = cancelled'
    /\ decision' = "none" /\ profile' = FALSE /\ approved' = FALSE
    /\ scratch' = "none" /\ asked' = FALSE
    /\ outcome' = NoAnswer
    /\ dispatch_observed' = "not_dispatched" /\ terminal_observed' = Nothing
    /\ ran' = FALSE
    /\ receipt' = NoReceipt /\ answer' = NoAnswer /\ returned' = NoAnswer
    /\ sink' = "unasked"
    /\ UNCHANGED nested

CallBack ==
    /\ pc \in Callbacks
    /\ IF active
       THEN active' = AfterRefusal /\ UNCHANGED nested
       ELSE nested' = TRUE /\ UNCHANGED active
    /\ UNCHANGED <<pc, clocks, admission, credentials, outcome, observations, ran, settling>>

-----------------------------------------------------------------------------
(* The caller and the clock.                                               *)

\* Until the last check before the credentials.
Admitting == {"request", "entry", "authorize", "decided", "approved", "admitted"}

World ==
    /\ pc \notin {"idle", "returned"}
    /\ \/ ~cancelled /\ cancelled' = TRUE /\ UNCHANGED expired
       \/ ~expired /\ expired' = TRUE /\ UNCHANGED cancelled
    /\ late' = (late \/ pc \in Admitting)
    /\ UNCHANGED <<pc, reentry, admission, credentials, outcome, observations, ran, settling>>

-----------------------------------------------------------------------------
(* Settling.                                                               *)

Audits(r, a) ==
    /\ receipt' = r /\ answer' = a
    /\ pc' = "record"
    /\ UNCHANGED <<sink, returned>>

Receipt(o, t) == [outcome |-> o, terminal |-> t, authorized |-> approved]

\* A call that was cancelled, or whose deadline passed, before it was admitted.
StopsOnDeadline == expired
StopsOnBoth == cancelled \/ expired
Stops == StopsOnBoth

Stopped == IF cancelled THEN "cancelled" ELSE "timed_out"
AuditsStop ==
    Audits(Receipt(Stopped, Terminal(Stopped, "not_dispatched")), Error(Stopped, "not_dispatched"))

Rejects(why) ==
    Audits(Receipt(why, Terminal("launch_rejected", "not_dispatched")),
           Error(why, "not_dispatched"))

\* audit_execution_error: the terminal that was observed is kept, unless it is a
\* success that the call cannot return.
TerminalStands == terminal_observed # Nothing /\ terminal_observed.terminal # "success"

SettlesError(e) ==
    LET terminal == IF e.code \in {"cancelled", "timed_out"} THEN Terminal(e.code, e.dispatch)
                    ELSE IF TerminalStands THEN terminal_observed
                    ELSE Terminal("runtime_failure", e.dispatch)
        what == IF e.code \in {"cancelled", "timed_out"} THEN e.code
                ELSE IF e.dispatch = "not_dispatched" THEN "preparation_failed"
                ELSE "execution_failed"
    IN Audits(Receipt(what, terminal), e)

OutcomeOf(t) == CASE t = "success" -> "completed"
                  [] t \in {"cancelled", "timed_out"} -> t
                  [] t \in {"failed", "runtime_failure"} -> "execution_failed"

SettlesResult(t) == Audits(Receipt(OutcomeOf(t.terminal), t), Error("settled", t.dispatch))

\* record_audit: the sink accepts, refuses or panics; the call then returns, and
\* only a receipt that was accepted lets its answer through.
Record ==
    /\ pc = "record"
    /\ sink' \in {"accepted", "refused"}
    /\ returned' = IF sink' = "accepted" THEN answer ELSE Error("audit_failed", answer.dispatch)
    /\ pc' = "returned"
    /\ active' = FALSE
    /\ UNCHANGED <<nested, clocks, admission, credentials, outcome, observations, ran, receipt,
                   answer>>

-----------------------------------------------------------------------------
(* Admission.                                                              *)

\* The deadline or the request cannot be built: nothing is audited.
BuildRequest ==
    /\ pc = "request"
    /\ \/ pc' = "entry" /\ UNCHANGED <<active, settling>>
       \/ /\ pc' = "returned" /\ active' = FALSE
          /\ returned' = Error("not_built", "not_dispatched")
          /\ UNCHANGED <<receipt, answer, sink>>
    /\ UNCHANGED <<nested, admission>>

CheckEntry ==
    /\ pc = "entry"
    /\ \/ Stops /\ AuditsStop
       \/ ~Stops /\ Rejects("preparation_failed")     \* the wrong executor
       \/ ~Stops /\ pc' = "authorize" /\ UNCHANGED settling
    /\ UNCHANGED <<reentry, admission>>

\* A panic counts as an authorizer that is not available.
Authorize ==
    /\ pc = "authorize"
    /\ decision' \in {"matching", "mismatched", "denied", "approval_required", "unavailable"}
    /\ pc' = "decided"
    /\ UNCHANGED <<reentry, profile, approved, settling>>

\* authorization_matches: approval alone is not enough.
Matches == decision = "matching"

CheckDecision ==
    /\ pc = "decided"
    /\ \/ /\ Stops
          /\ AuditsStop /\ UNCHANGED approved
       \/ /\ ~Stops /\ ~Matches
          /\ Rejects("authorization_refused") /\ UNCHANGED approved
       \/ /\ ~Stops /\ Matches
          /\ approved' = TRUE
          /\ pc' = "approved" /\ UNCHANGED settling
    /\ UNCHANGED <<reentry, decision, profile>>

\* Checked once more, and then the profile's authority is issued.
IssueAuthority ==
    /\ pc = "approved"
    /\ \/ Stops /\ AuditsStop /\ UNCHANGED profile
       \/ /\ ~Stops
          /\ profile' \in BOOLEAN
          /\ pc' = "admitted" /\ UNCHANGED settling
    /\ UNCHANGED <<reentry, decision, approved>>

CheckAuthority ==
    /\ pc = "admitted"
    /\ \/ Stops /\ AuditsStop
       \/ ~Stops /\ ~profile /\ Rejects("preparation_failed")
       \/ ~Stops /\ profile /\ pc' = "resolve" /\ UNCHANGED settling
    /\ UNCHANGED <<reentry, admission>>

Admission ==
    /\ BuildRequest \/ CheckEntry \/ Authorize \/ CheckDecision \/ IssueAuthority \/ CheckAuthority
    /\ UNCHANGED <<clocks, credentials, outcome, observations, ran>>

-----------------------------------------------------------------------------
(* with_prepared_credential_material_before and what runs inside it.       *)

\* A panic is an error of its own, with the dispatch that was observed.
InternalOfDispatch == Error("internal_failure", dispatch_observed)
Internal == InternalOfDispatch

\* It drops every owner on its way up; the directory of the scoped files is
\* removed then, if that succeeds.
Panics ==
    /\ SettlesError(Internal)
    /\ scratch' \in IF scratch = "live" THEN {"removed", "left"} ELSE {scratch}

PreparationFails ==
    SettlesError(Error(IF expired THEN "timed_out" ELSE "preparation_failed", "not_dispatched"))

Resolve ==
    /\ pc = "resolve"
    /\ IF expired
       THEN PreparationFails /\ UNCHANGED asked
       ELSE asked' = TRUE /\ pc' = "resolving" /\ UNCHANGED settling
    /\ UNCHANGED <<scratch, outcome, observations, ran>>

Resolved ==
    /\ pc = "resolving"
    /\ \/ PreparationFails /\ UNCHANGED scratch
       \/ Panics
       \/ ~expired /\ pc' = "materialize" /\ UNCHANGED <<scratch, settling>>
    /\ UNCHANGED <<asked, outcome, observations, ran>>

\* What materialization or its cleanup reports keeps the dispatch it found.
ForgetsDispatch == "not_dispatched"
KeepsDispatch == dispatch_observed
DispatchAfterCleanup == KeepsDispatch

MaterializationFails ==
    SettlesError(
       IF dispatch_observed = "not_dispatched" /\ expired
       THEN Error("timed_out", "not_dispatched")
       ELSE Error("materialization_failed", DispatchAfterCleanup))

Materialize ==
    /\ pc = "materialize"
    /\ \/ /\ MaterializationFails
          /\ scratch' \in {"none", "removed", "left"}
       \/ /\ scratch' \in {"none", "live"}
          /\ pc' = "bind" /\ UNCHANGED settling
    /\ UNCHANGED <<asked, outcome, observations, ran>>

Consumed(o) == outcome' = o /\ pc' = "cleanup"

\* What is known of a dispatch that was begun and not yet reported.
AssumesNothingRan == "not_dispatched"
AssumesNothing == "unknown_after_dispatch"
DispatchBegun == AssumesNothing

\* execute_materialized, up to the process owner.
Bind ==
    /\ pc = "bind"
    /\ \/ Stops /\ Consumed(Error(Stopped, "not_dispatched")) /\ UNCHANGED dispatch_observed
       \/ ~Stops /\ Consumed(Error("not_bound", "not_dispatched")) /\ UNCHANGED dispatch_observed
       \/ ~Stops /\ dispatch_observed' = DispatchBegun /\ pc' = "execute" /\ UNCHANGED outcome
    /\ UNCHANGED <<credentials, terminal_observed, ran, settling>>

Observes(t) ==
    /\ dispatch_observed' = t.dispatch /\ terminal_observed' = t
    /\ pc' = "seal" /\ UNCHANGED outcome

Loses(d) ==
    /\ dispatch_observed' = d
    /\ Consumed(Error("process_failed", d))
    /\ UNCHANGED terminal_observed

\* The process owner: it stops before the spawn, is refused (by the capacity, the
\* authority, the kernel or the jail's helper), or starts the command.
Execute ==
    /\ pc = "execute"
    /\ \/ StopsOnBoth /\ Observes(Terminal(Stopped, "not_dispatched")) /\ UNCHANGED ran
       \/ Loses("not_dispatched") /\ UNCHANGED ran
       \/ ran' = TRUE /\ pc' = "collect" /\ UNCHANGED <<outcome, observations>>
    /\ UNCHANGED <<credentials, settling>>

\* How a started command ends: with its own exit or a limit ("failed" but for a
\* success), a stop, an error of the owner, or a panic.
Collected ==
    /\ pc = "collect"
    /\ \/ /\ \E t \in {"success", "failed", "runtime_failure"} : Observes(Terminal(t, "dispatched"))
          /\ UNCHANGED <<scratch, settling>>
       \/ /\ StopsOnBoth
          /\ Observes(Terminal(Stopped, "dispatched"))
          /\ UNCHANGED <<scratch, settling>>
       \/ /\ \E d \in {"dispatched", "unknown_after_dispatch"} : Loses(d)
          /\ UNCHANGED <<scratch, settling>>
       \/ Panics /\ UNCHANGED <<outcome, observations>>
    /\ UNCHANGED <<asked, ran>>

\* Rejected artifacts turn a success into a failure.
Seal ==
    /\ pc = "seal"
    /\ \/ /\ \E t \in IF terminal_observed.terminal = "success"
                      THEN {terminal_observed, Terminal("failed", "dispatched")}
                      ELSE {terminal_observed} :
             terminal_observed' = t /\ Consumed(Error("settled", t.dispatch))
          /\ UNCHANGED <<scratch, settling>>
       \/ /\ Consumed(Error("sealing_failed", terminal_observed.dispatch))
          /\ UNCHANGED <<scratch, terminal_observed, settling>>
       \/ Panics /\ UNCHANGED <<outcome, terminal_observed>>
    /\ UNCHANGED <<asked, dispatch_observed, ran>>

SettlesOutcome ==
    IF outcome.code = "settled" THEN SettlesResult(terminal_observed) ELSE SettlesError(outcome)

\* What becomes of the consumer's outcome once cleanup has been tried.
CleanupIgnored(ok) == TRUE
CleanupCounts(ok) == ok
OutcomeStands(ok) == CleanupCounts(ok)

\* The profiles are validated again and the scoped files removed.  A failure of
\* either takes the outcome's place; dropping the session tries to remove the
\* files once more.
Cleanup ==
    /\ pc = "cleanup"
    /\ \E ok \in BOOLEAN :
          /\ IF OutcomeStands(ok) THEN SettlesOutcome ELSE MaterializationFails
          /\ scratch' \in IF scratch # "live" THEN {scratch}
                         ELSE IF ok THEN {"removed"} ELSE {"removed", "left"}
    /\ UNCHANGED <<asked, outcome, observations, ran>>

Execution ==
    /\ Resolve \/ Resolved \/ Materialize \/ Bind \/ Execute \/ Collected \/ Seal \/ Cleanup
    /\ UNCHANGED <<reentry, clocks, admission>>

-----------------------------------------------------------------------------

Next == Enter \/ CallBack \/ World \/ Admission \/ Execution \/ Record

Spec == Init /\ [][Next]_vars
-----------------------------------------------------------------------------
(* Properties.                                                             *)

Dispatches == {"not_dispatched", "dispatched", "unknown_after_dispatch"}
Terminals == {"success", "failed", "cancelled", "timed_out", "launch_rejected", "runtime_failure"}
TerminalStates == {Nothing} \cup [terminal : Terminals, dispatch : Dispatches]
Outcomes == {"none", "cancelled", "timed_out", "preparation_failed", "authorization_refused",
             "execution_failed", "completed"}
Codes == {"cancelled", "timed_out", "preparation_failed", "authorization_refused", "not_built",
          "internal_failure", "materialization_failed", "not_bound", "process_failed",
          "sealing_failed", "settled", "audit_failed"}
Receipts == [outcome : Outcomes, terminal : TerminalStates, authorized : BOOLEAN]
Answers == {NoAnswer} \cup [code : Codes, dispatch : Dispatches]

TypeOK ==
    /\ pc \in {"idle", "request", "entry", "authorize", "decided", "approved", "admitted",
               "resolve", "resolving", "materialize", "bind", "execute", "collect", "seal",
               "cleanup", "record", "returned"}
    /\ active \in BOOLEAN /\ nested \in BOOLEAN
    /\ cancelled \in BOOLEAN /\ expired \in BOOLEAN /\ late \in BOOLEAN
    /\ decision \in {"none", "matching", "mismatched", "denied", "approval_required", "unavailable"}
    /\ profile \in BOOLEAN /\ approved \in BOOLEAN
    /\ scratch \in {"none", "live", "removed", "left"} /\ asked \in BOOLEAN
    /\ outcome \in Answers
    /\ dispatch_observed \in Dispatches
    /\ terminal_observed \in TerminalStates
    /\ ran \in BOOLEAN
    /\ receipt \in Receipts
    /\ answer \in Answers /\ returned \in Answers
    /\ sink \in {"unasked", "accepted", "refused"}

\* Credentials are resolved, and the command runs, only for a call whose exact
\* evidence was accepted and that was neither cancelled nor expired while it was
\* being admitted, however long the authorizer took (execute's checks).
AdmissionPrecedesCredentials ==
    asked \/ ran => decision = "matching" /\ approved /\ ~late

\* Whoever is told, by the receipt or by the caller's answer, that nothing was
\* dispatched may try again: the command did not run, whichever callback failed
\* or panicked and whatever cleanup did.  "Dispatched" is as certain.
DispatchIsCertain ==
    \A told \in {receipt.terminal.dispatch, answer.dispatch, returned.dispatch} :
        /\ told = "not_dispatched" => ~ran
        /\ told = "dispatched" => ran

\* The receipt and the caller's answer agree: on the dispatch, on whether the
\* call was authorized, and a result is only returned under a receipt the sink
\* accepted.
ReceiptMatchesAnswer ==
    pc = "returned" /\ returned.code # "not_built" =>
        /\ sink # "unasked"
        /\ returned.dispatch = receipt.terminal.dispatch
        /\ receipt.authorized = approved
        /\ (returned.code = "audit_failed") = (sink = "refused")

\* Success is recorded, and returned, only after the scoped credential files are
\* gone and the result was sealed.
SuccessIsClean ==
    receipt.terminal.terminal = "success" =>
        /\ scratch \in {"none", "removed"}
        /\ answer.code = "settled" /\ receipt.outcome = "completed"

\* No callback starts a second call inside the first, however often it tries.
OneCallPerThread == ~nested
=============================================================================
