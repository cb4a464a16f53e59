----------------------- MODULE GovernedExecution_proofs -----------------------
(***************************************************************************)
(* Proofs about the execution coordinator, for every behaviour of the host *)
(* and of the process owner the specification allows.                      *)
(* Then about what a call prints and leaves behind: its redactors, its     *)
(* sealed result and its records (Components), for every value of their    *)
(* constants.                                                              *)
(***************************************************************************)
EXTENDS GovernedExecution, Components, FiniteSetTheorems, SequenceTheorems, TLAPS

-----------------------------------------------------------------------------
(* The inductive invariant.                                                *)

\* Steps at which credentials are prepared or in use.
Holding == {"resolving", "materialize", "bind", "execute", "collect", "seal", "cleanup"}
Before == Admitting \cup {"resolve", "resolving", "materialize", "bind"}

\* The flag is up exactly during a call, and no other call was let in.
FlagFollowsCall == active = (pc \notin {"idle", "returned"}) /\ ~nested

\* How far admission has come, and what that says of evidence and clocks.
AdmissionState ==
    /\ late => cancelled \/ expired
    /\ approved => decision = "matching"
    /\ pc \in {"approved", "admitted", "resolve"} \cup Holding => approved
    /\ pc \in {"idle", "request", "entry", "authorize", "decided"} => ~approved
    /\ pc \in {"resolve"} \cup Holding => ~late
    /\ pc \in {"idle", "resolve"} \cup Admitting => ~asked
    /\ pc \notin {"record", "returned"} => scratch \in {"none", "live"}
    /\ asked \/ ran => approved /\ ~late

\* What is known of the dispatch is never more than what happened.
DispatchState ==
    /\ pc \in {"idle"} \cup Before =>
          dispatch_observed = "not_dispatched" /\ ~ran /\ terminal_observed = Nothing
    /\ pc \in {"execute", "collect"} =>
          dispatch_observed = "unknown_after_dispatch" /\ terminal_observed = Nothing
    /\ pc = "execute" => ~ran
    /\ pc = "collect" => ran
    /\ dispatch_observed = "not_dispatched" => ~ran
    /\ dispatch_observed = "dispatched" => ran
    /\ terminal_observed # Nothing =>
          /\ terminal_observed.dispatch = dispatch_observed
          /\ terminal_observed.terminal \in Terminals \ {"launch_rejected"}
          /\ terminal_observed.terminal = "success" => dispatch_observed = "dispatched"
    /\ pc = "seal" => terminal_observed # Nothing
    /\ pc = "cleanup" =>
          /\ outcome # NoAnswer /\ outcome.dispatch = dispatch_observed
          /\ outcome.code \notin {"audit_failed", "not_built"}
          /\ outcome.code = "settled" => terminal_observed # Nothing

\* Nothing was recorded or answered yet.
Unsettled == receipt = NoReceipt /\ answer = NoAnswer /\ sink = "unasked" /\ returned = NoAnswer

\* The receipt and the answer that goes with it.
Agreed ==
    /\ answer # NoAnswer
    /\ answer.code \notin {"audit_failed", "not_built"}
    /\ answer.dispatch = receipt.terminal.dispatch
    /\ answer.dispatch = "not_dispatched" => ~ran
    /\ answer.dispatch = "dispatched" => ran
    /\ receipt.authorized = approved
    /\ receipt.terminal.terminal = "success" =>
          scratch \in {"none", "removed"} /\ answer.code = "settled" /\ receipt.outcome = "completed"

\* When each of them exists, and what the call returns.
SettledState ==
    /\ pc \notin {"record", "returned"} => Unsettled
    /\ pc = "record" => Agreed /\ sink = "unasked" /\ returned = NoAnswer
    /\ pc = "returned" =>
          \/ /\ returned = Error("not_built", "not_dispatched") /\ ~ran
             /\ receipt = NoReceipt /\ answer = NoAnswer
          \/ /\ Agreed /\ sink # "unasked"
             /\ returned = (IF sink = "accepted" THEN answer ELSE Error("audit_failed", answer.dispatch))

\* The inductive invariant.
IInv == TypeOK /\ FlagFollowsCall /\ AdmissionState /\ DispatchState /\ SettledState

\* The groups of variables are only names for tuples.
USE DEF observations, settling, credentials, admission, clocks, reentry

-----------------------------------------------------------------------------
(* Answers, terminals and receipts.                                        *)

\* An error with a known code and dispatch is an answer.
LEMMA ErrorIsAnswer ==
    ASSUME NEW c \in Codes, NEW d \in Dispatches
    PROVE  Error(c, d) \in Answers /\ Error(c, d) # NoAnswer
           /\ Error(c, d).code = c /\ Error(c, d).dispatch = d
BY DEF Error, Answers, NoAnswer, Codes

\* An answer other than none has a known code and dispatch.
LEMMA AnswerFields ==
    ASSUME NEW a \in Answers, a # NoAnswer
    PROVE  a.code \in Codes /\ a.dispatch \in Dispatches /\ a = Error(a.code, a.dispatch)
BY DEF Answers, Error

\* A terminal with a known dispatch is a terminal state.
LEMMA TerminalIsState ==
    ASSUME NEW t \in Terminals, NEW d \in Dispatches
    PROVE  Terminal(t, d) \in TerminalStates /\ Terminal(t, d) # Nothing
           /\ Terminal(t, d).terminal = t /\ Terminal(t, d).dispatch = d
BY DEF Terminal, TerminalStates, Nothing, Terminals

\* A terminal state other than none has a known terminal and dispatch.
LEMMA TerminalFields ==
    ASSUME NEW t \in TerminalStates, t # Nothing
    PROVE  t.terminal \in Terminals /\ t.dispatch \in Dispatches
BY DEF TerminalStates

\* What a receipt of this call is made of.
LEMMA ReceiptFields ==
    ASSUME TypeOK, NEW o \in Outcomes, NEW t \in TerminalStates
    PROVE  Receipt(o, t) \in Receipts /\ Receipt(o, t).outcome = o
           /\ Receipt(o, t).terminal = t /\ Receipt(o, t).authorized = approved
BY DEF Receipt, Receipts, TypeOK

\* The values of a fresh call have their types.
LEMMA FreshValues ==
    /\ NoAnswer \in Answers /\ Nothing \in TerminalStates /\ NoReceipt \in Receipts
    /\ NoReceipt.terminal = Nothing
    /\ Nothing.terminal = "none" /\ Nothing.dispatch = "none"
    /\ NoAnswer.dispatch = "none" /\ NoAnswer.code = "none"
    /\ Dispatches = {"not_dispatched", "dispatched", "unknown_after_dispatch"}
BY DEF NoAnswer, Answers, Nothing, TerminalStates, NoReceipt, Receipts, Outcomes, Error, Terminal,
       Dispatches

-----------------------------------------------------------------------------
(* Every way into the audit.                                               *)

\* A receipt was made out, with the answer that goes with it, both for dispatch d.
Audited(d) ==
    /\ pc' = "record"
    /\ receipt' \in Receipts /\ answer' \in Answers
    /\ answer' # NoAnswer /\ answer'.code \notin {"audit_failed", "not_built"}
    /\ answer'.dispatch = d /\ receipt'.terminal.dispatch = d
    /\ receipt'.authorized = approved
    /\ receipt'.terminal.terminal = "success" =>
          scratch' \in {"none", "removed"} /\ answer'.code = "settled"
          /\ receipt'.outcome = "completed"
    /\ UNCHANGED <<sink, returned>>

\* Recording a terminal other than success, with an error of the same dispatch.
LEMMA AuditsError ==
    ASSUME TypeOK, NEW o \in Outcomes, NEW t \in Terminals \ {"success"}, NEW d \in Dispatches,
           NEW c \in Codes \ {"audit_failed", "not_built"},
           Audits(Receipt(o, Terminal(t, d)), Error(c, d))
    PROVE  Audited(d)
<1>1. Terminal(t, d) \in TerminalStates /\ Terminal(t, d).terminal = t
      /\ Terminal(t, d).dispatch = d
  BY TerminalIsState
<1>2. Receipt(o, Terminal(t, d)) \in Receipts
      /\ Receipt(o, Terminal(t, d)).terminal = Terminal(t, d)
      /\ Receipt(o, Terminal(t, d)).authorized = approved
  BY <1>1, ReceiptFields
<1>3. Error(c, d) \in Answers /\ Error(c, d) # NoAnswer /\ Error(c, d).code = c
      /\ Error(c, d).dispatch = d
  BY ErrorIsAnswer
<1> QED
  BY <1>1, <1>2, <1>3 DEF Audits, Audited

\* A stop during admission.
LEMMA AuditsStopped == ASSUME TypeOK, AuditsStop PROVE Audited("not_dispatched")
<1>1. Stopped \in {"cancelled", "timed_out"}
  BY DEF Stopped
<1>2. Stopped \in Outcomes /\ Stopped \in Terminals \ {"success"} /\ "not_dispatched" \in Dispatches
      /\ Stopped \in Codes \ {"audit_failed", "not_built"}
  BY <1>1 DEF Outcomes, Terminals, Dispatches, Codes
<1> QED
  BY <1>2, AuditsError DEF AuditsStop

\* A refusal during admission.
LEMMA AuditsRejection ==
    ASSUME TypeOK, NEW why \in {"preparation_failed", "authorization_refused"}, Rejects(why)
    PROVE  Audited("not_dispatched")
<1>1. why \in Outcomes /\ "launch_rejected" \in Terminals \ {"success"}
      /\ "not_dispatched" \in Dispatches
      /\ why \in Codes \ {"audit_failed", "not_built"}
  BY DEF Outcomes, Terminals, Dispatches, Codes
<1> QED
  BY <1>1, AuditsError DEF Rejects

\* An error after admission, reported with the dispatch that was observed.
LEMMA AuditsFailure ==
    ASSUME IInv, NEW c \in Codes \ {"audit_failed", "not_built"},
           SettlesError(Error(c, dispatch_observed))
    PROVE  Audited(dispatch_observed)
<1> DEFINE d == dispatch_observed
<1> DEFINE what == IF c \in {"cancelled", "timed_out"} THEN c
                  ELSE IF d = "not_dispatched" THEN "preparation_failed" ELSE "execution_failed"
<1>1. d \in Dispatches /\ what \in Outcomes /\ TypeOK /\ terminal_observed \in TerminalStates
  BY DEF IInv, TypeOK, Outcomes
<1>2. Error(c, d).code = c /\ Error(c, d).dispatch = d /\ Error(c, d) \in Answers
      /\ Error(c, d) # NoAnswer
  BY <1>1, ErrorIsAnswer
<1>3. CASE c \in {"cancelled", "timed_out"}
  <2>1. Audits(Receipt(what, Terminal(c, d)), Error(c, d))
    BY <1>2, <1>3 DEF SettlesError
  <2>2. c \in Terminals \ {"success"}
    BY <1>3 DEF Terminals
  <2> QED
    BY <1>1, <2>1, <2>2, AuditsError
<1>4. CASE c \notin {"cancelled", "timed_out"} /\ TerminalStands
  <2>1. Audits(Receipt(what, terminal_observed), Error(c, d))
    BY <1>2, <1>4 DEF SettlesError
  <2>2. terminal_observed.dispatch = d /\ terminal_observed.terminal # "success"
    BY <1>4 DEF TerminalStands, IInv, DispatchState
  <2>3. Receipt(what, terminal_observed) \in Receipts
        /\ Receipt(what, terminal_observed).terminal = terminal_observed
        /\ Receipt(what, terminal_observed).authorized = approved
    BY <1>1, ReceiptFields
  <2> QED
    BY <1>1, <1>2, <2>1, <2>2, <2>3 DEF Audits, Audited
<1>5. CASE c \notin {"cancelled", "timed_out"} /\ ~TerminalStands
  <2>1. Audits(Receipt(what, Terminal("runtime_failure", d)), Error(c, d))
    BY <1>2, <1>5 DEF SettlesError
  <2>2. "runtime_failure" \in Terminals \ {"success"}
    BY DEF Terminals
  <2> QED
    BY <1>1, <2>1, <2>2, AuditsError
<1> QED
  BY <1>3, <1>4, <1>5

\* A receipt that was made out for a dispatch that is true keeps the invariant.
LEMMA AfterAudit ==
    ASSUME IInv, NEW d \in Dispatches, Audited(d),
           pc \notin {"idle", "record", "returned"},
           d = "not_dispatched" => ~ran, d = "dispatched" => ran,
           scratch' \in {"none", "live", "removed", "left"},
           UNCHANGED <<reentry, clocks, admission, asked, outcome, observations, ran>>
    PROVE  IInv'
<1>1. TypeOK'
  BY DEF Audited, IInv, TypeOK
<1>2. FlagFollowsCall'
  BY DEF Audited, IInv, FlagFollowsCall
<1>3. AdmissionState'
  BY DEF Audited, IInv, AdmissionState, Holding, Admitting
<1>4. DispatchState'
  BY DEF Audited, IInv, DispatchState, Before, Admitting
<1>5. SettledState'
  BY DEF Audited, IInv, SettledState, Unsettled, Agreed
<1> QED
  BY <1>1, <1>2, <1>3, <1>4, <1>5 DEF IInv

-----------------------------------------------------------------------------
(* One lemma per action.                                                   *)

\* Nothing changes.
LEMMA Unchanged == ASSUME IInv, UNCHANGED vars PROVE IInv'
BY DEF vars, IInv, TypeOK, FlagFollowsCall, AdmissionState, DispatchState, SettledState,
       Unsettled, Agreed, Holding, Before, Admitting

\* Letting a call in.
LEMMA EnterStep == ASSUME IInv, Enter PROVE IInv'
<1>1. TypeOK'
  BY FreshValues DEF IInv, TypeOK, Enter
<1>2. FlagFollowsCall'
  BY DEF IInv, FlagFollowsCall, Enter
<1>3. AdmissionState'
  BY FreshValues DEF IInv, AdmissionState, Holding, Admitting, Enter
<1>4. DispatchState'
  BY FreshValues DEF IInv, DispatchState, Before, Admitting, Enter
<1>5. SettledState'
  BY FreshValues DEF IInv, SettledState, Unsettled, Agreed, Enter
<1> QED
  BY <1>1, <1>2, <1>3, <1>4, <1>5 DEF IInv

\* A callback that calls back is refused, and the flag stays up.
LEMMA CallBackStep == ASSUME IInv, CallBack PROVE IInv'
<1>1. active
  BY DEF CallBack, IInv, FlagFollowsCall, TypeOK, Callbacks
<1>2. UNCHANGED vars
  BY <1>1 DEF CallBack, AfterRefusal, FlagStays, vars
<1> QED
  BY <1>2, Unchanged

\* The caller and the clock.
LEMMA WorldStep == ASSUME IInv, World PROVE IInv'
<1>1. cancelled' \in BOOLEAN /\ expired' \in BOOLEAN /\ (cancelled' \/ expired')
  BY DEF World, IInv, TypeOK
<1>2. late' \in BOOLEAN /\ (pc \notin Admitting => late' = late)
      /\ (late' => cancelled' \/ expired')
  <2>1. late' \in BOOLEAN
    BY Zenon DEF World
  <2>2. ASSUME pc \notin Admitting PROVE late' = late
    BY <2>2 DEF World, IInv, TypeOK
  <2> QED
    BY <1>1, <2>1, <2>2
<1>3. UNCHANGED <<pc, reentry, admission, credentials, outcome, observations, ran, settling>>
      /\ pc \notin {"idle", "returned"}
  BY DEF World
<1>4. TypeOK'
  BY <1>1, <1>2, <1>3, FreshValues DEF IInv, TypeOK
<1>5. FlagFollowsCall'
  BY <1>1, <1>2, <1>3 DEF IInv, FlagFollowsCall
<1>6. AdmissionState'
  BY <1>1, <1>2, <1>3, FreshValues
     DEF IInv, TypeOK, DispatchState, Before, AdmissionState, Holding, Admitting
<1>7. DispatchState'
  BY <1>1, <1>2, <1>3, FreshValues DEF IInv, DispatchState, Before, Admitting
<1>8. SettledState'
  BY <1>1, <1>2, <1>3, FreshValues DEF IInv, SettledState, Unsettled, Agreed
<1> QED
  BY <1>4, <1>5, <1>6, <1>7, <1>8 DEF IInv

\* Recording the receipt.
LEMMA RecordStep == ASSUME IInv, Record PROVE IInv'
<1>1. Error("audit_failed", answer.dispatch) \in Answers
  <2>1. answer \in Answers /\ answer # NoAnswer /\ "audit_failed" \in Codes
    BY DEF IInv, TypeOK, SettledState, Agreed, Record, Codes
  <2> QED
    BY <2>1, AnswerFields, ErrorIsAnswer
<1>2. returned' \in Answers /\ sink' \in {"accepted", "refused"}
      /\ returned' = (IF sink' = "accepted" THEN answer ELSE Error("audit_failed", answer.dispatch))
  BY <1>1 DEF Record, IInv, TypeOK
<1>3. TypeOK'
  <2>1. /\ pc' = "returned" /\ active' = FALSE
        /\ UNCHANGED <<nested, clocks, admission, credentials, outcome, observations, ran, receipt,
                      answer>>
    BY DEF Record
  <2>2. pc' = "returned" /\ sink' \in {"accepted", "refused"} /\ returned' \in Answers
    BY <1>2, <2>1
  <2>3. active' \in BOOLEAN /\ nested' \in BOOLEAN
    BY <2>1 DEF IInv, TypeOK
  <2>4. /\ UNCHANGED <<cancelled, expired, late, decision, profile, approved, scratch, asked,
                      dispatch_observed, terminal_observed>>
        /\ UNCHANGED <<outcome, ran, receipt, answer>>
    BY <2>1
  <2> QED
    BY <2>2, <2>3, <2>4 DEF IInv, TypeOK
<1>4. FlagFollowsCall'
  BY <1>2 DEF IInv, FlagFollowsCall, Record
<1>5. AdmissionState'
  BY <1>2, FreshValues DEF IInv, AdmissionState, Holding, Admitting, Record
<1>6. DispatchState'
  BY <1>2, FreshValues DEF IInv, DispatchState, Before, Admitting, Record
<1>7. SettledState'
  BY <1>2, FreshValues DEF IInv, SettledState, Unsettled, Agreed, Record
<1> QED
  BY <1>3, <1>4, <1>5, <1>6, <1>7 DEF IInv

\* Building the request.
LEMMA BuildRequestStep ==
    ASSUME IInv, BuildRequest, UNCHANGED <<clocks, credentials, outcome, observations, ran>>
    PROVE  IInv'
<1>1. CASE pc' = "entry" /\ UNCHANGED <<active, settling>>
  <2>1. TypeOK'
    BY <1>1, FreshValues DEF IInv, TypeOK, BuildRequest
  <2>2. FlagFollowsCall'
    BY <1>1 DEF IInv, FlagFollowsCall, BuildRequest
  <2>3. AdmissionState'
    BY <1>1, FreshValues DEF IInv, AdmissionState, Holding, Admitting, BuildRequest
  <2>4. DispatchState'
    BY <1>1, FreshValues DEF IInv, DispatchState, Before, Admitting, BuildRequest
  <2>5. SettledState'
    BY <1>1, FreshValues DEF IInv, SettledState, Unsettled, Agreed, BuildRequest
  <2> QED
    BY <2>1, <2>2, <2>3, <2>4, <2>5 DEF IInv
<1>2. CASE /\ pc' = "returned" /\ active' = FALSE
           /\ returned' = Error("not_built", "not_dispatched")
           /\ UNCHANGED <<receipt, answer, sink>>
  <2>0. Error("not_built", "not_dispatched") \in Answers /\ ~ran
    <3>1. "not_built" \in Codes /\ "not_dispatched" \in Dispatches
      BY DEF Codes, Dispatches
    <3> QED
      BY <3>1, ErrorIsAnswer DEF BuildRequest, IInv, DispatchState, Before, Admitting
  <2>1. TypeOK'
    <3>1. UNCHANGED <<nested, admission, clocks, credentials, outcome, observations, ran>>
      BY DEF BuildRequest
    <3>2. pc' = "returned" /\ returned' \in Answers /\ UNCHANGED <<receipt, answer, sink>>
      BY <1>2, <2>0
    <3>3. active' \in BOOLEAN /\ nested' \in BOOLEAN
      BY <1>2, <3>1 DEF IInv, TypeOK
    <3>4. /\ UNCHANGED <<cancelled, expired, late, decision, profile, approved, scratch, asked,
                        dispatch_observed, terminal_observed>>
          /\ UNCHANGED <<outcome, ran>>
      BY <3>1
    <3> QED
      BY <3>2, <3>3, <3>4 DEF IInv, TypeOK
  <2>2. FlagFollowsCall'
    BY <1>2, <2>0 DEF IInv, FlagFollowsCall, BuildRequest
  <2>3. AdmissionState'
    BY <1>2, <2>0, FreshValues DEF IInv, AdmissionState, Holding, Admitting, BuildRequest
  <2>4. DispatchState'
    BY <1>2, <2>0, FreshValues DEF IInv, DispatchState, Before, Admitting, BuildRequest
  <2>5. SettledState'
    BY <1>2, <2>0, FreshValues DEF IInv, SettledState, Unsettled, Agreed, BuildRequest
  <2> QED
    BY <2>1, <2>2, <2>3, <2>4, <2>5 DEF IInv
<1> QED
  BY <1>1, <1>2 DEF BuildRequest

\* Asking the authorizer.
LEMMA AuthorizeStep ==
    ASSUME IInv, Authorize, UNCHANGED <<clocks, credentials, outcome, observations, ran>>
    PROVE  IInv'
<1>1. TypeOK'
  BY FreshValues DEF IInv, TypeOK, Authorize
<1>2. FlagFollowsCall'
  BY DEF IInv, FlagFollowsCall, Authorize
<1>3. AdmissionState'
  BY FreshValues DEF IInv, AdmissionState, Holding, Admitting, Authorize
<1>4. DispatchState'
  BY FreshValues DEF IInv, DispatchState, Before, Admitting, Authorize
<1>5. SettledState'
  BY FreshValues DEF IInv, SettledState, Unsettled, Agreed, Authorize
<1> QED
  BY <1>1, <1>2, <1>3, <1>4, <1>5 DEF IInv

\* The check before the authorizer.
LEMMA CheckEntryStep ==
    ASSUME IInv, CheckEntry, UNCHANGED <<clocks, credentials, outcome, observations, ran>>
    PROVE  IInv'
<1>1. CASE Stops /\ AuditsStop
  <2>1. Audited("not_dispatched")
    BY <1>1, AuditsStopped DEF IInv
  <2>2. /\ "not_dispatched" \in Dispatches /\ ("not_dispatched" = "not_dispatched" => ~ran)
        /\ ("not_dispatched" = "dispatched" => ran)
        /\ pc \notin {"idle", "record", "returned"}
    BY FreshValues DEF IInv, TypeOK, DispatchState, Before, Admitting, CheckEntry
  <2>3. UNCHANGED <<reentry, clocks, admission, asked, outcome, observations, ran>>
    BY <1>1 DEF CheckEntry, Panics, Before, Admitting
  <2>4. scratch' \in {"none", "live", "removed", "left"}
    BY <1>1 DEF IInv, TypeOK, CheckEntry, Panics
  <2> QED
    BY <2>1, <2>2, <2>3, <2>4, AfterAudit
<1>2. CASE ~Stops /\ Rejects("preparation_failed")
  <2>1. Audited("not_dispatched")
    BY <1>2, AuditsRejection DEF IInv
  <2>2. /\ "not_dispatched" \in Dispatches /\ ("not_dispatched" = "not_dispatched" => ~ran)
        /\ ("not_dispatched" = "dispatched" => ran)
        /\ pc \notin {"idle", "record", "returned"}
    BY FreshValues DEF IInv, TypeOK, DispatchState, Before, Admitting, CheckEntry
  <2>3. UNCHANGED <<reentry, clocks, admission, asked, outcome, observations, ran>>
    BY <1>2 DEF CheckEntry, Panics, Before, Admitting
  <2>4. scratch' \in {"none", "live", "removed", "left"}
    BY <1>2 DEF IInv, TypeOK, CheckEntry, Panics
  <2> QED
    BY <2>1, <2>2, <2>3, <2>4, AfterAudit
<1>3. CASE ~Stops /\ pc' = "authorize" /\ UNCHANGED settling
  <2>1. TypeOK'
    BY <1>3, FreshValues DEF IInv, TypeOK, CheckEntry, Stops, StopsOnBoth
  <2>2. FlagFollowsCall'
    BY <1>3 DEF IInv, FlagFollowsCall, CheckEntry, Stops, StopsOnBoth
  <2>3. AdmissionState'
    BY <1>3, FreshValues
       DEF IInv, AdmissionState, Holding, Admitting, CheckEntry, Stops, StopsOnBoth
  <2>4. DispatchState'
    BY <1>3, FreshValues DEF IInv, DispatchState, Before, Admitting, CheckEntry, Stops, StopsOnBoth
  <2>5. SettledState'
    BY <1>3, FreshValues DEF IInv, SettledState, Unsettled, Agreed, CheckEntry, Stops, StopsOnBoth
  <2> QED
    BY <2>1, <2>2, <2>3, <2>4, <2>5 DEF IInv
<1> QED
  BY <1>1, <1>2, <1>3 DEF CheckEntry

\* The check after the authorizer, and of its evidence.
LEMMA CheckDecisionStep ==
    ASSUME IInv, CheckDecision, UNCHANGED <<clocks, credentials, outcome, observations, ran>>
    PROVE  IInv'
<1>1. CASE Stops /\ AuditsStop /\ UNCHANGED approved
  <2>1. Audited("not_dispatched")
    BY <1>1, AuditsStopped DEF IInv
  <2>2. /\ "not_dispatched" \in Dispatches /\ ("not_dispatched" = "not_dispatched" => ~ran)
        /\ ("not_dispatched" = "dispatched" => ran)
        /\ pc \notin {"idle", "record", "returned"}
    BY FreshValues DEF IInv, TypeOK, DispatchState, Before, Admitting, CheckDecision
  <2>3. UNCHANGED <<reentry, clocks, admission, asked, outcome, observations, ran>>
    BY <1>1 DEF CheckDecision, Panics, Before, Admitting
  <2>4. scratch' \in {"none", "live", "removed", "left"}
    BY <1>1 DEF IInv, TypeOK, CheckDecision, Panics
  <2> QED
    BY <2>1, <2>2, <2>3, <2>4, AfterAudit
<1>2. CASE ~Stops /\ ~Matches /\ Rejects("authorization_refused") /\ UNCHANGED approved
  <2>1. Audited("not_dispatched")
    BY <1>2, AuditsRejection DEF IInv
  <2>2. /\ "not_dispatched" \in Dispatches /\ ("not_dispatched" = "not_dispatched" => ~ran)
        /\ ("not_dispatched" = "dispatched" => ran)
        /\ pc \notin {"idle", "record", "returned"}
    BY FreshValues DEF IInv, TypeOK, DispatchState, Before, Admitting, CheckDecision
  <2>3. UNCHANGED <<reentry, clocks, admission, asked, outcome, observations, ran>>
    BY <1>2 DEF CheckDecision, Panics, Before, Admitting
  <2>4. scratch' \in {"none", "live", "removed", "left"}
    BY <1>2 DEF IInv, TypeOK, CheckDecision, Panics
  <2> QED
    BY <2>1, <2>2, <2>3, <2>4, AfterAudit
<1>3. CASE ~Stops /\ Matches /\ approved' = TRUE /\ pc' = "approved" /\ UNCHANGED settling
  <2>1. TypeOK'
    BY <1>3, FreshValues DEF IInv, TypeOK, CheckDecision, Stops, StopsOnBoth, Matches
  <2>2. FlagFollowsCall'
    BY <1>3 DEF IInv, FlagFollowsCall, CheckDecision, Stops, StopsOnBoth, Matches
  <2>3. AdmissionState'
    BY <1>3, FreshValues
       DEF IInv, AdmissionState, Holding, Admitting, CheckDecision, Stops, StopsOnBoth, Matches
  <2>4. DispatchState'
    BY <1>3, FreshValues
       DEF IInv, DispatchState, Before, Admitting, CheckDecision, Stops, StopsOnBoth, Matches
  <2>5. SettledState'
    BY <1>3, FreshValues
       DEF IInv, SettledState, Unsettled, Agreed, CheckDecision, Stops, StopsOnBoth, Matches
  <2> QED
    BY <2>1, <2>2, <2>3, <2>4, <2>5 DEF IInv
<1> QED
  BY <1>1, <1>2, <1>3 DEF CheckDecision

\* The next check, and the profile's authority.
LEMMA IssueAuthorityStep ==
    ASSUME IInv, IssueAuthority, UNCHANGED <<clocks, credentials, outcome, observations, ran>>
    PROVE  IInv'
<1>1. CASE Stops /\ AuditsStop /\ UNCHANGED profile
  <2>1. Audited("not_dispatched")
    BY <1>1, AuditsStopped DEF IInv
  <2>2. /\ "not_dispatched" \in Dispatches /\ ("not_dispatched" = "not_dispatched" => ~ran)
        /\ ("not_dispatched" = "dispatched" => ran)
        /\ pc \notin {"idle", "record", "returned"}
    BY FreshValues DEF IInv, TypeOK, DispatchState, Before, Admitting, IssueAuthority
  <2>3. UNCHANGED <<reentry, clocks, admission, asked, outcome, observations, ran>>
    BY <1>1 DEF IssueAuthority, Panics, Before, Admitting
  <2>4. scratch' \in {"none", "live", "removed", "left"}
    BY <1>1 DEF IInv, TypeOK, IssueAuthority, Panics
  <2> QED
    BY <2>1, <2>2, <2>3, <2>4, AfterAudit
<1>2. CASE ~Stops /\ profile' \in BOOLEAN /\ pc' = "admitted" /\ UNCHANGED settling
  <2>1. TypeOK'
    BY <1>2, FreshValues DEF IInv, TypeOK, IssueAuthority, Stops, StopsOnBoth
  <2>2. FlagFollowsCall'
    BY <1>2 DEF IInv, FlagFollowsCall, IssueAuthority, Stops, StopsOnBoth
  <2>3. AdmissionState'
    BY <1>2, FreshValues
       DEF IInv, AdmissionState, Holding, Admitting, IssueAuthority, Stops, StopsOnBoth
  <2>4. DispatchState'
    BY <1>2, FreshValues
       DEF IInv, DispatchState, Before, Admitting, IssueAuthority, Stops, StopsOnBoth
  <2>5. SettledState'
    BY <1>2, FreshValues
       DEF IInv, SettledState, Unsettled, Agreed, IssueAuthority, Stops, StopsOnBoth
  <2> QED
    BY <2>1, <2>2, <2>3, <2>4, <2>5 DEF IInv
<1> QED
  BY <1>1, <1>2 DEF IssueAuthority

\* The last check of admission.
LEMMA CheckAuthorityStep ==
    ASSUME IInv, CheckAuthority, UNCHANGED <<clocks, credentials, outcome, observations, ran>>
    PROVE  IInv'
<1>1. CASE Stops /\ AuditsStop
  <2>1. Audited("not_dispatched")
    BY <1>1, AuditsStopped DEF IInv
  <2>2. /\ "not_dispatched" \in Dispatches /\ ("not_dispatched" = "not_dispatched" => ~ran)
        /\ ("not_dispatched" = "dispatched" => ran)
        /\ pc \notin {"idle", "record", "returned"}
    BY FreshValues DEF IInv, TypeOK, DispatchState, Before, Admitting, CheckAuthority
  <2>3. UNCHANGED <<reentry, clocks, admission, asked, outcome, observations, ran>>
    BY <1>1 DEF CheckAuthority, Panics, Before, Admitting
  <2>4. scratch' \in {"none", "live", "removed", "left"}
    BY <1>1 DEF IInv, TypeOK, CheckAuthority, Panics
  <2> QED
    BY <2>1, <2>2, <2>3, <2>4, AfterAudit
<1>2. CASE ~Stops /\ ~profile /\ Rejects("preparation_failed")
  <2>1. Audited("not_dispatched")
    BY <1>2, AuditsRejection DEF IInv
  <2>2. /\ "not_dispatched" \in Dispatches /\ ("not_dispatched" = "not_dispatched" => ~ran)
        /\ ("not_dispatched" = "dispatched" => ran)
        /\ pc \notin {"idle", "record", "returned"}
    BY FreshValues DEF IInv, TypeOK, DispatchState, Before, Admitting, CheckAuthority
  <2>3. UNCHANGED <<reentry, clocks, admission, asked, outcome, observations, ran>>
    BY <1>2 DEF CheckAuthority, Panics, Before, Admitting
  <2>4. scratch' \in {"none", "live", "removed", "left"}
    BY <1>2 DEF IInv, TypeOK, CheckAuthority, Panics
  <2> QED
    BY <2>1, <2>2, <2>3, <2>4, AfterAudit
<1>3. CASE ~Stops /\ profile /\ pc' = "resolve" /\ UNCHANGED settling
  <2>1. TypeOK'
    BY <1>3, FreshValues DEF IInv, TypeOK, CheckAuthority, Stops, StopsOnBoth
  <2>2. FlagFollowsCall'
    BY <1>3 DEF IInv, FlagFollowsCall, CheckAuthority, Stops, StopsOnBoth
  <2>3. AdmissionState'
    BY <1>3, FreshValues
       DEF IInv, AdmissionState, Holding, Admitting, CheckAuthority, Stops, StopsOnBoth
  <2>4. DispatchState'
    BY <1>3, FreshValues
       DEF IInv, DispatchState, Before, Admitting, CheckAuthority, Stops, StopsOnBoth
  <2>5. SettledState'
    BY <1>3, FreshValues
       DEF IInv, SettledState, Unsettled, Agreed, CheckAuthority, Stops, StopsOnBoth
  <2> QED
    BY <2>1, <2>2, <2>3, <2>4, <2>5 DEF IInv
<1> QED
  BY <1>1, <1>2, <1>3 DEF CheckAuthority

\* A failed preparation, before anything was dispatched.
LEMMA PreparationAudited ==
    ASSUME IInv, PreparationFails, dispatch_observed = "not_dispatched"
    PROVE  Audited(dispatch_observed)
<1>1. (IF expired THEN "timed_out" ELSE "preparation_failed") \in Codes \ {"audit_failed",
      "not_built"}
  BY DEF Codes
<1> QED
  BY <1>1, AuditsFailure DEF PreparationFails

\* A panic of the code that uses the credentials.
LEMMA PanicAudited ==
    ASSUME IInv, Panics PROVE Audited(dispatch_observed)
<1>1. "internal_failure" \in Codes \ {"audit_failed", "not_built"}
  BY DEF Codes
<1> QED
  BY <1>1, AuditsFailure DEF Panics, Internal, InternalOfDispatch

\* A failed materialization or cleanup.
LEMMA MaterializationAudited ==
    ASSUME IInv, MaterializationFails PROVE Audited(dispatch_observed)
<1>1. "timed_out" \in Codes \ {"audit_failed", "not_built"}
      /\ "materialization_failed" \in Codes \ {"audit_failed", "not_built"}
  BY DEF Codes
<1>2. CASE dispatch_observed = "not_dispatched" /\ expired
  BY <1>1, <1>2, AuditsFailure DEF MaterializationFails
<1>3. CASE ~(dispatch_observed = "not_dispatched" /\ expired)
  BY <1>1, <1>3, AuditsFailure DEF MaterializationFails, DispatchAfterCleanup, KeepsDispatch
<1> QED
  BY <1>2, <1>3

\* Before the resolver.
LEMMA ResolveStep ==
    ASSUME IInv, Resolve, UNCHANGED <<reentry, clocks, admission>>
    PROVE  IInv'
<1>1. CASE expired /\ PreparationFails /\ UNCHANGED asked
  <2>1. Audited(dispatch_observed)
    BY <1>1, PreparationAudited DEF Resolve, IInv, DispatchState, Before
  <2>2. /\ dispatch_observed \in Dispatches /\ (dispatch_observed = "not_dispatched" => ~ran)
        /\ (dispatch_observed = "dispatched" => ran)
        /\ pc \notin {"idle", "record", "returned"}
    BY FreshValues DEF IInv, TypeOK, DispatchState, Before, Admitting, Resolve
  <2>3. UNCHANGED <<reentry, clocks, admission, asked, outcome, observations, ran>>
    BY <1>1 DEF Resolve, Panics, Before, Admitting
  <2>4. scratch' \in {"none", "live", "removed", "left"}
    BY <1>1 DEF IInv, TypeOK, Resolve, Panics
  <2> QED
    BY <2>1, <2>2, <2>3, <2>4, AfterAudit
<1>2. CASE ~expired /\ asked' = TRUE /\ pc' = "resolving" /\ UNCHANGED settling
  <2>1. TypeOK'
    BY <1>2, FreshValues DEF IInv, TypeOK, Resolve
  <2>2. FlagFollowsCall'
    BY <1>2 DEF IInv, FlagFollowsCall, Resolve
  <2>3. AdmissionState'
    BY <1>2, FreshValues DEF IInv, AdmissionState, Holding, Admitting, Resolve
  <2>4. DispatchState'
    BY <1>2, FreshValues DEF IInv, DispatchState, Before, Admitting, Resolve
  <2>5. SettledState'
    BY <1>2, FreshValues DEF IInv, SettledState, Unsettled, Agreed, Resolve
  <2> QED
    BY <2>1, <2>2, <2>3, <2>4, <2>5 DEF IInv
<1> QED
  BY <1>1, <1>2 DEF Resolve

\* After the resolver.
LEMMA ResolvedStep ==
    ASSUME IInv, Resolved, UNCHANGED <<reentry, clocks, admission>>
    PROVE  IInv'
<1>1. CASE PreparationFails /\ UNCHANGED scratch
  <2>1. Audited(dispatch_observed)
    BY <1>1, PreparationAudited DEF Resolved, IInv, DispatchState, Before
  <2>2. /\ dispatch_observed \in Dispatches /\ (dispatch_observed = "not_dispatched" => ~ran)
        /\ (dispatch_observed = "dispatched" => ran)
        /\ pc \notin {"idle", "record", "returned"}
    BY FreshValues DEF IInv, TypeOK, DispatchState, Before, Admitting, Resolved
  <2>3. UNCHANGED <<reentry, clocks, admission, asked, outcome, observations, ran>>
    BY <1>1 DEF Resolved, Panics, Before, Admitting
  <2>4. scratch' \in {"none", "live", "removed", "left"}
    BY <1>1 DEF IInv, TypeOK, Resolved, Panics
  <2> QED
    BY <2>1, <2>2, <2>3, <2>4, AfterAudit
<1>2. CASE Panics
  <2>1. Audited(dispatch_observed)
    BY <1>2, PanicAudited
  <2>2. /\ dispatch_observed \in Dispatches /\ (dispatch_observed = "not_dispatched" => ~ran)
        /\ (dispatch_observed = "dispatched" => ran)
        /\ pc \notin {"idle", "record", "returned"}
    BY FreshValues DEF IInv, TypeOK, DispatchState, Before, Admitting, Resolved
  <2>3. UNCHANGED <<reentry, clocks, admission, asked, outcome, observations, ran>>
    BY <1>2 DEF Resolved, Panics, Before, Admitting
  <2>4. scratch' \in {"none", "live", "removed", "left"}
    BY <1>2 DEF IInv, TypeOK, Resolved, Panics
  <2> QED
    BY <2>1, <2>2, <2>3, <2>4, AfterAudit
<1>3. CASE ~expired /\ pc' = "materialize" /\ UNCHANGED <<scratch, settling>>
  <2>1. TypeOK'
    BY <1>3, FreshValues DEF IInv, TypeOK, Resolved
  <2>2. FlagFollowsCall'
    BY <1>3 DEF IInv, FlagFollowsCall, Resolved
  <2>3. AdmissionState'
    BY <1>3, FreshValues DEF IInv, AdmissionState, Holding, Admitting, Resolved
  <2>4. DispatchState'
    BY <1>3, FreshValues DEF IInv, DispatchState, Before, Admitting, Resolved
  <2>5. SettledState'
    BY <1>3, FreshValues DEF IInv, SettledState, Unsettled, Agreed, Resolved
  <2> QED
    BY <2>1, <2>2, <2>3, <2>4, <2>5 DEF IInv
<1> QED
  BY <1>1, <1>2, <1>3 DEF Resolved

\* Materializing the credentials.
LEMMA MaterializeStep ==
    ASSUME IInv, Materialize, UNCHANGED <<reentry, clocks, admission>>
    PROVE  IInv'
<1>1. CASE MaterializationFails /\ scratch' \in {"none", "removed", "left"}
  <2>1. Audited(dispatch_observed)
    BY <1>1, MaterializationAudited
  <2>2. /\ dispatch_observed \in Dispatches /\ (dispatch_observed = "not_dispatched" => ~ran)
        /\ (dispatch_observed = "dispatched" => ran)
        /\ pc \notin {"idle", "record", "returned"}
    BY FreshValues DEF IInv, TypeOK, DispatchState, Before, Admitting, Materialize
  <2>3. UNCHANGED <<reentry, clocks, admission, asked, outcome, observations, ran>>
    BY <1>1 DEF Materialize, Panics, Before, Admitting
  <2>4. scratch' \in {"none", "live", "removed", "left"}
    BY <1>1 DEF IInv, TypeOK, Materialize, Panics
  <2> QED
    BY <2>1, <2>2, <2>3, <2>4, AfterAudit
<1>2. CASE scratch' \in {"none", "live"} /\ pc' = "bind" /\ UNCHANGED settling
  <2>1. TypeOK'
    BY <1>2, FreshValues DEF IInv, TypeOK, Materialize
  <2>2. FlagFollowsCall'
    BY <1>2 DEF IInv, FlagFollowsCall, Materialize
  <2>3. AdmissionState'
    BY <1>2, FreshValues DEF IInv, AdmissionState, Holding, Admitting, Materialize
  <2>4. DispatchState'
    BY <1>2, FreshValues DEF IInv, DispatchState, Before, Admitting, Materialize
  <2>5. SettledState'
    BY <1>2, FreshValues DEF IInv, SettledState, Unsettled, Agreed, Materialize
  <2> QED
    BY <2>1, <2>2, <2>3, <2>4, <2>5 DEF IInv
<1> QED
  BY <1>1, <1>2 DEF Materialize

\* Binding the execution.
LEMMA BindStep == ASSUME IInv, Bind, UNCHANGED <<reentry, clocks, admission>> PROVE IInv'
<1>1. CASE Stops /\ Consumed(Error(Stopped, "not_dispatched")) /\ UNCHANGED dispatch_observed
  <2>1. TypeOK'
    BY <1>1, FreshValues, ErrorIsAnswer, TerminalIsState
       DEF IInv, TypeOK, Bind, Stopped, Consumed, Codes, Terminals
  <2>2. FlagFollowsCall'
    BY <1>1 DEF IInv, FlagFollowsCall, Bind, Stopped, Consumed
  <2>3. AdmissionState'
    BY <1>1, FreshValues DEF IInv, AdmissionState, Holding, Admitting, Bind, Stopped, Consumed
  <2>4. DispatchState'
    BY <1>1, FreshValues, ErrorIsAnswer, TerminalIsState
       DEF IInv, DispatchState, Before, Admitting, Bind, Stopped, Consumed, Codes, Terminals
  <2>5. SettledState'
    BY <1>1, FreshValues DEF IInv, SettledState, Unsettled, Agreed, Bind, Stopped, Consumed
  <2> QED
    BY <2>1, <2>2, <2>3, <2>4, <2>5 DEF IInv
<1>2. CASE ~Stops /\ Consumed(Error("not_bound", "not_dispatched")) /\ UNCHANGED dispatch_observed
  <2>1. TypeOK'
    BY <1>2, FreshValues, ErrorIsAnswer, TerminalIsState
       DEF IInv, TypeOK, Bind, Consumed, Codes, Terminals
  <2>2. FlagFollowsCall'
    BY <1>2 DEF IInv, FlagFollowsCall, Bind, Consumed
  <2>3. AdmissionState'
    BY <1>2, FreshValues DEF IInv, AdmissionState, Holding, Admitting, Bind, Consumed
  <2>4. DispatchState'
    BY <1>2, FreshValues, ErrorIsAnswer, TerminalIsState
       DEF IInv, DispatchState, Before, Admitting, Bind, Consumed, Codes, Terminals
  <2>5. SettledState'
    BY <1>2, FreshValues DEF IInv, SettledState, Unsettled, Agreed, Bind, Consumed
  <2> QED
    BY <2>1, <2>2, <2>3, <2>4, <2>5 DEF IInv
<1>3. CASE ~Stops /\ dispatch_observed' = DispatchBegun /\ pc' = "execute" /\ UNCHANGED outcome
  <2>1. TypeOK'
    BY <1>3, FreshValues, ErrorIsAnswer, TerminalIsState
       DEF IInv, TypeOK, Bind, DispatchBegun, AssumesNothing, Codes, Terminals
  <2>2. FlagFollowsCall'
    BY <1>3 DEF IInv, FlagFollowsCall, Bind, DispatchBegun, AssumesNothing
  <2>3. AdmissionState'
    BY <1>3, FreshValues
       DEF IInv, AdmissionState, Holding, Admitting, Bind, DispatchBegun, AssumesNothing
  <2>4. DispatchState'
    BY <1>3, FreshValues, ErrorIsAnswer, TerminalIsState
       DEF IInv, DispatchState, Before, Admitting, Bind, DispatchBegun, AssumesNothing, Codes,
           Terminals
  <2>5. SettledState'
    BY <1>3, FreshValues
       DEF IInv, SettledState, Unsettled, Agreed, Bind, DispatchBegun, AssumesNothing
  <2> QED
    BY <2>1, <2>2, <2>3, <2>4, <2>5 DEF IInv
<1> QED
  BY <1>1, <1>2, <1>3 DEF Bind

\* The process owner, before the command.
LEMMA ExecuteStep ==
    ASSUME IInv, Execute, UNCHANGED <<reentry, clocks, admission>>
    PROVE  IInv'
<1>1. CASE StopsOnBoth /\ Observes(Terminal(Stopped, "not_dispatched")) /\ UNCHANGED ran
  <2>1. TypeOK'
    BY <1>1, FreshValues, ErrorIsAnswer, TerminalIsState
       DEF IInv, TypeOK, Execute, Stopped, Observes, Codes, Terminals
  <2>2. FlagFollowsCall'
    BY <1>1 DEF IInv, FlagFollowsCall, Execute, Stopped, Observes
  <2>3. AdmissionState'
    BY <1>1, FreshValues DEF IInv, AdmissionState, Holding, Admitting, Execute, Stopped, Observes
  <2>4. DispatchState'
    BY <1>1, FreshValues, ErrorIsAnswer, TerminalIsState
       DEF IInv, DispatchState, Before, Admitting, Execute, Stopped, Observes, Codes, Terminals
  <2>5. SettledState'
    BY <1>1, FreshValues DEF IInv, SettledState, Unsettled, Agreed, Execute, Stopped, Observes
  <2> QED
    BY <2>1, <2>2, <2>3, <2>4, <2>5 DEF IInv
<1>2. CASE Loses("not_dispatched") /\ UNCHANGED ran
  <2>1. TypeOK'
    BY <1>2, FreshValues, ErrorIsAnswer, TerminalIsState
       DEF IInv, TypeOK, Execute, Loses, Consumed, Codes, Terminals
  <2>2. FlagFollowsCall'
    BY <1>2 DEF IInv, FlagFollowsCall, Execute, Loses, Consumed
  <2>3. AdmissionState'
    BY <1>2, FreshValues DEF IInv, AdmissionState, Holding, Admitting, Execute, Loses, Consumed
  <2>4. DispatchState'
    BY <1>2, FreshValues, ErrorIsAnswer, TerminalIsState
       DEF IInv, DispatchState, Before, Admitting, Execute, Loses, Consumed, Codes, Terminals
  <2>5. SettledState'
    BY <1>2, FreshValues DEF IInv, SettledState, Unsettled, Agreed, Execute, Loses, Consumed
  <2> QED
    BY <2>1, <2>2, <2>3, <2>4, <2>5 DEF IInv
<1>3. CASE ran' = TRUE /\ pc' = "collect" /\ UNCHANGED <<outcome, observations>>
  <2>1. TypeOK'
    BY <1>3, FreshValues, ErrorIsAnswer, TerminalIsState DEF IInv, TypeOK, Execute, Codes, Terminals
  <2>2. FlagFollowsCall'
    BY <1>3 DEF IInv, FlagFollowsCall, Execute
  <2>3. AdmissionState'
    BY <1>3, FreshValues DEF IInv, AdmissionState, Holding, Admitting, Execute
  <2>4. DispatchState'
    BY <1>3, FreshValues, ErrorIsAnswer, TerminalIsState
       DEF IInv, DispatchState, Before, Admitting, Execute, Codes, Terminals
  <2>5. SettledState'
    BY <1>3, FreshValues DEF IInv, SettledState, Unsettled, Agreed, Execute
  <2> QED
    BY <2>1, <2>2, <2>3, <2>4, <2>5 DEF IInv
<1> QED
  BY <1>1, <1>2, <1>3 DEF Execute

\* The end of the command.
LEMMA CollectedStep ==
    ASSUME IInv, Collected, UNCHANGED <<reentry, clocks, admission>>
    PROVE  IInv'
<1>1. CASE Panics /\ UNCHANGED <<outcome, observations>>
  <2>1. Audited(dispatch_observed)
    BY <1>1, PanicAudited
  <2>2. /\ dispatch_observed \in Dispatches /\ (dispatch_observed = "not_dispatched" => ~ran)
        /\ (dispatch_observed = "dispatched" => ran)
        /\ pc \notin {"idle", "record", "returned"}
    BY FreshValues DEF IInv, TypeOK, DispatchState, Before, Admitting, Collected
  <2>3. UNCHANGED <<reentry, clocks, admission, asked, outcome, observations, ran>>
    BY <1>1 DEF Collected, Panics, Before, Admitting
  <2>4. scratch' \in {"none", "live", "removed", "left"}
    BY <1>1 DEF IInv, TypeOK, Collected, Panics
  <2> QED
    BY <2>1, <2>2, <2>3, <2>4, AfterAudit
<1>2. CASE (\E t \in {"success", "failed", "runtime_failure"} : Observes(Terminal(t,
           "dispatched"))) /\ UNCHANGED <<scratch, settling>>
  <2>1. TypeOK'
    BY <1>2, FreshValues, ErrorIsAnswer, TerminalIsState
       DEF IInv, TypeOK, Collected, Observes, Codes, Terminals
  <2>2. FlagFollowsCall'
    BY <1>2 DEF IInv, FlagFollowsCall, Collected, Observes
  <2>3. AdmissionState'
    BY <1>2, FreshValues DEF IInv, AdmissionState, Holding, Admitting, Collected, Observes
  <2>4. DispatchState'
    BY <1>2, FreshValues, ErrorIsAnswer, TerminalIsState
       DEF IInv, DispatchState, Before, Admitting, Collected, Observes, Codes, Terminals
  <2>5. SettledState'
    BY <1>2, FreshValues DEF IInv, SettledState, Unsettled, Agreed, Collected, Observes
  <2> QED
    BY <2>1, <2>2, <2>3, <2>4, <2>5 DEF IInv
<1>3. CASE StopsOnBoth /\ Observes(Terminal(Stopped, "dispatched"))
           /\ UNCHANGED <<scratch, settling>>
  <2>1. TypeOK'
    BY <1>3, FreshValues, ErrorIsAnswer, TerminalIsState
       DEF IInv, TypeOK, Collected, Stopped, Observes, Codes, Terminals
  <2>2. FlagFollowsCall'
    BY <1>3 DEF IInv, FlagFollowsCall, Collected, Stopped, Observes
  <2>3. AdmissionState'
    BY <1>3, FreshValues DEF IInv, AdmissionState, Holding, Admitting, Collected, Stopped, Observes
  <2>4. DispatchState'
    BY <1>3, FreshValues, ErrorIsAnswer, TerminalIsState
       DEF IInv, DispatchState, Before, Admitting, Collected, Stopped, Observes, Codes, Terminals
  <2>5. SettledState'
    BY <1>3, FreshValues DEF IInv, SettledState, Unsettled, Agreed, Collected, Stopped, Observes
  <2> QED
    BY <2>1, <2>2, <2>3, <2>4, <2>5 DEF IInv
<1>4. CASE (\E d \in {"dispatched", "unknown_after_dispatch"} : Loses(d))
           /\ UNCHANGED <<scratch, settling>>
  <2>1. TypeOK'
    BY <1>4, FreshValues, ErrorIsAnswer, TerminalIsState
       DEF IInv, TypeOK, Collected, Loses, Consumed, Codes, Terminals
  <2>2. FlagFollowsCall'
    BY <1>4 DEF IInv, FlagFollowsCall, Collected, Loses, Consumed
  <2>3. AdmissionState'
    BY <1>4, FreshValues DEF IInv, AdmissionState, Holding, Admitting, Collected, Loses, Consumed
  <2>4. DispatchState'
    BY <1>4, FreshValues, ErrorIsAnswer, TerminalIsState
       DEF IInv, DispatchState, Before, Admitting, Collected, Loses, Consumed, Codes, Terminals
  <2>5. SettledState'
    BY <1>4, FreshValues DEF IInv, SettledState, Unsettled, Agreed, Collected, Loses, Consumed
  <2> QED
    BY <2>1, <2>2, <2>3, <2>4, <2>5 DEF IInv
<1> QED
  BY <1>1, <1>2, <1>3, <1>4 DEF Collected

\* Sealing the result.
LEMMA SealStep == ASSUME IInv, Seal, UNCHANGED <<reentry, clocks, admission>> PROVE IInv'
<1>1. CASE Panics /\ UNCHANGED <<outcome, terminal_observed>>
  <2>1. Audited(dispatch_observed)
    BY <1>1, PanicAudited
  <2>2. /\ dispatch_observed \in Dispatches /\ (dispatch_observed = "not_dispatched" => ~ran)
        /\ (dispatch_observed = "dispatched" => ran)
        /\ pc \notin {"idle", "record", "returned"}
    BY FreshValues DEF IInv, TypeOK, DispatchState, Before, Admitting, Seal
  <2>3. UNCHANGED <<reentry, clocks, admission, asked, outcome, observations, ran>>
    BY <1>1 DEF Seal, Panics, Before, Admitting
  <2>4. scratch' \in {"none", "live", "removed", "left"}
    BY <1>1 DEF IInv, TypeOK, Seal, Panics
  <2> QED
    BY <2>1, <2>2, <2>3, <2>4, AfterAudit
<1>2. CASE (\E t \in IF terminal_observed.terminal = "success"
                 THEN {terminal_observed, Terminal("failed", "dispatched")}
                 ELSE {terminal_observed} :
            terminal_observed' = t /\ Consumed(Error("settled", t.dispatch)))
         /\ UNCHANGED <<scratch, settling>>
  <2>1. TypeOK'
    BY <1>2, FreshValues, ErrorIsAnswer, TerminalIsState, TerminalFields
       DEF IInv, TypeOK, Seal, Consumed, DispatchState, Codes, Terminals
  <2>2. FlagFollowsCall'
    BY <1>2 DEF IInv, FlagFollowsCall, Seal, Consumed
  <2>3. AdmissionState'
    BY <1>2, FreshValues DEF IInv, AdmissionState, Holding, Admitting, Seal, Consumed
  <2>4. DispatchState'
    BY <1>2, FreshValues, ErrorIsAnswer, TerminalIsState, TerminalFields
       DEF IInv, DispatchState, Before, Admitting, Seal, Consumed, TypeOK, Codes, Terminals
  <2>5. SettledState'
    BY <1>2, FreshValues DEF IInv, SettledState, Unsettled, Agreed, Seal, Consumed
  <2> QED
    BY <2>1, <2>2, <2>3, <2>4, <2>5 DEF IInv
<1>3. CASE Consumed(Error("sealing_failed", terminal_observed.dispatch))
           /\ UNCHANGED <<scratch, terminal_observed, settling>>
  <2>1. TypeOK'
    BY <1>3, FreshValues, ErrorIsAnswer, TerminalIsState, TerminalFields
       DEF IInv, TypeOK, Seal, Consumed, DispatchState, Codes, Terminals
  <2>2. FlagFollowsCall'
    BY <1>3 DEF IInv, FlagFollowsCall, Seal, Consumed
  <2>3. AdmissionState'
    BY <1>3, FreshValues DEF IInv, AdmissionState, Holding, Admitting, Seal, Consumed
  <2>4. DispatchState'
    BY <1>3, FreshValues, ErrorIsAnswer, TerminalIsState, TerminalFields
       DEF IInv, DispatchState, Before, Admitting, Seal, Consumed, TypeOK, Codes, Terminals
  <2>5. SettledState'
    BY <1>3, FreshValues DEF IInv, SettledState, Unsettled, Agreed, Seal, Consumed
  <2> QED
    BY <2>1, <2>2, <2>3, <2>4, <2>5 DEF IInv
<1> QED
  BY <1>1, <1>2, <1>3 DEF Seal

\* A result that is settled after its cleanup.
LEMMA ResultAudited ==
    ASSUME IInv, pc = "cleanup", outcome.code = "settled", SettlesResult(terminal_observed),
           scratch' \in {"none", "removed"}
    PROVE  Audited(dispatch_observed)
<1> DEFINE t == terminal_observed
<1>1. t \in TerminalStates /\ t # Nothing /\ t.dispatch = dispatch_observed
      /\ t.terminal \in Terminals \ {"launch_rejected"} /\ dispatch_observed \in Dispatches /\ TypeOK
  BY DEF IInv, TypeOK, DispatchState
<1>2. OutcomeOf(t.terminal) \in Outcomes
      /\ (t.terminal = "success" => OutcomeOf(t.terminal) = "completed")
  BY <1>1 DEF OutcomeOf, Outcomes, Terminals
<1>3. "settled" \in Codes
  BY DEF Codes
<1>4. Error("settled", t.dispatch) \in Answers /\ Error("settled", t.dispatch) # NoAnswer
      /\ Error("settled", t.dispatch).code = "settled" /\ Error("settled", t.dispatch).dispatch = dispatch_observed
  BY <1>1, <1>3, ErrorIsAnswer
<1>5. Receipt(OutcomeOf(t.terminal), t) \in Receipts
      /\ Receipt(OutcomeOf(t.terminal), t).outcome = OutcomeOf(t.terminal)
      /\ Receipt(OutcomeOf(t.terminal), t).terminal = t
      /\ Receipt(OutcomeOf(t.terminal), t).authorized = approved
  BY <1>1, <1>2, ReceiptFields
<1> QED
  BY <1>1, <1>2, <1>4, <1>5 DEF SettlesResult, Audits, Audited

\* The consumer's error is reported after its cleanup.
LEMMA OutcomeAudited ==
    ASSUME IInv, pc = "cleanup", outcome.code # "settled", SettlesError(outcome),
           outcome.code \notin {"audit_failed", "not_built"}
    PROVE  Audited(dispatch_observed)
<1>1. outcome \in Answers /\ outcome # NoAnswer /\ outcome.dispatch = dispatch_observed
  BY DEF IInv, TypeOK, DispatchState
<1>2. outcome.code \in Codes \ {"audit_failed", "not_built"}
      /\ outcome = Error(outcome.code, dispatch_observed)
  BY <1>1, AnswerFields
<1> QED
  BY <1>2, AuditsFailure

\* Cleaning up, with or without success.
LEMMA CleanupStep ==
    ASSUME IInv, Cleanup, UNCHANGED <<reentry, clocks, admission>>
    PROVE  IInv'
<1>1. PICK ok \in BOOLEAN :
         /\ IF ok THEN SettlesOutcome ELSE MaterializationFails
         /\ scratch' \in IF scratch # "live" THEN {scratch}
                        ELSE IF ok THEN {"removed"} ELSE {"removed", "left"}
  BY DEF Cleanup, OutcomeStands, CleanupCounts
<1>2. pc = "cleanup" /\ UNCHANGED <<asked, outcome, observations, ran>>
  BY DEF Cleanup
<1>3. outcome.code \notin {"audit_failed", "not_built"}
  BY <1>2 DEF IInv, DispatchState
<1>4. Audited(dispatch_observed)
  <2>1. CASE ~ok
    BY <1>1, <2>1, MaterializationAudited
  <2>2. CASE ok /\ outcome.code = "settled"
    <3>1. scratch' \in {"none", "removed"}
      BY <1>1, <1>2, <2>2 DEF IInv, AdmissionState
    <3> QED
      BY <1>1, <1>2, <2>2, <3>1, ResultAudited DEF SettlesOutcome
  <2>3. CASE ok /\ outcome.code # "settled"
    BY <1>1, <1>2, <1>3, <2>3, OutcomeAudited DEF SettlesOutcome
  <2> QED
    BY <2>1, <2>2, <2>3
<1>5. /\ dispatch_observed \in Dispatches
      /\ (dispatch_observed = "not_dispatched" => ~ran) /\ (dispatch_observed = "dispatched" => ran)
      /\ scratch' \in {"none", "live", "removed", "left"}
  BY <1>1 DEF IInv, TypeOK, DispatchState
<1> QED
  BY <1>2, <1>4, <1>5, AfterAudit

-----------------------------------------------------------------------------
\* The invariant holds of every reachable state.
THEOREM Invariant == Spec => []IInv
<1>1. Init => IInv
  BY FreshValues
     DEF Init, IInv, TypeOK, FlagFollowsCall, AdmissionState, DispatchState, SettledState,
         Unsettled, Holding, Before, Admitting
<1>2. IInv /\ [Next]_vars => IInv'
  <2> SUFFICES ASSUME IInv, [Next]_vars PROVE IInv'
    OBVIOUS
  <2>1. CASE Enter
    BY <2>1, EnterStep
  <2>2. CASE CallBack
    BY <2>2, CallBackStep
  <2>3. CASE World
    BY <2>3, WorldStep
  <2>4. CASE Record
    BY <2>4, RecordStep
  <2>5. CASE Admission
    BY <2>5, BuildRequestStep, CheckEntryStep, AuthorizeStep, CheckDecisionStep,
       IssueAuthorityStep, CheckAuthorityStep
       DEF Admission
  <2>6. CASE Execution
    BY <2>6, ResolveStep, ResolvedStep, MaterializeStep, BindStep, ExecuteStep, CollectedStep,
       SealStep, CleanupStep
       DEF Execution
  <2>7. CASE UNCHANGED vars
    BY <2>7, Unchanged
  <2> QED
    BY <2>1, <2>2, <2>3, <2>4, <2>5, <2>6, <2>7 DEF Next
<1> QED
  BY <1>1, <1>2, PTL DEF Spec

\* Every variable keeps its type.
THEOREM TypeCorrect == Spec => []TypeOK
<1>1. IInv => TypeOK
  BY DEF IInv, TypeOK
<1> QED
  BY <1>1, Invariant, PTL

\* No credential is resolved, and no command runs, before the exact evidence was
\* accepted, and none for a call stopped during its admission (execute).
THEOREM AdmissionFirst == Spec => []AdmissionPrecedesCredentials
<1>1. IInv => AdmissionPrecedesCredentials
  BY DEF IInv, AdmissionPrecedesCredentials, AdmissionState
<1> QED
  BY <1>1, Invariant, PTL

\* What the receipt and the caller are told of the dispatch is true, whichever
\* callback fails or panics (audit_execution_error, execute_materialized).
THEOREM DispatchCertain == Spec => []DispatchIsCertain
<1>1. IInv => DispatchIsCertain
  BY DEF IInv, DispatchIsCertain, DispatchState, SettledState, Unsettled, Agreed, NoAnswer,
         NoReceipt, Nothing, Error, Terminal, TypeOK
<1> QED
  BY <1>1, Invariant, PTL

\* The receipt and the answer of a call agree (record_audit and its callers).
THEOREM ReceiptAgrees == Spec => []ReceiptMatchesAnswer
<1>1. IInv => ReceiptMatchesAnswer
  BY DEF IInv, ReceiptMatchesAnswer, SettledState, Agreed, Error, NoAnswer, NoReceipt, Nothing,
         Terminal, TypeOK
<1> QED
  BY <1>1, Invariant, PTL

\* A success is recorded only after cleanup and sealing.
THEOREM CleanSuccess == Spec => []SuccessIsClean
<1>1. IInv => SuccessIsClean
  BY DEF IInv, SuccessIsClean, SettledState, Unsettled, Agreed, NoReceipt, Nothing, Terminal, TypeOK
<1> QED
  BY <1>1, Invariant, PTL

\* No callback gets a second call admitted on its thread.
THEOREM NoNestedCall == Spec => []OneCallPerThread
<1>1. IInv => OneCallPerThread
  BY DEF IInv, OneCallPerThread, FlagFollowsCall
<1> QED
  BY <1>1, Invariant, PTL

-----------------------------------------------------------------------------
(* Least and greatest numbers of a set.                                    *)

\* A set of natural numbers that is not empty has a least element: the shortest
\* of the intervals from 0 to one of its elements ends with it.
LEMMA Least ==
    ASSUME NEW S \in SUBSET Nat, S # {}
    PROVE  \E x \in S : \A y \in S : x <= y
<1>1. PICK b \in S : TRUE
  OBVIOUS
<1> DEFINE Intervals == {0..y : y \in {z \in S : z <= b}}
<1>2. IsWellFoundedOn(StrictSubsetOrdering(0..b), SUBSET (0..b))
  <2>1. IsFiniteSet(0..b)
    BY FS_Interval
  <2>2. FiniteSubsetsOf(0..b) = SUBSET (0..b)
    BY <2>1, FS_FiniteSubsetsOfFinite, Zenon
  <2>3. IsWellFoundedOn(StrictSubsetOrdering(0..b), FiniteSubsetsOf(0..b))
    BY FS_StrictSubsetOrderingWellFounded, Zenon
  <2> QED
    BY <2>2, <2>3, Zenon
<1>3. Intervals \subseteq SUBSET (0..b) /\ Intervals # {}
  OBVIOUS
<1>4. PICK interval \in Intervals : \A other \in Intervals : <<other, interval>> \notin StrictSubsetOrdering(0..b)
  <2> HIDE DEF Intervals
  <2> QED
    BY <1>2, <1>3, WFMin
<1>5. PICK x \in S : x <= b /\ interval = 0..x
  BY <1>4
<1>6. ASSUME NEW y \in S, y < x
      PROVE  FALSE
  <2>1. 0..y \in Intervals /\ x \in 0..x /\ x \notin 0..y
    BY <1>5, <1>6
  <2>2. 0..y \in SUBSET (0..b) /\ 0..x \in SUBSET (0..b) /\ 0..y \subseteq 0..x
    BY <1>5, <1>6
  <2>3. <<0..y, 0..x>> \in StrictSubsetOrdering(0..b)
    BY <2>1, <2>2, Zenon DEF StrictSubsetOrdering
  <2> QED
    BY <1>4, <1>5, <2>1, <2>3
<1> QED
  BY <1>6

\* One that is bounded has a greatest.
LEMMA Greatest ==
    ASSUME NEW S \in SUBSET Nat, S # {}, NEW b \in Nat, \A y \in S : y <= b
    PROVE  \E x \in S : \A y \in S : x >= y
<1> DEFINE T == {n \in Nat : b - n \in S}
<1>1. \A y \in S : b - y \in T
  OBVIOUS
<1>2. T \in SUBSET Nat /\ T # {}
  BY <1>1
<1>3. PICK n \in T : \A m \in T : n <= m
  <2> HIDE DEF T
  <2> QED
    BY <1>2, Least
<1> QED
  BY <1>1, <1>3

-----------------------------------------------------------------------------
(* Redaction.                                                              *)

Mark == Redactor!Replacement(cr_patterns)

\* A pattern does not begin at a place of the output, whatever is read yet.
Misses(p, i) == \E j \in DOMAIN p : i + j - 1 \in DOMAIN cr_fed /\ p[j] # cr_fed[i + j - 1]

\* What is let out: the byte that was read, and no credential begins there; or the
\* replacement, inside of a credential.
LetOutAsRead ==
    \A i \in 1..Len(cr_stable) :
        \/ cr_stable[i] = cr_fed[i] /\ \A p \in cr_patterns : Misses(p, i)
        \/ cr_stable[i] = Mark /\ Redactor!InSecret(i)

RedactorTypes ==
    /\ cr_patterns \in cr_Secrets /\ Redactor!Unused(cr_patterns) # {}
    /\ cr_fed \in Seq(Redactor!Bytes) /\ cr_pending \in Seq(Redactor!Bytes)
    /\ cr_stable \in Seq(Redactor!Bytes) /\ cr_text \in Seq(Redactor!Bytes)
    /\ cr_phase \in {"open", "draining", "sealing", "sealed", "failed"}
    /\ cr_position \in Nat \ {0} /\ cr_matched \in SUBSET Nat
    /\ Len(cr_stable) <= Len(cr_fed)

\* What is pending is the rest of what was read.
PendingIsTheRest ==
    cr_phase \in {"open", "draining"} =>
        /\ Len(cr_fed) = Len(cr_stable) + Len(cr_pending)
        /\ \A i \in 1..Len(cr_pending) : cr_pending[i] = cr_fed[Len(cr_stable) + i]
        /\ cr_patterns = {} => cr_pending = <<>>

\* What is sealed is the rest too, up to the position exactly as redacted as what
\* was let out.
SealedSoFar ==
    /\ Len(cr_fed) = Len(cr_stable) + Len(cr_text)
    /\ cr_position <= Len(cr_text) + 1
    /\ cr_phase = "sealed" => cr_position = Len(cr_text) + 1
    /\ \A i \in cr_position..Len(cr_text) : cr_text[i] = cr_fed[Len(cr_stable) + i]
    /\ \A i \in 1..cr_position - 1 :
        \/ /\ cr_text[i] = cr_fed[Len(cr_stable) + i]
           /\ \A p \in cr_patterns : ~Redactor!Occurs(p, cr_fed, Len(cr_stable) + i)
        \/ cr_text[i] = Mark /\ Redactor!InSecret(Len(cr_stable) + i)

\* The last segment is the artifact; a match that touches it covers a byte of it.
SegmentsAreMarked ==
    /\ cr_offsets \in Seq(Nat) /\ Len(cr_offsets) > 0 /\ cr_offsets[1] = 0
    /\ cr_offsets[Len(cr_offsets)] <= Len(cr_text)
    /\ Redactor!Withheld =>
        \E i \in Len(cr_stable) + cr_offsets[Len(cr_offsets)] + 1..Len(cr_fed) : Redactor!InSecret(i)

RedactorInv ==
    /\ RedactorTypes /\ LetOutAsRead /\ PendingIsTheRest
    /\ cr_phase \in {"sealing", "sealed"} => SealedSoFar /\ SegmentsAreMarked

\* Two sequences one after the other are as long as both.
LEMMA BothInOrder ==
    ASSUME NEW S, NEW a \in Seq(S), NEW b \in Seq(S)
    PROVE  a \o b \in Seq(S) /\ Len(a \o b) = Len(a) + Len(b)
OBVIOUS

\* What is assumed of bytes and secrets.
LEMMA RedactorAssumed ==
    /\ cr_MaxByte \in Nat /\ cr_Preferred \in Redactor!Bytes
    /\ \A secrets \in cr_Secrets : \A p \in secrets : p \in Seq(Redactor!Bytes) /\ p # <<>>
BY ComponentAssumption DEF Redactor!RedactorAssumption

\* A pattern occurs where it agrees with every byte.
LEMMA OccursBytewise ==
    ASSUME NEW p \in Seq(Redactor!Bytes), p # <<>>, NEW s \in Seq(Redactor!Bytes), NEW at \in Nat \ {0}
    PROVE  Redactor!Occurs(p, s, at) <=>
             at + Len(p) - 1 <= Len(s) /\ \A j \in 1..Len(p) : s[at + j - 1] = p[j]
<1>1. CASE at + Len(p) - 1 <= Len(s)
  <2> DEFINE slice == Redactor!Slice(s, at, Len(p))
  <2>1. slice = [i \in 1..Len(p) |-> s[at + i - 1]]
    BY <1>1 DEF Redactor!Slice
  <2>2. p = [i \in 1..Len(p) |-> p[i]]
    OBVIOUS
  <2> QED
    BY <1>1, <2>1, <2>2 DEF Redactor!Occurs
<1> QED
  BY <1>1 DEF Redactor!Occurs

\* The replacement is a byte, and no pattern has it.
LEMMA MarkIsUnused ==
    ASSUME NEW secrets \in cr_Secrets, Redactor!Unused(secrets) # {}
    PROVE  /\ Redactor!Replacement(secrets) \in Redactor!Bytes
           /\ \A p \in secrets : \A j \in 1..Len(p) : p[j] # Redactor!Replacement(secrets)
<1> DEFINE U == Redactor!Unused(secrets)
<1>1. U \in SUBSET Nat /\ U # {}
  BY RedactorAssumed DEF Redactor!Unused
<1>2. \E x \in U : \A y \in U : x <= y
  <2> HIDE DEF U
  <2> QED
    BY <1>1, Least
<1>3. Redactor!Min(U) \in U
  BY <1>2 DEF Redactor!Min
<1>4. Redactor!Replacement(secrets) \notin Redactor!Contained(secrets)
  BY <1>3 DEF Redactor!Unused, Redactor!Replacement, Redactor!FirstUnused
<1>5. ASSUME NEW p \in secrets, NEW j \in 1..Len(p), p[j] = Redactor!Replacement(secrets)
      PROVE  FALSE
  BY <1>4, <1>5, RedactorAssumed DEF Redactor!Contained
<1>6. Redactor!Replacement(secrets) \in Redactor!Bytes
  <2>1. Redactor!Min(U) \in Nat /\ cr_Preferred \in Nat /\ cr_MaxByte \in Nat
    BY <1>1, <1>3, RedactorAssumed DEF Redactor!Bytes
  <2>2. (cr_Preferred + Redactor!Min(U)) % (cr_MaxByte + 1) \in 0..cr_MaxByte
    BY <2>1
  <2> QED
    BY <2>2 DEF Redactor!Replacement, Redactor!FirstUnused, Redactor!Bytes
<1> QED
  BY <1>5, <1>6

\* A place that misses a pattern goes on missing it, and the pattern does not
\* occur there.
LEMMA MissingStays ==
    ASSUME RedactorTypes, NEW more \in Seq(Redactor!Bytes), cr_fed' = cr_fed \o more, cr_patterns' = cr_patterns
    PROVE  /\ \A p \in cr_patterns, i \in Nat \ {0} :
                /\ Misses(p, i) => Misses(p, i)'
                /\ Misses(p, i) => ~Redactor!Occurs(p, cr_fed, i)
           /\ \A i \in 1..Len(cr_fed) : cr_fed'[i] = cr_fed[i] /\ (Redactor!InSecret(i) => Redactor!InSecret(i)')
           /\ cr_fed' \in Seq(Redactor!Bytes) /\ Len(cr_fed') = Len(cr_fed) + Len(more)
<1>1. cr_fed \in Seq(Redactor!Bytes) /\ cr_fed' \in Seq(Redactor!Bytes) /\ Len(cr_fed') = Len(cr_fed) + Len(more)
  BY DEF RedactorTypes
<1>2. \A i \in 1..Len(cr_fed) : cr_fed'[i] = cr_fed[i]
  BY <1>1
<1>3. \A p \in cr_patterns : p \in Seq(Redactor!Bytes) /\ p # <<>> /\ DOMAIN p = 1..Len(p) /\ Len(p) \in Nat \ {0}
  BY RedactorAssumed DEF RedactorTypes
<1>4. ASSUME NEW p \in cr_patterns, NEW i \in Nat \ {0}, Misses(p, i)
      PROVE  Misses(p, i)' /\ ~Redactor!Occurs(p, cr_fed, i)
  <2>1. PICK j \in 1..Len(p) : i + j - 1 \in 1..Len(cr_fed) /\ p[j] # cr_fed[i + j - 1]
    <3>1. DOMAIN p = 1..Len(p) /\ DOMAIN cr_fed = 1..Len(cr_fed)
      BY <1>1, <1>3
    <3> QED
      BY <1>4, <3>1 DEF Misses
  <2>2. Misses(p, i)'
    <3>1. i + j - 1 \in DOMAIN cr_fed' /\ j \in DOMAIN p
      BY <1>1, <1>3, <2>1
    <3>2. p[j] # cr_fed'[i + j - 1]
      BY <1>2, <2>1
    <3> QED
      BY <3>1, <3>2 DEF Misses
  <2> QED
    BY <1>1, <1>3, <2>1, <2>2, OccursBytewise
<1>5. ASSUME NEW i \in 1..Len(cr_fed), Redactor!InSecret(i)
      PROVE  Redactor!InSecret(i)'
  <2>1. PICK p \in cr_patterns, at \in 1..i : at + Len(p) > i /\ Redactor!Occurs(p, cr_fed, at)
    BY <1>5 DEF Redactor!InSecret
  <2>2. at + Len(p) - 1 <= Len(cr_fed) /\ \A j \in 1..Len(p) : cr_fed[at + j - 1] = p[j]
    BY <1>1, <1>3, <2>1, OccursBytewise
  <2>3. \A j \in 1..Len(p) : cr_fed'[at + j - 1] = p[j]
    BY <1>1, <1>2, <1>3, <2>2
  <2>4. Redactor!Occurs(p, cr_fed', at)
    <3>1. at \in Nat \ {0} /\ p \in Seq(Redactor!Bytes) /\ p # <<>>
      BY <1>3
    <3>2. at + Len(p) - 1 <= Len(cr_fed')
      BY <1>1, <1>3, <2>2
    <3> QED
      BY <1>1, <2>3, <3>1, <3>2, OccursBytewise
  <2> QED
    BY <2>1, <2>4 DEF Redactor!InSecret
<1> QED
  BY <1>1, <1>2, <1>4, <1>5

\* The longest match at a place of a text: where it occurs, and how far it goes.
LEMMA LongestOccurs ==
    ASSUME RedactorTypes, NEW s \in Seq(Redactor!Bytes), NEW at \in Nat \ {0}, Redactor!LongestAt(s, at) # {}
    PROVE  \E p \in cr_patterns :
              Redactor!Occurs(p, s, at) /\ Redactor!Exact(s, at) = Len(p) /\ Len(p) \in Nat \ {0}
                /\ at + Len(p) - 1 <= Len(s)
<1> DEFINE L == Redactor!LongestAt(s, at)
<1>1. \A p \in cr_patterns : p \in Seq(Redactor!Bytes) /\ p # <<>> /\ Len(p) \in Nat \ {0}
  BY RedactorAssumed DEF RedactorTypes
<1>2. L = {Len(p) : p \in {q \in cr_patterns : Redactor!Occurs(q, s, at)}}
  BY DEF Redactor!LongestAt, Redactor!Lengths
<1>3. L \in SUBSET Nat /\ L # {} /\ \A n \in L : n <= Len(s)
  BY <1>1, <1>2 DEF Redactor!Occurs
<1>4. \E n \in L : \A m \in L : n >= m
  <2>1. Len(s) \in Nat
    OBVIOUS
  <2> HIDE DEF L
  <2> QED
    BY <1>3, <2>1, Greatest
<1>5. Redactor!Exact(s, at) \in L
  BY <1>4 DEF Redactor!Exact, Redactor!Max
<1>6. PICK p \in cr_patterns : Redactor!Occurs(p, s, at) /\ Redactor!Exact(s, at) = Len(p)
  BY <1>2, <1>5
<1> QED
  BY <1>1, <1>6 DEF Redactor!Occurs

\* A chunk is a sequence of bytes.
LEMMA ChunksAreBytes ==
    \A chunk \in Redactor!Chunks : chunk \in Seq(Redactor!Bytes)
BY RedactorAssumed DEF Redactor!Chunks

\* Pushing a chunk preserves the invariant.
LEMMA PushStep ==
    ASSUME RedactorInv, NEW chunk \in Redactor!Chunks, Redactor!Push(chunk)
    PROVE  RedactorInv'
<1> DEFINE B == Redactor!Bytes
<1> USE DEF RedactorInv
<1>1. chunk \in Seq(B) /\ cr_fed' = cr_fed \o chunk /\ cr_patterns' = cr_patterns
  BY ChunksAreBytes DEF Redactor!Push
<1>2. /\ \A p \in cr_patterns, i \in Nat \ {0} : Misses(p, i) => Misses(p, i)'
      /\ \A i \in 1..Len(cr_fed) : cr_fed'[i] = cr_fed[i] /\ (Redactor!InSecret(i) => Redactor!InSecret(i)')
      /\ cr_fed' \in Seq(B) /\ Len(cr_fed') = Len(cr_fed) + Len(chunk)
  BY <1>1, MissingStays
<1>3. Mark' = Mark /\ cr_phase = "open" /\ cr_phase' \in {"open", "draining"}
  BY <1>1 DEF Mark, Redactor!Push, Redactor!Replacement, Redactor!FirstUnused
<1>4. /\ Len(cr_fed) = Len(cr_stable) + Len(cr_pending)
      /\ \A i \in 1..Len(cr_pending) : cr_pending[i] = cr_fed[Len(cr_stable) + i]
      /\ cr_patterns = {} => cr_pending = <<>>
  BY <1>3 DEF PendingIsTheRest
<1>5. CASE cr_patterns = {}
  <2>1. cr_stable' = cr_stable \o chunk /\ cr_pending' = <<>> /\ cr_pending = <<>>
    BY <1>4, <1>5 DEF Redactor!Push
  <2>2. RedactorTypes'
    BY <1>1, <1>2, <1>3, <1>4, <2>1 DEF RedactorTypes, Redactor!Push, Redactor!Sealing
  <2>3. ASSUME NEW i \in 1..Len(cr_stable')
        PROVE  cr_stable'[i] = cr_fed'[i] \/ (cr_stable'[i] = Mark' /\ Redactor!InSecret(i)')
    <3>1. CASE i \in 1..Len(cr_stable)
      BY <1>1, <1>2, <1>3, <1>4, <1>5, <2>1, <3>1 DEF LetOutAsRead, RedactorTypes
    <3>2. CASE i \notin 1..Len(cr_stable)
      BY <1>1, <1>2, <1>4, <2>1, <3>2 DEF RedactorTypes
    <3> QED
      BY <3>1, <3>2
  <2>4. LetOutAsRead'
    BY <1>1, <1>5, <2>3 DEF LetOutAsRead
  <2> QED
    BY <1>1, <1>2, <1>3, <1>4, <2>1, <2>2, <2>4 DEF PendingIsTheRest, RedactorTypes
<1>6. CASE cr_patterns # {}
  <2>1. cr_stable' = cr_stable /\ cr_pending' = cr_pending \o chunk
    BY <1>6 DEF Redactor!Push
  <2>2. RedactorTypes'
    BY <1>1, <1>2, <1>3, <1>4, <2>1 DEF RedactorTypes, Redactor!Push, Redactor!Sealing
  <2>3. LetOutAsRead'
    BY <1>1, <1>2, <1>3, <2>1 DEF LetOutAsRead, RedactorTypes
  <2>4. \A i \in 1..Len(cr_pending') : cr_pending'[i] = cr_fed'[Len(cr_stable) + i]
    <3> TAKE i \in 1..Len(cr_pending')
    <3>1. CASE i \in 1..Len(cr_pending)
      BY <1>1, <1>2, <1>4, <2>1, <3>1 DEF RedactorTypes
    <3>2. CASE i \notin 1..Len(cr_pending)
      <4> DEFINE k == i - Len(cr_pending)
      <4>1. cr_pending \in Seq(B) /\ cr_stable \in Seq(B) /\ cr_fed \in Seq(B)
        BY DEF RedactorTypes
      <4>2. k \in 1..Len(chunk) /\ i = Len(cr_pending) + k
        BY <1>1, <2>1, <3>2, <4>1
      <4>3. cr_pending'[i] = chunk[k]
        BY <1>1, <2>1, <4>1, <4>2
      <4>4. cr_fed'[Len(cr_fed) + k] = chunk[k]
        BY <1>1, <4>1, <4>2
      <4> QED
        BY <1>4, <4>1, <4>2, <4>3, <4>4
    <3> QED
      BY <3>1, <3>2
  <2>5. Len(cr_fed') = Len(cr_stable') + Len(cr_pending')
    BY <1>1, <1>2, <1>4, <2>1 DEF RedactorTypes
  <2> QED
    BY <1>1, <1>3, <1>6, <2>1, <2>2, <2>3, <2>4, <2>5 DEF PendingIsTheRest
<1> QED
  BY <1>5, <1>6

\* Letting out a piece of what is pending.
LEMMA LetOutStep ==
    ASSUME RedactorInv, cr_phase = "draining",
           NEW bytes \in Seq(Redactor!Bytes), NEW n \in 1..Len(cr_pending), Len(bytes) = n,
           Redactor!LetOut(bytes, n),
           \A k \in 1..n :
               \/ bytes[k] = cr_pending[k] /\ \A p \in cr_patterns : Misses(p, Len(cr_stable) + k)
               \/ bytes[k] = Mark /\ Redactor!InSecret(Len(cr_stable) + k)
    PROVE  RedactorInv'
<1> DEFINE L == Len(cr_stable)
<1>0. UNCHANGED <<cr_patterns, cr_fed, cr_phase, cr_text, cr_offsets, cr_position, cr_matched>>
  BY DEF Redactor!LetOut, Redactor!Sealing
<1>1. /\ cr_stable' = cr_stable \o bytes
      /\ cr_pending' = SubSeq(cr_pending, n + 1, Len(cr_pending))
  BY DEF Redactor!LetOut, Redactor!Slice, RedactorInv, RedactorTypes
<1>2. /\ Len(cr_fed) = L + Len(cr_pending)
      /\ \A i \in 1..Len(cr_pending) : cr_pending[i] = cr_fed[L + i]
      /\ cr_patterns = {} => cr_pending = <<>>
  BY DEF PendingIsTheRest, RedactorInv
<1>3. cr_stable \in Seq(Redactor!Bytes) /\ cr_pending \in Seq(Redactor!Bytes) /\ cr_fed \in Seq(Redactor!Bytes)
  BY DEF RedactorInv, RedactorTypes
<1>4. /\ cr_stable' \in Seq(Redactor!Bytes) /\ cr_pending' \in Seq(Redactor!Bytes)
      /\ Len(cr_stable') = L + n /\ Len(cr_pending') = Len(cr_pending) - n
  <2>1. cr_stable' \in Seq(Redactor!Bytes) /\ Len(cr_stable') = L + n
    <3>1. cr_stable \o bytes \in Seq(Redactor!Bytes) /\ Len(cr_stable \o bytes) = L + Len(bytes)
      BY <1>3, BothInOrder, Zenon
    <3> QED
      BY <1>1, <3>1
  <2>2. n + 1 \in 1..Len(cr_pending) + 1 /\ Len(cr_pending) \in Nat
    BY <1>3
  <2>3. cr_pending' \in Seq(Redactor!Bytes) /\ Len(cr_pending') = Len(cr_pending) - n
    BY <1>1, <1>3, <2>2, SubSeqProperties
  <2> QED
    BY <2>1, <2>3
<1>5. Mark' = Mark /\ \A i : Redactor!InSecret(i)' = Redactor!InSecret(i)
  BY <1>0 DEF Mark, Redactor!Replacement, Redactor!FirstUnused, Redactor!InSecret
<1>6. RedactorTypes'
  BY <1>0, <1>2, <1>3, <1>4 DEF RedactorInv, RedactorTypes
<1>7. LetOutAsRead'
  <2> SUFFICES ASSUME NEW i \in 1..L + n
               PROVE  \/ cr_stable'[i] = cr_fed[i] /\ \A p \in cr_patterns : Misses(p, i)
                      \/ cr_stable'[i] = Mark /\ Redactor!InSecret(i)
    BY <1>0, <1>4, <1>5 DEF LetOutAsRead, Misses
  <2>1. CASE i \in 1..L
    BY <1>1, <1>3, <2>1 DEF RedactorInv, LetOutAsRead
  <2>2. CASE i \notin 1..L
    <3> DEFINE k == i - L
    <3>1. k \in 1..n /\ i = L + k /\ cr_stable'[i] = bytes[k] /\ k \in 1..Len(cr_pending)
      BY <1>1, <1>3, <2>2
    <3>2. \/ bytes[k] = cr_pending[k] /\ \A p \in cr_patterns : Misses(p, L + k)
          \/ bytes[k] = Mark /\ Redactor!InSecret(L + k)
      BY <3>1
    <3> QED
      BY <1>2, <3>1, <3>2
  <2> QED
    BY <2>1, <2>2
<1>8. PendingIsTheRest'
  <2>1. \A i \in 1..Len(cr_pending) - n : cr_pending'[i] = cr_fed[L + n + i]
    <3> TAKE i \in 1..Len(cr_pending) - n
    <3>1. cr_pending'[i] = cr_pending[n + i] /\ n + i \in 1..Len(cr_pending)
      BY <1>1, <1>3
    <3> QED
      BY <1>2, <1>3, <3>1
  <2> QED
    BY <1>0, <1>2, <1>3, <1>4, <2>1 DEF PendingIsTheRest
<1> QED
  BY <1>0, <1>6, <1>7, <1>8 DEF RedactorInv

\* Letting out a byte that begins no secret preserves the invariant.
LEMMA EmitStep ==
    ASSUME RedactorInv, Redactor!DrainEmitOne
    PROVE  RedactorInv'
<1> DEFINE L == Len(cr_stable)
<1>1. cr_pending \in Seq(Redactor!Bytes) /\ cr_fed \in Seq(Redactor!Bytes) /\ cr_stable \in Seq(Redactor!Bytes)
  BY DEF RedactorInv, RedactorTypes
<1>2. /\ Len(cr_fed) = L + Len(cr_pending)
      /\ \A i \in 1..Len(cr_pending) : cr_pending[i] = cr_fed[L + i]
  BY DEF RedactorInv, PendingIsTheRest, Redactor!DrainEmitOne
<1>3. cr_phase = "draining" /\ cr_pending # <<>> /\ 1 \in 1..Len(cr_pending)
  BY <1>1 DEF Redactor!DrainEmitOne
<1>4. ASSUME NEW p \in cr_patterns
      PROVE  Misses(p, L + 1)
  <2>1. p \in Seq(Redactor!Bytes) /\ p # <<>> /\ DOMAIN p = 1..Len(p)
    BY RedactorAssumed DEF RedactorInv, RedactorTypes
  <2>2. \E j \in 1..Len(p) : j <= Len(cr_pending) /\ p[j] # cr_pending[j]
    <3>1. CASE Len(p) > Len(cr_pending)
      <4>1. Redactor!Slice(p, 1, Len(cr_pending)) # cr_pending
        BY <3>1 DEF Redactor!DrainEmitOne, Redactor!NeedsMore
      <4>2. Redactor!Slice(p, 1, Len(cr_pending)) = [i \in 1..Len(cr_pending) |-> p[i]]
        BY <1>1, <2>1, <3>1 DEF Redactor!Slice
      <4>3. cr_pending = [i \in 1..Len(cr_pending) |-> cr_pending[i]]
        BY <1>1
      <4>4. PICK i \in 1..Len(cr_pending) : p[i] # cr_pending[i]
        BY <4>1, <4>2, <4>3
      <4> QED
        BY <1>1, <2>1, <3>1, <4>4
    <3>2. CASE Len(p) <= Len(cr_pending)
      <4>1. ~Redactor!Occurs(p, cr_pending, 1)
        BY DEF Redactor!DrainEmitOne, Redactor!LongestAt, Redactor!Lengths
      <4>2. PICK j \in 1..Len(p) : cr_pending[1 + j - 1] # p[j]
        <5>1. 1 + Len(p) - 1 <= Len(cr_pending) /\ 1 \in Nat \ {0}
          BY <2>1, <3>2
        <5> QED
          BY <1>1, <2>1, <4>1, <5>1, OccursBytewise
      <4> QED
        BY <1>1, <2>1, <3>2, <4>2
    <3> QED
      BY <1>1, <2>1, <3>1, <3>2
  <2>3. PICK j \in 1..Len(p) : j <= Len(cr_pending) /\ p[j] # cr_pending[j]
    BY <2>2
  <2>4. L + 1 + j - 1 \in DOMAIN cr_fed /\ p[j] # cr_fed[L + 1 + j - 1]
    BY <1>1, <1>2, <2>3
  <2> QED
    BY <2>1, <2>4 DEF Misses
<1>5. Redactor!LetOut(<<Head(cr_pending)>>, 1) /\ <<Head(cr_pending)>> \in Seq(Redactor!Bytes)
        /\ Len(<<Head(cr_pending)>>) = 1 /\ <<Head(cr_pending)>>[1] = cr_pending[1]
  BY <1>1, <1>3 DEF Redactor!DrainEmitOne
<1>6. \A k \in 1..1 : <<Head(cr_pending)>>[k] = cr_pending[k] /\ \A p \in cr_patterns : Misses(p, L + k)
  BY <1>4, <1>5
<1> QED
  BY <1>3, <1>5, <1>6, LetOutStep

\* Replacing a secret preserves the invariant.
LEMMA RedactStep ==
    ASSUME RedactorInv, Redactor!DrainRedact
    PROVE  RedactorInv'
<1> DEFINE L == Len(cr_stable)
           n == Redactor!Exact(cr_pending, 1)
<1>1. /\ cr_pending \in Seq(Redactor!Bytes) /\ cr_fed \in Seq(Redactor!Bytes) /\ cr_stable \in Seq(Redactor!Bytes)
      /\ RedactorTypes
  BY DEF RedactorInv, RedactorTypes
<1>2. /\ Len(cr_fed) = L + Len(cr_pending)
      /\ \A i \in 1..Len(cr_pending) : cr_pending[i] = cr_fed[L + i]
  BY DEF RedactorInv, PendingIsTheRest, Redactor!DrainRedact
<1>3. PICK p \in cr_patterns :
         /\ Redactor!Occurs(p, cr_pending, 1) /\ n = Len(p) /\ Len(p) \in Nat \ {0}
         /\ 1 + Len(p) - 1 <= Len(cr_pending)
  BY <1>1, LongestOccurs DEF Redactor!DrainRedact
<1>4. p \in Seq(Redactor!Bytes) /\ p # <<>>
  BY <1>1, RedactorAssumed DEF RedactorTypes
<1>5. Redactor!Occurs(p, cr_fed, L + 1)
  <2>1. \A j \in 1..Len(p) : cr_pending[1 + j - 1] = p[j]
    BY <1>1, <1>3, <1>4, OccursBytewise
  <2>2. \A j \in 1..Len(p) : cr_fed[L + 1 + j - 1] = p[j]
    <3> TAKE j \in 1..Len(p)
    <3>1. j \in 1..Len(cr_pending) /\ 1 + j - 1 = j /\ L + 1 + j - 1 = L + j
      BY <1>1, <1>3
    <3> QED
      BY <1>2, <2>1, <3>1
  <2>3. L + 1 + Len(p) - 1 <= Len(cr_fed) /\ L + 1 \in Nat \ {0}
    BY <1>1, <1>2, <1>3
  <2> QED
    BY <1>1, <1>4, <2>2, <2>3, OccursBytewise
<1>6. \A k \in 1..n : Redactor!InSecret(L + k)
  BY <1>1, <1>3, <1>5 DEF Redactor!InSecret
<1>7. Redactor!Marks(n) \in Seq(Redactor!Bytes) /\ Len(Redactor!Marks(n)) = n
        /\ \A k \in 1..n : Redactor!Marks(n)[k] = Mark
  <2>1. n \in Nat
    BY <1>3
  <2>2. Mark \in Redactor!Bytes
    BY <1>1, MarkIsUnused DEF Mark, RedactorTypes
  <2>3. Redactor!Marks(n) = [i \in 1..n |-> Mark]
    BY DEF Redactor!Marks, Mark
  <2> HIDE DEF n
  <2> QED
    BY <2>1, <2>2, <2>3
<1>8. cr_phase = "draining" /\ Redactor!LetOut(Redactor!Marks(n), n) /\ n \in 1..Len(cr_pending)
  BY <1>1, <1>3 DEF Redactor!DrainRedact
<1> HIDE DEF n
<1> QED
  BY <1>6, <1>7, <1>8, LetOutStep

\* Steps that leave what was read and let out alone.
LEMMA WaitStep ==
    ASSUME RedactorInv, Redactor!DrainWait \/ Redactor!ExceedLimit \/ Redactor!SealEnds \/ UNCHANGED Redactor!vars
    PROVE  RedactorInv'
<1>1. UNCHANGED <<cr_patterns, cr_fed, cr_pending, cr_stable, cr_text, cr_offsets, cr_position, cr_matched>>
  BY DEF Redactor!DrainWait, Redactor!ExceedLimit, Redactor!SealEnds, Redactor!vars, Redactor!Sealing
<1>2. /\ cr_phase' \in {"open", "draining", "sealing", "sealed", "failed"}
      /\ cr_phase' \in {"open", "draining"} => cr_phase \in {"open", "draining"}
      /\ cr_phase' \in {"sealing", "sealed"} => cr_phase \in {"sealing", "sealed"}
      /\ cr_phase' = "sealed" => cr_phase = "sealed" \/ cr_position > Len(cr_text)
  BY DEF Redactor!DrainWait, Redactor!ExceedLimit, Redactor!SealEnds, Redactor!vars, RedactorInv, RedactorTypes
<1>3. RedactorTypes'
  BY <1>1, <1>2 DEF RedactorTypes, RedactorInv
<1>4. Mark' = Mark /\ \A i : /\ Redactor!InSecret(i)' = Redactor!InSecret(i)
                             /\ \A p : Misses(p, i)' = Misses(p, i)
  BY <1>1 DEF Mark, Redactor!Replacement, Redactor!FirstUnused, Redactor!InSecret, Misses
<1>5. LetOutAsRead'
  BY <1>1, <1>4 DEF LetOutAsRead, RedactorInv
<1>6. PendingIsTheRest'
  BY <1>1, <1>2 DEF PendingIsTheRest, RedactorInv
<1>7. cr_phase' \in {"sealing", "sealed"} => SealedSoFar' /\ SegmentsAreMarked'
  <2> SUFFICES ASSUME cr_phase' \in {"sealing", "sealed"}
               PROVE  SealedSoFar' /\ SegmentsAreMarked'
    OBVIOUS
  <2>1. SealedSoFar /\ SegmentsAreMarked
    BY <1>2 DEF RedactorInv
  <2>2. cr_phase' = "sealed" => cr_position = Len(cr_text) + 1
    BY <1>2, <2>1 DEF SealedSoFar, RedactorInv, RedactorTypes
  <2>3. SealedSoFar'
    BY <1>1, <1>4, <2>1, <2>2 DEF SealedSoFar
  <2>4. SegmentsAreMarked'
    BY <1>1, <1>4, <2>1 DEF SegmentsAreMarked, Redactor!Withheld
  <2> QED
    BY <2>3, <2>4
<1> QED
  BY <1>3, <1>5, <1>6, <1>7 DEF RedactorInv

\* The segments as one text, which is the rest of what was read.
LEMMA SealsStep ==
    ASSUME RedactorInv, NEW whole \in Seq(Redactor!Bytes), NEW starts \in Seq(Nat), Len(starts) > 0,
           starts[1] = 0, starts[Len(starts)] <= Len(whole), Redactor!Seals(whole, starts),
           NEW more \in Seq(Redactor!Bytes), cr_fed' = cr_fed \o more,
           UNCHANGED <<cr_patterns, cr_stable>>, cr_pending' \in Seq(Redactor!Bytes),
           Len(cr_fed') = Len(cr_stable) + Len(whole),
           \A i \in 1..Len(whole) : whole[i] = cr_fed'[Len(cr_stable) + i]
    PROVE  RedactorInv'
<1>1. RedactorTypes /\ LetOutAsRead
  BY DEF RedactorInv
<1>2. /\ cr_phase' = "sealing" /\ cr_text' = whole /\ cr_offsets' = starts
      /\ cr_position' = 1 /\ cr_matched' = {}
  BY DEF Redactor!Seals
<1>3. /\ \A p \in cr_patterns, i \in Nat \ {0} : Misses(p, i) => Misses(p, i)'
      /\ \A i \in 1..Len(cr_fed) : cr_fed'[i] = cr_fed[i] /\ (Redactor!InSecret(i) => Redactor!InSecret(i)')
      /\ cr_fed' \in Seq(Redactor!Bytes) /\ Len(cr_fed') = Len(cr_fed) + Len(more)
  BY <1>1, MissingStays
<1>4. Mark' = Mark
  BY DEF Mark, Redactor!Replacement, Redactor!FirstUnused
<1>5. RedactorTypes'
  BY <1>1, <1>2, <1>3 DEF RedactorTypes
<1>6. LetOutAsRead'
  BY <1>1, <1>3, <1>4 DEF LetOutAsRead, RedactorTypes
<1>7. SealedSoFar'
  <2>1. cr_stable' = cr_stable /\ Len(whole) \in Nat /\ 1..1 - 1 = {}
    OBVIOUS
  <2>2. /\ Len(cr_fed') = Len(cr_stable') + Len(cr_text')
        /\ cr_position' <= Len(cr_text') + 1 /\ cr_phase' # "sealed"
    BY <1>2, <2>1
  <2>3. \A i \in cr_position'..Len(cr_text') : cr_text'[i] = cr_fed'[Len(cr_stable') + i]
    BY <1>2, <2>1
  <2>4. 1..cr_position' - 1 = {}
    BY <1>2, <2>1
  <2> QED
    BY <2>2, <2>3, <2>4 DEF SealedSoFar
<1>8. SegmentsAreMarked'
  BY <1>2 DEF SegmentsAreMarked, Redactor!Withheld
<1> QED
  BY <1>2, <1>5, <1>6, <1>7, <1>8 DEF RedactorInv, PendingIsTheRest

\* The end of a terminal preserves the invariant.
LEMMA SealPtyStep ==
    ASSUME RedactorInv, NEW artifact \in Redactor!Chunks, Redactor!SealPty(artifact)
    PROVE  RedactorInv'
<1> DEFINE whole == cr_pending \o artifact
           starts == <<0, Len(cr_pending)>>
<1>1. /\ artifact \in Seq(Redactor!Bytes) /\ cr_pending \in Seq(Redactor!Bytes) /\ cr_fed \in Seq(Redactor!Bytes)
      /\ cr_stable \in Seq(Redactor!Bytes)
  BY ChunksAreBytes DEF RedactorInv, RedactorTypes
<1>2. /\ Len(cr_fed) = Len(cr_stable) + Len(cr_pending)
      /\ \A i \in 1..Len(cr_pending) : cr_pending[i] = cr_fed[Len(cr_stable) + i]
  BY DEF RedactorInv, PendingIsTheRest, Redactor!SealPty
<1>3. whole \in Seq(Redactor!Bytes) /\ Len(whole) = Len(cr_pending) + Len(artifact)
  BY <1>1
<1>4. starts \in Seq(Nat) /\ Len(starts) = 2 /\ starts[1] = 0 /\ starts[2] = Len(cr_pending)
  BY <1>1
<1>5. cr_fed' = cr_fed \o artifact /\ Len(cr_fed') = Len(cr_fed) + Len(artifact)
  BY <1>1 DEF Redactor!SealPty
<1>6. \A i \in 1..Len(whole) : whole[i] = cr_fed'[Len(cr_stable) + i]
  <2> TAKE i \in 1..Len(whole)
  <2>1. CASE i \in 1..Len(cr_pending)
    BY <1>1, <1>2, <1>5, <2>1
  <2>2. CASE i \notin 1..Len(cr_pending)
    <3> DEFINE k == i - Len(cr_pending)
    <3>1. k \in 1..Len(artifact) /\ i = Len(cr_pending) + k
      BY <1>1, <1>3, <2>2
    <3>2. whole[i] = artifact[k]
      BY <1>1, <3>1
    <3>3. cr_fed'[Len(cr_fed) + k] = artifact[k]
      BY <1>1, <1>5, <3>1
    <3> QED
      BY <1>1, <1>2, <3>1, <3>2, <3>3
  <2> QED
    BY <2>1, <2>2
<1>7. /\ Redactor!Seals(whole, starts) /\ UNCHANGED <<cr_patterns, cr_stable>>
      /\ cr_pending' \in Seq(Redactor!Bytes)
  BY DEF Redactor!SealPty
<1>8. starts[Len(starts)] <= Len(whole) /\ Len(cr_fed') = Len(cr_stable) + Len(whole)
  BY <1>1, <1>2, <1>3, <1>4, <1>5
<1> HIDE DEF whole, starts
<1>9. /\ whole \in Seq(Redactor!Bytes) /\ starts \in Seq(Nat) /\ Len(starts) > 0
      /\ starts[1] = 0
  BY <1>3, <1>4
<1> QED
  BY <1>1, <1>5, <1>6, <1>7, <1>8, <1>9, SealsStep, Zenon

\* The end of a stream of a batch preserves the invariant.
LEMMA SealBatchStep ==
    ASSUME RedactorInv, Redactor!SealBatch
    PROVE  RedactorInv'
<1>1. PICK stdout \in Redactor!Chunks, stderr \in Redactor!Chunks, artifact \in Redactor!Chunks :
         /\ cr_fed' = stdout \o stderr \o artifact
         /\ Redactor!Seals(cr_fed', <<0, Len(stdout), Len(stdout) + Len(stderr)>>)
  BY DEF Redactor!SealBatch
<1> DEFINE whole == stdout \o stderr \o artifact
           starts == <<0, Len(stdout), Len(stdout) + Len(stderr)>>
<1>2. stdout \in Seq(Redactor!Bytes) /\ stderr \in Seq(Redactor!Bytes) /\ artifact \in Seq(Redactor!Bytes)
  BY ChunksAreBytes
<1>3. cr_fed = <<>> /\ Len(cr_stable) = 0 /\ cr_phase = "open"
  BY DEF Redactor!SealBatch, RedactorInv, RedactorTypes
<1>4. whole \in Seq(Redactor!Bytes) /\ Len(whole) = Len(stdout) + Len(stderr) + Len(artifact)
  BY <1>2
<1>5. starts \in Seq(Nat) /\ Len(starts) = 3 /\ starts[1] = 0 /\ starts[3] = Len(stdout) + Len(stderr)
  BY <1>2
<1>6. UNCHANGED <<cr_patterns, cr_stable>> /\ cr_pending' \in Seq(Redactor!Bytes)
  BY DEF Redactor!SealBatch, RedactorInv, RedactorTypes
<1>7. cr_fed' = whole /\ Redactor!Seals(whole, starts)
  BY <1>1
<1>8. starts[Len(starts)] <= Len(whole)
  BY <1>2, <1>4, <1>5
<1> HIDE DEF whole, starts
<1>9. /\ cr_fed' = cr_fed \o whole /\ Len(cr_fed') = Len(cr_stable) + Len(whole)
      /\ \A i \in 1..Len(whole) : whole[i] = cr_fed'[Len(cr_stable) + i]
  BY <1>3, <1>4, <1>7
<1>10. /\ whole \in Seq(Redactor!Bytes) /\ starts \in Seq(Nat) /\ Len(starts) > 0
       /\ starts[1] = 0
  BY <1>4, <1>5
<1> QED
  BY <1>6, <1>7, <1>8, <1>9, <1>10, SealsStep, Zenon

\* Up to the position the text is redacted, behind it it is what was read: a pattern
\* occurs there exactly where it occurs in what was read.
LEMMA OccursInText ==
    ASSUME RedactorTypes, SealedSoFar, NEW p \in cr_patterns
    PROVE  Redactor!Occurs(p, cr_text, cr_position) <=> Redactor!Occurs(p, cr_fed, Len(cr_stable) + cr_position)
<1> DEFINE L == Len(cr_stable)
<1>1. p \in Seq(Redactor!Bytes) /\ p # <<>> /\ Len(p) \in Nat \ {0}
  BY RedactorAssumed DEF RedactorTypes
<1>2. /\ cr_text \in Seq(Redactor!Bytes) /\ cr_fed \in Seq(Redactor!Bytes) /\ L \in Nat
      /\ cr_position \in Nat \ {0} /\ L + cr_position \in Nat \ {0}
  BY DEF RedactorTypes
<1>3. /\ Len(cr_fed) = L + Len(cr_text)
      /\ \A i \in cr_position..Len(cr_text) : cr_text[i] = cr_fed[L + i]
  BY DEF SealedSoFar
<1>4. Redactor!Occurs(p, cr_text, cr_position) <=>
        cr_position + Len(p) - 1 <= Len(cr_text) /\ \A j \in 1..Len(p) : cr_text[cr_position + j - 1] = p[j]
  BY <1>1, <1>2, OccursBytewise
<1>5. Redactor!Occurs(p, cr_fed, L + cr_position) <=>
        /\ L + cr_position + Len(p) - 1 <= Len(cr_fed)
        /\ \A j \in 1..Len(p) : cr_fed[L + cr_position + j - 1] = p[j]
  BY <1>1, <1>2, OccursBytewise
<1>6. CASE cr_position + Len(p) - 1 <= Len(cr_text)
  <2>1. \A j \in 1..Len(p) : cr_text[cr_position + j - 1] = cr_fed[L + cr_position + j - 1]
    <3> TAKE j \in 1..Len(p)
    <3>1. cr_position + j - 1 \in cr_position..Len(cr_text) /\ L + cr_position + j - 1 = L + (cr_position + j - 1)
      BY <1>1, <1>2, <1>6
    <3> QED
      BY <1>3, <3>1
  <2> QED
    BY <1>1, <1>2, <1>3, <1>4, <1>5, <1>6, <2>1
<1>7. CASE ~(cr_position + Len(p) - 1 <= Len(cr_text))
  BY <1>1, <1>2, <1>3, <1>4, <1>5, <1>7
<1> QED
  BY <1>6, <1>7

\* A byte that is let out at the end preserves the invariant.
LEMMA SkipStep ==
    ASSUME RedactorInv, Redactor!SealSkip
    PROVE  RedactorInv'
<1> DEFINE L == Len(cr_stable)
<1>1. /\ UNCHANGED <<cr_patterns, cr_fed, cr_pending, cr_stable, cr_phase, cr_text, cr_offsets, cr_matched>>
      /\ cr_phase = "sealing" /\ cr_position <= Len(cr_text) /\ cr_position' = cr_position + 1
  BY DEF Redactor!SealSkip
<1>2. Mark' = Mark /\ \A i : /\ Redactor!InSecret(i)' = Redactor!InSecret(i)
                             /\ \A p : Misses(p, i)' = Misses(p, i)
  BY <1>1 DEF Mark, Redactor!Replacement, Redactor!FirstUnused, Redactor!InSecret, Misses
<1>3. RedactorTypes /\ LetOutAsRead /\ SealedSoFar /\ SegmentsAreMarked
  BY <1>1 DEF RedactorInv
<1>4. RedactorTypes'
  BY <1>1, <1>3 DEF RedactorTypes
<1>5. LetOutAsRead' /\ SegmentsAreMarked' /\ PendingIsTheRest'
  BY <1>1, <1>2, <1>3 DEF LetOutAsRead, SegmentsAreMarked, Redactor!Withheld, PendingIsTheRest
<1>6. \A p \in cr_patterns : ~Redactor!Occurs(p, cr_fed, L + cr_position)
  BY <1>3, OccursInText DEF Redactor!SealSkip, Redactor!LongestAt, Redactor!Lengths
<1>7. SealedSoFar'
  <2>1. cr_position \in Nat \ {0} /\ Len(cr_text) \in Nat /\ 1..cr_position' - 1 = (1..cr_position - 1) \cup {cr_position}
    BY <1>1, <1>3 DEF RedactorTypes
  <2>2. cr_text[cr_position] = cr_fed[L + cr_position]
    BY <1>1, <1>3, <2>1 DEF SealedSoFar
  <2>3. \A i \in 1..cr_position' - 1 :
           \/ /\ cr_text[i] = cr_fed[L + i]
              /\ \A p \in cr_patterns : ~Redactor!Occurs(p, cr_fed, L + i)
           \/ cr_text[i] = Mark /\ Redactor!InSecret(L + i)
    BY <1>3, <1>6, <2>1, <2>2 DEF SealedSoFar
  <2>4. \A i \in cr_position'..Len(cr_text) : cr_text[i] = cr_fed[L + i]
    BY <1>1, <1>3, <2>1 DEF SealedSoFar
  <2> QED
    BY <1>1, <1>2, <1>3, <2>1, <2>3, <2>4 DEF SealedSoFar
<1> QED
  BY <1>1, <1>4, <1>5, <1>7 DEF RedactorInv

\* A secret that is replaced at the end preserves the invariant.
LEMMA MatchStep ==
    ASSUME RedactorInv, Redactor!SealMatch
    PROVE  RedactorInv'
<1> DEFINE L == Len(cr_stable)
           end == cr_position + Redactor!Exact(cr_text, cr_position)
<1>1. /\ UNCHANGED <<cr_patterns, cr_fed, cr_pending, cr_stable, cr_phase, cr_offsets>>
      /\ cr_phase = "sealing" /\ cr_position <= Len(cr_text) /\ cr_position' = end
      /\ cr_text' = [i \in DOMAIN cr_text |-> IF i \in cr_position..end - 1 THEN Mark ELSE cr_text[i]]
      /\ cr_matched' = cr_matched \cup (Redactor!Segment(cr_position)..Redactor!Segment(end - 1))
      /\ Redactor!LongestAt(cr_text, cr_position) # {}
  BY DEF Redactor!SealMatch, Mark
<1>2. Mark' = Mark /\ \A i : /\ Redactor!InSecret(i)' = Redactor!InSecret(i)
                             /\ \A p : Misses(p, i)' = Misses(p, i)
  BY <1>1 DEF Mark, Redactor!Replacement, Redactor!FirstUnused, Redactor!InSecret, Misses
<1>3. RedactorTypes /\ LetOutAsRead /\ SealedSoFar /\ SegmentsAreMarked
  BY <1>1 DEF RedactorInv
<1>4. /\ cr_text \in Seq(Redactor!Bytes) /\ L \in Nat /\ cr_position \in Nat \ {0} /\ DOMAIN cr_text = 1..Len(cr_text)
      /\ Len(cr_text) \in Nat
  BY <1>3 DEF RedactorTypes
<1>5. PICK p \in cr_patterns :
         /\ Redactor!Occurs(p, cr_text, cr_position) /\ end = cr_position + Len(p) /\ Len(p) \in Nat \ {0}
         /\ cr_position + Len(p) - 1 <= Len(cr_text)
  BY <1>1, <1>3, <1>4, LongestOccurs
<1> HIDE DEF end
<1>6. Redactor!Occurs(p, cr_fed, L + cr_position)
  BY <1>3, <1>5, OccursInText
<1>7. end \in Nat /\ cr_position <= end - 1 /\ end - 1 <= Len(cr_text)
  BY <1>4, <1>5
<1>8. \A i \in cr_position..end - 1 : Redactor!InSecret(L + i)
  <2> TAKE i \in cr_position..end - 1
  <2>1. L + cr_position \in 1..L + i /\ L + cr_position + Len(p) > L + i
    BY <1>4, <1>5
  <2> QED
    BY <1>6, <2>1 DEF Redactor!InSecret
<1>9. Mark \in Redactor!Bytes
  BY <1>3, MarkIsUnused DEF Mark, RedactorTypes
<1>10. cr_text' \in Seq(Redactor!Bytes) /\ Len(cr_text') = Len(cr_text)
  BY <1>1, <1>4, <1>9
<1>11. /\ Redactor!Segment(cr_position) \in Nat /\ Redactor!Segment(end - 1) \in DOMAIN cr_offsets
       /\ cr_offsets[Redactor!Segment(end - 1)] < end - 1
  <2>1. ASSUME NEW at \in Nat \ {0}
        PROVE  Redactor!Segment(at) \in DOMAIN cr_offsets /\ cr_offsets[Redactor!Segment(at)] < at
    <3> DEFINE S == {i \in DOMAIN cr_offsets : cr_offsets[i] < at}
    <3>1. cr_offsets \in Seq(Nat) /\ Len(cr_offsets) > 0 /\ cr_offsets[1] = 0 /\ DOMAIN cr_offsets = 1..Len(cr_offsets)
            /\ Len(cr_offsets) \in Nat
      BY <1>3 DEF SegmentsAreMarked
    <3>2. S \in SUBSET Nat /\ S # {} /\ \A y \in S : y <= Len(cr_offsets)
      <4>1. 1 \in S
        BY <3>1
      <4> QED
        BY <3>1, <4>1
    <3>3. \E x \in S : \A y \in S : x >= y
      <4> HIDE DEF S
      <4> QED
        BY <3>1, <3>2, Greatest
    <3>4. Redactor!Segment(at) \in S
      BY <3>3 DEF Redactor!Segment, Redactor!Max
    <3> QED
      BY <3>4
  <2>2. end - 1 \in Nat \ {0} /\ cr_position \in Nat \ {0}
    BY <1>4, <1>7
  <2>3. cr_offsets \in Seq(Nat)
    BY <1>3 DEF SegmentsAreMarked
  <2>4. Redactor!Segment(cr_position) \in DOMAIN cr_offsets
    BY <2>1, <2>2
  <2>5. Redactor!Segment(end - 1) \in DOMAIN cr_offsets /\ cr_offsets[Redactor!Segment(end - 1)] < end - 1
    BY <2>1, <2>2
  <2> QED
    BY <2>3, <2>4, <2>5
<1>12. RedactorTypes'
  <2>1. Redactor!Segment(end - 1) \in Nat
    BY <1>3, <1>11 DEF SegmentsAreMarked
  <2>2. Redactor!Segment(cr_position)..Redactor!Segment(end - 1) \subseteq Nat
    BY <1>11, <2>1
  <2>3. cr_matched' \in SUBSET Nat
    BY <1>1, <1>3, <2>2 DEF RedactorTypes
  <2> QED
    BY <1>1, <1>3, <1>7, <1>10, <2>3 DEF RedactorTypes
<1>13. LetOutAsRead' /\ PendingIsTheRest'
  BY <1>1, <1>2, <1>3 DEF LetOutAsRead, PendingIsTheRest
<1>14. SealedSoFar'
  <2>1. \A i \in end..Len(cr_text) : cr_text'[i] = cr_fed[L + i]
    BY <1>1, <1>3, <1>4, <1>7 DEF SealedSoFar
  <2>2. \A i \in 1..end - 1 :
           \/ /\ cr_text'[i] = cr_fed[L + i]
              /\ \A q \in cr_patterns : ~Redactor!Occurs(q, cr_fed, L + i)
           \/ cr_text'[i] = Mark /\ Redactor!InSecret(L + i)
    <3> TAKE i \in 1..end - 1
    <3>1. CASE i \in cr_position..end - 1
      BY <1>1, <1>4, <1>7, <1>8, <3>1
    <3>2. CASE i \in 1..cr_position - 1
      BY <1>1, <1>3, <1>4, <1>7, <3>2 DEF SealedSoFar
    <3> QED
      BY <1>4, <1>7, <3>1, <3>2
  <2>3. Len(cr_fed) = L + Len(cr_text) /\ cr_position' <= Len(cr_text) + 1 /\ cr_phase # "sealed"
    BY <1>1, <1>3, <1>4, <1>7 DEF SealedSoFar
  <2> QED
    BY <1>1, <1>2, <1>10, <2>1, <2>2, <2>3 DEF SealedSoFar
<1>15. SegmentsAreMarked'
  <2>1. ASSUME Redactor!Withheld'
        PROVE  \E i \in L + cr_offsets[Len(cr_offsets)] + 1..Len(cr_fed) : Redactor!InSecret(i)
    <3>1. CASE Redactor!Withheld
      BY <1>3, <3>1 DEF SegmentsAreMarked
    <3>2. CASE ~Redactor!Withheld
      <4>1. Len(cr_offsets) \in Redactor!Segment(cr_position)..Redactor!Segment(end - 1)
        BY <1>1, <2>1, <3>2 DEF Redactor!Withheld
      <4>2. Redactor!Segment(end - 1) = Len(cr_offsets)
        BY <1>3, <1>11, <4>1 DEF SegmentsAreMarked
      <4>3. cr_offsets[Len(cr_offsets)] < end - 1 /\ cr_offsets[Len(cr_offsets)] \in Nat
        BY <1>3, <1>11, <4>2 DEF SegmentsAreMarked
      <4>4. L + (end - 1) \in L + cr_offsets[Len(cr_offsets)] + 1..Len(cr_fed)
        BY <1>3, <1>4, <1>7, <4>3 DEF SealedSoFar
      <4> QED
        <5>1. end - 1 \in cr_position..end - 1
          BY <1>4, <1>7
        <5> QED
          BY <1>8, <4>4, <5>1
    <3> QED
      BY <3>1, <3>2
  <2> QED
    BY <1>1, <1>2, <1>3, <1>10, <2>1 DEF SegmentsAreMarked
<1> QED
  BY <1>1, <1>12, <1>13, <1>14, <1>15 DEF RedactorInv

\* A stream starts within its invariant.
LEMMA RedactorStarts == Redactor!Init => RedactorInv
<1> SUFFICES ASSUME Redactor!Init
             PROVE  RedactorInv
  OBVIOUS
<1> QED
  BY DEF Redactor!Init, RedactorInv, RedactorTypes, LetOutAsRead, PendingIsTheRest

\* Every step of a stream preserves it.
LEMMA RedactorStep == RedactorInv /\ [Redactor!Next]_(Redactor!vars) => RedactorInv'
BY PushStep, SealPtyStep, SealBatchStep, WaitStep, RedactStep, EmitStep, MatchStep, SkipStep DEF Redactor!Next

\* What is published is, byte by byte, what was read or the replacement, and where
\* it is what was read no credential begins.
LEMMA PublishedByteByByte ==
    ASSUME RedactorInv
    PROVE  /\ Redactor!Published \in Seq(Redactor!Bytes) /\ Len(Redactor!Published) <= Len(cr_fed)
           /\ \A i \in 1..Len(Redactor!Published) :
                 \/ /\ Redactor!Published[i] = cr_fed[i]
                    /\ \A p \in cr_patterns : ~Redactor!Occurs(p, cr_fed, i)
                 \/ Redactor!Published[i] = Mark /\ Redactor!InSecret(i)
<1> DEFINE L == Len(cr_stable)
           Exactly(i, b) ==
             \/ b = cr_fed[i] /\ \A p \in cr_patterns : ~Redactor!Occurs(p, cr_fed, i)
             \/ b = Mark /\ Redactor!InSecret(i)
<1>1. /\ RedactorTypes /\ cr_stable \in Seq(Redactor!Bytes) /\ cr_text \in Seq(Redactor!Bytes)
      /\ cr_fed \in Seq(Redactor!Bytes) /\ L <= Len(cr_fed)
  BY DEF RedactorInv, RedactorTypes
<1>2. \A i \in 1..L : Exactly(i, cr_stable[i])
  <2> TAKE i \in 1..L
  <2>1. CASE cr_stable[i] = cr_fed[i] /\ \A p \in cr_patterns : Misses(p, i)
    <3>1. ASSUME NEW p \in cr_patterns, Redactor!Occurs(p, cr_fed, i)
          PROVE  FALSE
      <4>1. p \in Seq(Redactor!Bytes) /\ p # <<>> /\ DOMAIN p = 1..Len(p)
        BY <1>1, RedactorAssumed DEF RedactorTypes
      <4>2. \A j \in 1..Len(p) : cr_fed[i + j - 1] = p[j]
        BY <1>1, <3>1, <4>1, OccursBytewise
      <4> QED
        BY <2>1, <4>1, <4>2 DEF Misses
    <3> QED
      BY <2>1, <3>1
  <2> QED
    BY <2>1 DEF RedactorInv, LetOutAsRead
<1>3. CASE cr_phase # "sealed"
  BY <1>1, <1>2, <1>3 DEF Redactor!Published
<1>4. CASE cr_phase = "sealed"
  <2>1. SealedSoFar /\ SegmentsAreMarked
    BY <1>4 DEF RedactorInv
  <2>2. Len(cr_fed) = L + Len(cr_text) /\ \A i \in 1..Len(cr_text) : Exactly(L + i, cr_text[i])
    BY <1>1, <1>4, <2>1 DEF SealedSoFar, RedactorTypes
  <2>3. PICK rest \in Seq(Redactor!Bytes) :
           /\ Redactor!Published = cr_stable \o rest /\ Len(rest) <= Len(cr_text)
           /\ \A i \in 1..Len(rest) : rest[i] = cr_text[i]
    <3>1. CASE Redactor!Withheld
      <4> DEFINE n == cr_offsets[Len(cr_offsets)]
      <4>1. n \in Nat /\ n <= Len(cr_text)
        BY <2>1 DEF SegmentsAreMarked
      <4>2. /\ SubSeq(cr_text, 1, n) \in Seq(Redactor!Bytes) /\ Len(SubSeq(cr_text, 1, n)) = n
            /\ \A i \in 1..n : SubSeq(cr_text, 1, n)[i] = cr_text[i]
        BY <1>1, <4>1
      <4>3. Redactor!Published = cr_stable \o SubSeq(cr_text, 1, n)
        <5>1. Redactor!Published = cr_stable \o Redactor!Slice(cr_text, 1, n)
          BY <1>4, <3>1, Zenon DEF Redactor!Published
        <5>2. 1 + n - 1 = n
          BY <4>1
        <5>3. Redactor!Slice(cr_text, 1, n) = SubSeq(cr_text, 1, n)
          BY <5>2, Zenon DEF Redactor!Slice
        <5> QED
          BY <5>1, <5>3, Zenon
      <4> DEFINE kept == SubSeq(cr_text, 1, n)
      <4>4. Len(kept) <= Len(cr_text) /\ \A i \in 1..Len(kept) : kept[i] = cr_text[i]
        BY <4>1, <4>2
      <4>5. kept \in Seq(Redactor!Bytes) /\ Redactor!Published = cr_stable \o kept
        BY <4>2, <4>3
      <4> HIDE DEF kept
      <4> QED
        BY <4>4, <4>5, Zenon
    <3>2. CASE ~Redactor!Withheld
      BY <1>1, <1>4, <3>2 DEF Redactor!Published
    <3> QED
      BY <3>1, <3>2
  <2>4. Redactor!Published \in Seq(Redactor!Bytes) /\ Len(Redactor!Published) = L + Len(rest)
    <3>1. cr_stable \in Seq(Redactor!Bytes)
      BY <1>1 DEF RedactorTypes
    <3> QED
      BY <2>3, <3>1, BothInOrder, Zenon
  <2>5. \A i \in 1..L + Len(rest) : Exactly(i, Redactor!Published[i])
    <3> TAKE i \in 1..L + Len(rest)
    <3>1. CASE i \in 1..L
      <4>1. Redactor!Published[i] = cr_stable[i]
        BY <1>1, <2>3, <3>1
      <4> QED
        BY <1>2, <3>1, <4>1
    <3>2. CASE i \notin 1..L
      <4>1. i - L \in 1..Len(rest) /\ i - L \in 1..Len(cr_text) /\ i = L + (i - L)
        BY <1>1, <2>3, <3>2
      <4>2. Redactor!Published[i] = rest[i - L]
        BY <1>1, <2>3, <3>2, <4>1
      <4> QED
        BY <2>2, <2>3, <4>1, <4>2
    <3> QED
      BY <3>1, <3>2
  <2> QED
    BY <1>1, <2>2, <2>3, <2>4, <2>5
<1> QED
  BY <1>3, <1>4

\* What is published is what was fed, each secret replaced and nothing else.
LEMMA RedactionStaysExact == Redactor!Spec => []Redactor!RedactionIsExact
<1>1. RedactorInv => Redactor!RedactionIsExact
  <2> SUFFICES ASSUME RedactorInv
               PROVE  Redactor!RedactionIsExact
    OBVIOUS
  <2> DEFINE out == Redactor!Published
  <2>1. /\ out \in Seq(Redactor!Bytes) /\ Len(out) <= Len(cr_fed) /\ DOMAIN out = 1..Len(out)
        /\ cr_fed \in Seq(Redactor!Bytes) /\ RedactorTypes
        /\ \A i \in 1..Len(out) :
              \/ out[i] = cr_fed[i] /\ \A p \in cr_patterns : ~Redactor!Occurs(p, cr_fed, i)
              \/ out[i] = Mark /\ Redactor!InSecret(i)
    BY PublishedByteByByte DEF RedactorInv, RedactorTypes
  <2> HIDE DEF out
  <2>2. ASSUME NEW p \in cr_patterns, NEW at \in 1..Len(out), Redactor!Occurs(p, out, at)
        PROVE  FALSE
    <3>1. p \in Seq(Redactor!Bytes) /\ p # <<>> /\ Len(p) \in Nat \ {0}
      BY <2>1, RedactorAssumed DEF RedactorTypes
    <3>2. at + Len(p) - 1 <= Len(out) /\ \A j \in 1..Len(p) : out[at + j - 1] = p[j]
      BY <2>1, <2>2, <3>1, OccursBytewise
    <3>3. \A j \in 1..Len(p) : p[j] # Mark
      BY <2>1, MarkIsUnused DEF Mark, RedactorTypes
    <3>4. \A j \in 1..Len(p) : at + j - 1 \in 1..Len(out) /\ cr_fed[at + j - 1] = p[j]
      BY <2>1, <3>1, <3>2, <3>3
    <3>5. Redactor!Occurs(p, cr_fed, at)
      <4>1. at \in Nat \ {0} /\ at + Len(p) - 1 <= Len(cr_fed)
        BY <2>1, <3>1, <3>2
      <4> QED
        BY <2>1, <3>1, <3>4, <4>1, OccursBytewise
    <3>6. out[at] = p[1]
      <4>1. at + 1 - 1 = at /\ 1 \in 1..Len(p)
        BY <3>1
      <4> QED
        BY <3>2, <4>1
    <3> QED
      BY <2>1, <3>1, <3>3, <3>5, <3>6
  <2>3. cr_phase = "sealed" /\ Redactor!Withheld =>
          \E i \in Len(cr_stable) + cr_offsets[Len(cr_offsets)] + 1..Len(cr_fed) : Redactor!InSecret(i)
    BY DEF RedactorInv, SegmentsAreMarked
  <2> QED
    BY <2>1, <2>2, <2>3 DEF Redactor!RedactionIsExact, out, Mark
<1> QED
  BY RedactorStarts, RedactorStep, <1>1, PTL DEF Redactor!Spec

-----------------------------------------------------------------------------
(* Collecting and sealing the declared files.                              *)

FilesOnDisk == [write : 0..rs_writes, length : Nat, plain : BOOLEAN]
Halves == [first : Nat, second : Nat, length : Nat]

SealingTypes ==
    /\ rs_writes \in Nat
    /\ rs_disk \in [rs_Files -> FilesOnDisk]
    /\ rs_phase \in {"bound", "running", "ended", "collecting", "collected", "sealed"}
    /\ DOMAIN rs_collected \subseteq rs_Files /\ rs_missing \subseteq rs_Files
    /\ rs_collected \in [DOMAIN rs_collected -> Halves]

\* What was read of a file is one content that the policy allows.
HeldFits ==
    /\ \A f \in DOMAIN rs_collected :
          rs_collected[f].first = rs_collected[f].second /\ rs_collected[f].length <= rs_MaxFile
    /\ Sealing!Total <= rs_MaxTotal

\* The file that is being read fits as well.  Its writes are numbered upwards: one
\* that is at the end as it was at the beginning was so in between.
ReadingFits ==
    rs_reading # Sealing!Idle =>
        LET f == rs_reading.file
            before == rs_reading.before IN
        /\ rs_phase = "collecting" /\ f \in rs_Files \ DOMAIN rs_collected
        /\ before.length \in Nat /\ before.length <= rs_MaxFile
        /\ Sealing!Total + before.length <= rs_MaxTotal
        /\ before.write \in Nat /\ before.write <= rs_disk[f].write
        /\ rs_reading.half # 0 =>
              rs_reading.half \in Nat /\ before.write <= rs_reading.half /\ rs_reading.half <= rs_disk[f].write

\* What is reserved is what is held once the collection ended, and nothing for a
\* collection that was rejected.
ReservedIsHeld ==
    /\ rs_phase \in {"bound", "running", "ended"} =>
          rs_reserved = 0 /\ DOMAIN rs_collected = {} /\ rs_rejection = "none"
    /\ rs_phase = "collecting" => rs_rejection = "none"
    /\ rs_phase = "collected" =>
          /\ rs_rejection # "none" => rs_reserved = 0 /\ DOMAIN rs_collected = {}
          /\ rs_rejection = "none" =>
                /\ rs_reserved = Sealing!Total
                /\ rs_terminal # "not_dispatched" => DOMAIN rs_collected \cup rs_missing = rs_Files

SealingInv ==
    /\ SealingTypes /\ HeldFits /\ ReadingFits /\ ReservedIsHeld
    /\ Sealing!ArtifactsAreSnapshots

\* The cardinality of the part is the one of the library.
LEMMA SameCount == \A S : Sealing!Cardinality(S) = Cardinality(S) /\ (Sealing!IsFiniteSet(S) <=> IsFiniteSet(S))
BY Zenon DEF Cardinality, IsFiniteSet, Sealing!Cardinality, Sealing!IsFiniteSet

\* The total that is charged is the number of bytes that are held.
LEMMA TotalIsCardinality == Sealing!Total = Cardinality(Sealing!Held)
BY SameCount DEF Sealing!Total

\* What is assumed of files and limits.
LEMMA SealingAssumed ==
    IsFiniteSet(rs_Files) /\ rs_MaxFile \in Nat \ {0} /\ rs_MaxTotal \in Nat
BY ComponentAssumption, SameCount DEF Sealing!SealingAssumption

\* What is held is finite, and its total a number.
LEMMA HeldIsFinite ==
    ASSUME SealingTypes
    PROVE  IsFiniteSet(Sealing!Held) /\ Sealing!Total \in Nat
<1> DEFINE parts == {{f} \X (1..rs_collected[f].length) : f \in DOMAIN rs_collected}
<1>1. IsFiniteSet(DOMAIN rs_collected)
  BY SealingAssumed, FS_Subset DEF SealingTypes
<1>2. IsFiniteSet(parts)
  <2> DEFINE g == [f \in DOMAIN rs_collected |-> {f} \X (1..rs_collected[f].length)]
  <2>1. g \in Surjection(DOMAIN rs_collected, parts)
    BY DEF Surjection
  <2> HIDE DEF g, parts
  <2> QED
    BY <1>1, <2>1, FS_Surjection
<1>3. \A p \in parts : IsFiniteSet(p)
  <2> SUFFICES ASSUME NEW f \in DOMAIN rs_collected
               PROVE  IsFiniteSet({f} \X (1..rs_collected[f].length))
    OBVIOUS
  <2>1. rs_collected[f].length \in Int
    BY DEF SealingTypes, Halves
  <2>2. IsFiniteSet(1..rs_collected[f].length) /\ IsFiniteSet({f})
    BY <2>1, FS_Interval, FS_Singleton, 1 \in Int
  <2> QED
    BY <2>2, FS_Product
<1>4. IsFiniteSet(UNION parts)
  <2> HIDE DEF parts
  <2> QED
    BY <1>2, <1>3, FS_UNION
<1>5. Sealing!Held = UNION parts
  BY DEF Sealing!Held
<1> QED
  BY <1>4, <1>5, FS_CardinalityType, TotalIsCardinality

\* Nothing is held of no file.
LEMMA NothingIsHeld == DOMAIN rs_collected = {} => Sealing!Total = 0
<1>1. DOMAIN rs_collected = {} => Sealing!Held = {}
  BY DEF Sealing!Held
<1> QED
  BY <1>1, FS_EmptySet, TotalIsCardinality

\* A file more is its length more.
LEMMA OneMoreIsHeld ==
    ASSUME SealingTypes, NEW f \in rs_Files \ DOMAIN rs_collected, NEW content, content.length \in Nat,
           rs_collected' = [g \in DOMAIN rs_collected \cup {f} |->
                               IF g = f THEN content ELSE rs_collected[g]]
    PROVE  Sealing!Total' = Sealing!Total + content.length
<1> DEFINE new == {f} \X (1..content.length)
           held == Sealing!Held
           old == DOMAIN rs_collected
<1>1. DOMAIN rs_collected' = old \cup {f} /\ f \notin old
  OBVIOUS
<1>2. rs_collected'[f] = content /\ \A g \in old : rs_collected'[g] = rs_collected[g]
  OBVIOUS
<1>3. Sealing!Held' = held \cup new
  <2>1. Sealing!Held' = UNION {{g} \X (1..rs_collected'[g].length) : g \in old \cup {f}}
    BY <1>1 DEF Sealing!Held
  <2>2. held = UNION {{g} \X (1..rs_collected[g].length) : g \in old}
    BY DEF Sealing!Held
  <2>3. \A x : x \in Sealing!Held' <=> \E g \in old \cup {f} : x \in {g} \X (1..rs_collected'[g].length)
    BY <2>1
  <2>4. \A x : x \in held <=> \E g \in old : x \in {g} \X (1..rs_collected[g].length)
    BY <2>2
  <2> HIDE DEF held
  <2>5. \A x : x \in Sealing!Held' <=> x \in held \/ x \in new
    BY <1>2, <2>3, <2>4
  <2> QED
    BY <2>5
<1>4. held \cap new = {}
  <2> SUFFICES ASSUME NEW x \in held, x \in new
               PROVE  FALSE
    OBVIOUS
  <2>1. PICK g \in old : x \in {g} \X (1..rs_collected[g].length)
    BY DEF Sealing!Held
  <2> QED
    BY <1>1, <2>1
<1>5. IsFiniteSet(held) /\ IsFiniteSet(new) /\ Cardinality(new) = content.length
  <2>1. IsFiniteSet(1..content.length) /\ Cardinality(1..content.length) = content.length
    BY FS_Interval
  <2>2. IsFiniteSet({f}) /\ Cardinality({f}) = 1
    BY FS_Singleton
  <2>3. IsFiniteSet(new) /\ Cardinality(new) = 1 * content.length
    BY <2>1, <2>2, FS_Product
  <2> QED
    BY <2>3, HeldIsFinite
<1>6. Cardinality(held \cup new) = Cardinality(held) + Cardinality(new) - 0
  <2> HIDE DEF held, new
  <2> QED
    BY <1>4, <1>5, FS_Union, FS_EmptySet
<1>7. Sealing!Total' = Cardinality(Sealing!Held')
  BY SameCount DEF Sealing!Total
<1>8. Cardinality(held) \in Nat
  BY HeldIsFinite, TotalIsCardinality
<1> HIDE DEF held, new
<1>9. Sealing!Total' = Cardinality(held) + content.length
  BY <1>3, <1>5, <1>6, <1>7, <1>8
<1> QED
  BY <1>9, TotalIsCardinality DEF held

\* A step that collects nothing charges nothing.
LEMMA CollectedIsKept ==
    ASSUME SealingTypes, UNCHANGED rs_collected
    PROVE  Sealing!Total' = Sealing!Total
BY DEF Sealing!Total, Sealing!Held

\* Survivors write while the collection reads.
LEMMA DiskStep ==
    ASSUME SealingInv, NEW f \in rs_Files, Sealing!Write(f)
    PROVE  SealingInv'
<1>1. /\ UNCHANGED <<rs_phase, rs_terminal, rs_reading, rs_collected, rs_missing, rs_rejection, rs_reserved, rs_result>>
      /\ rs_writes' = rs_writes + 1 /\ rs_phase # "sealed"
  BY DEF Sealing!Write
<1>2. PICK length \in 0..rs_MaxLength, plain \in BOOLEAN :
         rs_disk' = [rs_disk EXCEPT ![f] = Sealing!File(rs_writes + 1, length, plain)]
  BY DEF Sealing!Write
<1>3. /\ rs_writes \in Nat /\ rs_disk \in [rs_Files -> FilesOnDisk]
      /\ \A g \in rs_Files : rs_disk[g] \in FilesOnDisk /\ rs_disk[g].write <= rs_writes /\ rs_disk[g].write \in Nat
  BY DEF SealingInv, SealingTypes, FilesOnDisk
<1>4. SealingTypes'
  <2>1. Sealing!File(rs_writes + 1, length, plain) \in FilesOnDisk'
    BY <1>1, <1>3 DEF Sealing!File, FilesOnDisk
  <2>2. \A g \in rs_Files : rs_disk[g] \in FilesOnDisk'
    BY <1>1, <1>3 DEF FilesOnDisk
  <2>3. rs_disk' \in [rs_Files -> FilesOnDisk']
    BY <1>2, <1>3, <2>1, <2>2
  <2> QED
    BY <1>1, <1>3, <2>3 DEF SealingInv, SealingTypes
<1>5. Sealing!Total' = Sealing!Total
  BY <1>1, CollectedIsKept DEF SealingInv
<1>6. \A g \in rs_Files : rs_disk[g].write <= rs_disk'[g].write /\ rs_disk'[g].write \in Nat
  BY <1>2, <1>3 DEF Sealing!File
<1>7. ReadingFits'
  <2> SUFFICES ASSUME rs_reading # Sealing!Idle
               PROVE  ReadingFits'
    BY <1>1 DEF ReadingFits, Sealing!Idle
  <2> DEFINE g == rs_reading.file
             before == rs_reading.before
  <2>1. /\ rs_phase = "collecting" /\ g \in rs_Files \ DOMAIN rs_collected
        /\ before.length \in Nat /\ before.length <= rs_MaxFile
        /\ Sealing!Total + before.length <= rs_MaxTotal
        /\ before.write \in Nat /\ before.write <= rs_disk[g].write
        /\ rs_reading.half # 0 =>
              rs_reading.half \in Nat /\ before.write <= rs_reading.half /\ rs_reading.half <= rs_disk[g].write
    BY DEF SealingInv, ReadingFits
  <2>2. /\ rs_disk[g].write <= rs_disk'[g].write /\ rs_disk'[g].write \in Nat /\ rs_disk[g].write \in Nat
    BY <1>3, <1>6, <2>1
  <2>3. before.write <= rs_disk'[g].write /\ (rs_reading.half # 0 => rs_reading.half <= rs_disk'[g].write)
    BY <2>1, <2>2
  <2> QED
    BY <1>1, <1>5, <2>1, <2>3 DEF ReadingFits
<1>8. HeldFits' /\ ReservedIsHeld' /\ Sealing!ArtifactsAreSnapshots'
  BY <1>1, <1>5 DEF SealingInv, HeldFits, ReservedIsHeld, Sealing!ArtifactsAreSnapshots
<1> QED
  BY <1>4, <1>7, <1>8 DEF SealingInv

\* Steps of a call that hold what is held.
LEMMA PhaseStep ==
    ASSUME SealingInv, Sealing!Run \/ Sealing!BeginCollection
    PROVE  SealingInv'
<1>1. UNCHANGED <<rs_disk, rs_writes, rs_reading, rs_collected, rs_missing>>
  BY DEF Sealing!Run, Sealing!BeginCollection
<1>2. /\ rs_phase \in {"bound", "running", "ended"} /\ rs_phase' \in {"running", "ended", "collecting", "collected"}
  BY DEF Sealing!Run, Sealing!Execute, Sealing!BeginCollection
<1>3. Sealing!Total' = Sealing!Total /\ Sealing!Total = 0
  BY <1>1, <1>2, CollectedIsKept, NothingIsHeld DEF SealingInv, ReservedIsHeld
<1>4. SealingTypes'
  BY <1>1, <1>2 DEF SealingInv, SealingTypes, FilesOnDisk
<1>5. rs_reading = Sealing!Idle
  BY <1>2 DEF SealingInv, ReadingFits
<1>6. HeldFits' /\ ReadingFits' /\ Sealing!ArtifactsAreSnapshots'
  BY <1>1, <1>2, <1>3, <1>5 DEF SealingInv, HeldFits, ReadingFits, Sealing!ArtifactsAreSnapshots, Sealing!Idle
<1>7. ReservedIsHeld'
  <2>1. rs_reserved = 0 /\ DOMAIN rs_collected = {} /\ rs_rejection = "none"
    BY <1>2 DEF SealingInv, ReservedIsHeld
  <2>2. CASE Sealing!Run
    BY <1>1, <1>2, <2>1, <2>2 DEF ReservedIsHeld, Sealing!Run, Sealing!Execute
  <2>3. CASE Sealing!BeginCollection
    BY <1>1, <1>3, <2>1, <2>3 DEF ReservedIsHeld, Sealing!BeginCollection
  <2> QED
    BY <2>2, <2>3
<1> QED
  BY <1>4, <1>6, <1>7 DEF SealingInv

\* A rejection holds nothing and reserves nothing.
LEMMA RejectStep ==
    ASSUME SealingInv, NEW why, why # "none", Sealing!Reject(why),
           UNCHANGED <<rs_disk, rs_writes, rs_terminal, rs_missing, rs_result>>
    PROVE  SealingInv'
<1>1. /\ rs_phase' = "collected" /\ rs_rejection' = why /\ rs_reserved' = 0 /\ rs_reading' = Sealing!Idle
      /\ rs_collected' = [f \in {} |-> Sealing!Nothing] /\ DOMAIN rs_collected' = {}
  BY DEF Sealing!Reject
<1>2. SealingTypes'
  BY <1>1 DEF SealingInv, SealingTypes, FilesOnDisk
<1>3. Sealing!Total' = 0
  <2>1. Sealing!Held' = {}
    BY <1>1 DEF Sealing!Held
  <2> QED
    BY <2>1, FS_EmptySet, SameCount DEF Sealing!Total
<1>4. HeldFits'
  BY <1>1, <1>3, SealingAssumed DEF HeldFits
<1>5. ReadingFits' /\ ReservedIsHeld' /\ Sealing!ArtifactsAreSnapshots'
  BY <1>1 DEF ReadingFits, ReservedIsHeld, Sealing!ArtifactsAreSnapshots, Sealing!Idle
<1> QED
  BY <1>2, <1>4, <1>5 DEF SealingInv

\* Opening an artifact preserves the invariant.
LEMMA OpenStep ==
    ASSUME SealingInv, Sealing!OpenFile
    PROVE  SealingInv'
<1> DEFINE f == Sealing!NextFile
<1>1. rs_phase = "collecting" /\ rs_reading = Sealing!Idle /\ UNCHANGED <<rs_disk, rs_writes, rs_terminal, rs_result>>
  BY DEF Sealing!OpenFile
<1>2. f \in rs_Files \ DOMAIN rs_collected
  BY DEF Sealing!OpenFile, Sealing!NextFile, Sealing!Remaining
<1> HIDE DEF f
<1>3. CASE rs_missing' = rs_missing \cup {f} /\ UNCHANGED <<rs_phase, rs_reading, rs_collected, rs_rejection, rs_reserved>>
  <2>1. Sealing!Total' = Sealing!Total
    BY <1>3, CollectedIsKept DEF SealingInv
  <2>2. SealingTypes' /\ HeldFits'
    BY <1>1, <1>2, <1>3, <2>1 DEF SealingInv, SealingTypes, FilesOnDisk, HeldFits
  <2>3. ReservedIsHeld'
    BY <1>1, <1>3 DEF SealingInv, ReservedIsHeld
  <2> QED
    BY <1>1, <1>3, <2>2, <2>3 DEF SealingInv, ReadingFits, Sealing!ArtifactsAreSnapshots, Sealing!Idle
<1>4. CASE /\ \/ Sealing!Reject("not_plain") \/ Sealing!Reject("file_too_large")
              \/ Sealing!Reject("aggregate_too_large")
           /\ UNCHANGED rs_missing
  BY <1>1, <1>4, RejectStep
<1>5. CASE /\ rs_reading' = [file |-> f, before |-> rs_disk[f], half |-> 0]
           /\ UNCHANGED <<rs_phase, rs_collected, rs_rejection, rs_reserved, rs_missing>>
           /\ ~(rs_disk[f].length > rs_MaxFile) /\ ~(Sealing!Total + rs_disk[f].length > rs_MaxTotal)
  <2>1. Sealing!Total' = Sealing!Total /\ Sealing!Total \in Nat
    BY <1>5, CollectedIsKept, HeldIsFinite DEF SealingInv
  <2>2. rs_disk[f].length \in Nat /\ rs_disk[f].write \in Nat
    BY <1>2 DEF SealingInv, SealingTypes, FilesOnDisk
  <2>3. /\ rs_disk[f].length <= rs_MaxFile /\ Sealing!Total + rs_disk[f].length <= rs_MaxTotal
        /\ rs_disk[f].write <= rs_disk[f].write
    BY <1>5, <2>1, <2>2, SealingAssumed
  <2>4. ReadingFits'
    BY <1>1, <1>2, <1>5, <2>1, <2>2, <2>3 DEF ReadingFits
  <2> QED
    BY <1>1, <1>5, <2>1, <2>4 DEF SealingInv, SealingTypes, FilesOnDisk, HeldFits, ReservedIsHeld,
      Sealing!ArtifactsAreSnapshots
<1> QED
  BY <1>3, <1>4, <1>5 DEF Sealing!OpenFile, f

\* Reading its first half preserves the invariant.
LEMMA HalfStep ==
    ASSUME SealingInv, Sealing!ReadHalf
    PROVE  SealingInv'
<1> DEFINE f == rs_reading.file
<1>1. /\ UNCHANGED <<rs_disk, rs_writes, rs_phase, rs_terminal, rs_collected, rs_missing, rs_rejection, rs_reserved, rs_result>>
      /\ rs_reading' = [file |-> f, before |-> rs_reading.before, half |-> rs_disk[f].write]
      /\ rs_reading # Sealing!Idle
  BY DEF Sealing!ReadHalf
<1>2. Sealing!Total' = Sealing!Total
  BY <1>1, CollectedIsKept DEF SealingInv
<1>3. /\ rs_phase = "collecting" /\ f \in rs_Files \ DOMAIN rs_collected
      /\ rs_reading.before.length \in Nat /\ rs_reading.before.length <= rs_MaxFile
      /\ Sealing!Total + rs_reading.before.length <= rs_MaxTotal
      /\ rs_reading.before.write \in Nat /\ rs_reading.before.write <= rs_disk[f].write
  BY <1>1 DEF SealingInv, ReadingFits
<1>4. rs_disk[f].write \in Nat
  BY <1>3 DEF SealingInv, SealingTypes, FilesOnDisk
<1>5. ReadingFits'
  BY <1>1, <1>2, <1>3, <1>4 DEF ReadingFits
<1> QED
  BY <1>1, <1>2, <1>5 DEF SealingInv, SealingTypes, FilesOnDisk, HeldFits, ReservedIsHeld,
      Sealing!ArtifactsAreSnapshots

\* Reading the rest preserves the invariant.
LEMMA RestStep ==
    ASSUME SealingInv, Sealing!ReadRest
    PROVE  SealingInv'
<1> DEFINE f == rs_reading.file
           content == [first |-> rs_reading.half, second |-> rs_disk[f].write, length |-> rs_reading.before.length]
<1>1. /\ UNCHANGED <<rs_disk, rs_writes, rs_terminal, rs_missing, rs_result>>
      /\ rs_reading # Sealing!Idle /\ rs_reading.half # 0
  BY DEF Sealing!ReadRest
<1>2. CASE Sealing!Reject("changed")
  BY <1>1, <1>2, RejectStep
<1>3. CASE /\ Sealing!Unchanged(rs_reading.before, rs_disk[f])
           /\ rs_collected' = [g \in DOMAIN rs_collected \cup {f} |-> IF g = f THEN content ELSE rs_collected[g]]
           /\ rs_reading' = Sealing!Idle /\ UNCHANGED <<rs_phase, rs_rejection, rs_reserved>>
  <2>1. /\ rs_phase = "collecting" /\ f \in rs_Files \ DOMAIN rs_collected
        /\ rs_reading.before.length \in Nat /\ rs_reading.before.length <= rs_MaxFile
        /\ Sealing!Total + rs_reading.before.length <= rs_MaxTotal
        /\ rs_reading.before.write \in Nat
        /\ rs_reading.half \in Nat /\ rs_reading.before.write <= rs_reading.half /\ rs_reading.half <= rs_disk[f].write
    BY <1>1 DEF SealingInv, ReadingFits
  <2>2. rs_reading.half = rs_disk[f].write
    BY <1>3, <2>1 DEF Sealing!Unchanged
  <2>3. content \in Halves /\ content.first = content.second /\ content.length = rs_reading.before.length
    BY <2>1, <2>2 DEF Halves
  <2>4. Sealing!Total' = Sealing!Total + rs_reading.before.length
    <3> HIDE DEF content
    <3>1. SealingTypes /\ content.length \in Nat
      BY <2>1, <2>3 DEF SealingInv
    <3> QED
      BY <1>3, <2>1, <2>3, <3>1, OneMoreIsHeld
  <2> HIDE DEF content
  <2>5. /\ DOMAIN rs_collected' = DOMAIN rs_collected \cup {f}
        /\ rs_collected'[f] = content /\ \A g \in DOMAIN rs_collected : rs_collected'[g] = rs_collected[g]
        /\ rs_collected' \in [DOMAIN rs_collected' -> Halves]
    BY <1>3, <2>1, <2>3 DEF SealingInv, SealingTypes
  <2>6. SealingTypes'
    BY <1>1, <1>3, <2>1, <2>5 DEF SealingInv, SealingTypes, FilesOnDisk
  <2>7. HeldFits'
    BY <2>1, <2>3, <2>4, <2>5 DEF SealingInv, HeldFits
  <2>8. ReadingFits' /\ ReservedIsHeld' /\ Sealing!ArtifactsAreSnapshots'
    BY <1>1, <1>3, <2>1 DEF SealingInv, ReadingFits, ReservedIsHeld, Sealing!ArtifactsAreSnapshots, Sealing!Idle
  <2> QED
    BY <2>6, <2>7, <2>8 DEF SealingInv
<1> QED
  BY <1>2, <1>3 DEF Sealing!ReadRest

\* Reading to the end preserves the invariant.
LEMMA EndStep ==
    ASSUME SealingInv, Sealing!EndCollection
    PROVE  SealingInv'
<1>1. /\ rs_phase = "collecting" /\ rs_reading = Sealing!Idle /\ Sealing!Remaining = {}
      /\ UNCHANGED <<rs_disk, rs_writes, rs_terminal, rs_missing, rs_result>>
  BY DEF Sealing!EndCollection
<1>2. CASE Sealing!Reject("authority_changed")
  BY <1>1, <1>2, RejectStep
<1>3. CASE rs_phase' = "collected" /\ rs_reserved' = Sealing!Retains /\ UNCHANGED <<rs_rejection, rs_reading, rs_collected>>
  <2>1. Sealing!Total' = Sealing!Total /\ rs_reserved' = Sealing!Total
    BY <1>3, CollectedIsKept DEF SealingInv, Sealing!Retains
  <2>2. DOMAIN rs_collected \cup rs_missing = rs_Files /\ rs_rejection = "none"
    BY <1>1 DEF Sealing!Remaining, SealingInv, SealingTypes, ReservedIsHeld
  <2>3. ReservedIsHeld'
    BY <1>1, <1>3, <2>1, <2>2 DEF ReservedIsHeld
  <2>4. SealingTypes' /\ HeldFits'
    BY <1>1, <1>3, <2>1 DEF SealingInv, SealingTypes, FilesOnDisk, HeldFits
  <2>5. ReadingFits' /\ Sealing!ArtifactsAreSnapshots'
    BY <1>1, <1>3 DEF ReadingFits, Sealing!ArtifactsAreSnapshots, Sealing!Idle
  <2> QED
    BY <2>3, <2>4, <2>5 DEF SealingInv
<1> QED
  BY <1>2, <1>3 DEF Sealing!EndCollection

\* The result: what is held, or nothing and no bytes reserved for it.
LEMMA SealedStep ==
    ASSUME SealingInv, Sealing!Seal
    PROVE  SealingInv'
<1>1. /\ rs_phase = "collected" /\ rs_phase' = "sealed"
      /\ UNCHANGED <<rs_disk, rs_writes, rs_terminal, rs_reading, rs_collected, rs_missing>>
  BY DEF Sealing!Seal
<1>2. Sealing!Total' = Sealing!Total /\ Sealing!Total <= rs_MaxTotal /\ Sealing!Total \in Nat
  BY <1>1, CollectedIsKept, HeldIsFinite DEF SealingInv, HeldFits
<1>3. rs_reading = Sealing!Idle
  BY <1>1 DEF SealingInv, ReadingFits
<1>4. SealingTypes' /\ HeldFits' /\ ReadingFits' /\ ReservedIsHeld'
  BY <1>1, <1>2, <1>3 DEF SealingInv, SealingTypes, FilesOnDisk, HeldFits, ReadingFits, ReservedIsHeld, Sealing!Idle
<1>5. /\ \A f \in DOMAIN rs_collected :
            rs_collected[f].first = rs_collected[f].second /\ rs_collected[f].length <= rs_MaxFile
      /\ rs_rejection # "none" => rs_reserved = 0
      /\ rs_rejection = "none" =>
            /\ rs_reserved = Sealing!Total
            /\ rs_terminal # "not_dispatched" => DOMAIN rs_collected \cup rs_missing = rs_Files
  BY <1>1 DEF SealingInv, HeldFits, ReservedIsHeld
<1>6. ASSUME rs_result' = [terminal |-> "redaction_failed", artifacts |-> {}, missing |-> {}],
             rs_reserved' = 0
      PROVE  Sealing!ArtifactsAreSnapshots'
  BY <1>1, <1>6, SealingAssumed DEF Sealing!ArtifactsAreSnapshots
<1>7. ASSUME NEW detected \in BOOLEAN, NEW why,
             why = IF detected THEN "credential_detected" ELSE rs_rejection,
             rs_result' = [terminal |-> Sealing!FinalTerminal(why),
                           artifacts |-> IF Sealing!Rejected(why) THEN {} ELSE DOMAIN rs_collected,
                           missing |-> IF rs_terminal = "not_dispatched" THEN rs_Files
                                       ELSE IF Sealing!Rejected(rs_rejection) THEN {} ELSE rs_missing],
             rs_reserved' = IF Sealing!Rejected(why) THEN 0 ELSE rs_reserved
      PROVE  Sealing!ArtifactsAreSnapshots'
  <2>1. CASE Sealing!Rejected(why)
    BY <1>1, <1>7, <2>1, SealingAssumed DEF Sealing!ArtifactsAreSnapshots, Sealing!FinalTerminal
  <2>2. CASE ~Sealing!Rejected(why)
    <3>1. why = "none" /\ rs_rejection = "none"
      BY <1>7, <2>2 DEF Sealing!Rejected
    <3>2. rs_result'.artifacts = DOMAIN rs_collected /\ rs_reserved' = Sealing!Total
      BY <1>5, <1>7, <2>2, <3>1
    <3>3. rs_result'.artifacts = {} => Sealing!Total = 0
      BY <3>2, NothingIsHeld
    <3>4. rs_result'.terminal = rs_terminal
      BY <1>7, <2>2 DEF Sealing!FinalTerminal
    <3>5. rs_result'.terminal = "success" => rs_result'.artifacts \cup rs_result'.missing = rs_Files
      BY <1>5, <1>7, <2>2, <3>1, <3>2, <3>4 DEF Sealing!Rejected
    <3> QED
      BY <1>1, <1>2, <1>5, <3>2, <3>3, <3>5 DEF Sealing!ArtifactsAreSnapshots
  <2> QED
    BY <2>1, <2>2
<1>8. Sealing!ArtifactsAreSnapshots'
  BY <1>6, <1>7 DEF Sealing!Seal
<1> QED
  BY <1>4, <1>8 DEF SealingInv

\* A collection starts within its invariant.
LEMMA SealingStarts == Sealing!Init => SealingInv
<1> SUFFICES ASSUME Sealing!Init
             PROVE  SealingInv
  OBVIOUS
<1>1. DOMAIN rs_collected = {} /\ Sealing!Total = 0
  BY NothingIsHeld DEF Sealing!Init
<1>2. SealingTypes
  BY <1>1 DEF Sealing!Init, SealingTypes, FilesOnDisk, Sealing!NoFile
<1> QED
  BY <1>1, <1>2, SealingAssumed DEF Sealing!Init, SealingInv, HeldFits, ReadingFits, ReservedIsHeld,
    Sealing!ArtifactsAreSnapshots

\* Every step of it preserves the invariant.
LEMMA SealingStep == SealingInv /\ [Sealing!Next]_(Sealing!vars) => SealingInv'
<1> SUFFICES ASSUME SealingInv, [Sealing!Next]_(Sealing!vars)
             PROVE  SealingInv'
  OBVIOUS
<1>1. CASE UNCHANGED Sealing!vars
  <2>1. Sealing!Total' = Sealing!Total
    BY <1>1, CollectedIsKept DEF SealingInv, Sealing!vars
  <2> QED
    BY <1>1, <2>1 DEF Sealing!vars, SealingInv, SealingTypes, FilesOnDisk, HeldFits, ReadingFits, ReservedIsHeld,
      Sealing!ArtifactsAreSnapshots, Sealing!Idle
<1>2. CASE Sealing!Next
  BY <1>2, DiskStep, PhaseStep, OpenStep, HalfStep, RestStep, EndStep, SealedStep DEF Sealing!Next
<1> QED
  BY <1>1, <1>2

\* An artifact that is sealed is a file as it was at one moment.
LEMMA SnapshotsStay == Sealing!Spec => []Sealing!ArtifactsAreSnapshots
<1>1. SealingInv => Sealing!ArtifactsAreSnapshots
  BY DEF SealingInv
<1> QED
  BY SealingStarts, SealingStep, <1>1, PTL DEF Sealing!Spec

\* What is let out or sealed shows no credential and loses nothing else, whatever
\* the patterns, the chunks in which output arrives and the segments it is sealed
\* in; an artifact is one content its file had, whatever survivors of the command
\* wrote meanwhile, and it is paid for (drain_stable,
\* redact_governed_segments_owned, collect_raw, seal_batch).
THEOREM OutputStaysExact == Redactor!Spec /\ Sealing!Spec => []OutputIsExact
<1>1. Redactor!RedactionIsExact /\ Sealing!ArtifactsAreSnapshots => OutputIsExact
  BY DEF OutputIsExact
<1> QED
  BY <1>1, RedactionStaysExact, SnapshotsStay, PTL

-----------------------------------------------------------------------------
(* What a call leaves behind.                                              *)

Texts == Seq(cp_Bytes \cup {cp_Marker})

\* Where a match of a text covers it.
Covers(m, i) == m.start <= i /\ i < m.end
Uncovered(s, i) == \A m \in Persisted!Matches(s) : ~Covers(m, i)

\* What is assumed of secrets, drafts and the limit.
LEMMA PersistedAssumed ==
    /\ \A secrets \in cp_Secrets : \A p \in secrets : p \in Seq(cp_Bytes) /\ p # <<>>
    /\ \A secrets \in cp_Secrets : \A p \in secrets : \A i \in DOMAIN p : p[i] # cp_Marker
    /\ \A s \in cp_Drafts : s \in Seq(cp_Bytes)
    /\ cp_MaxTotal \in Nat
BY ComponentAssumption DEF Persisted!PersistenceAssumption

\* The cardinality of the part is the one of the library.
LEMMA PersistedCounts ==
    \A S : Persisted!Cardinality(S) = Cardinality(S) /\ (Persisted!IsFiniteSet(S) <=> IsFiniteSet(S))
BY Zenon DEF Cardinality, IsFiniteSet, Persisted!Cardinality, Persisted!IsFiniteSet

\* A pattern is a sequence of bytes, none of which is the replacement.
LEMMA PatternsAreBytes ==
    ASSUME cp_patterns \in cp_Secrets, NEW p \in cp_patterns
    PROVE  /\ p \in Texts /\ Len(p) \in Nat \ {0} /\ DOMAIN p = 1..Len(p)
           /\ \A i \in 1..Len(p) : p[i] # cp_Marker
<1>1. p \in Seq(cp_Bytes) /\ p # <<>> /\ \A i \in DOMAIN p : p[i] # cp_Marker
  BY PersistedAssumed
<1>2. Len(p) \in Nat \ {0} /\ DOMAIN p = 1..Len(p)
  BY <1>1, EmptySeq, LenProperties
<1>3. p \in Texts
  BY <1>1, SeqMonotonic DEF Texts
<1> QED
  BY <1>1, <1>2, <1>3

\* A pattern occurs where it agrees with every byte.
LEMMA OccursByEveryByte ==
    ASSUME NEW p \in Texts, NEW s \in Texts, NEW at \in Nat \ {0}
    PROVE  Persisted!Occurs(p, s, at) <=>
             at + Len(p) - 1 <= Len(s) /\ \A j \in 1..Len(p) : s[at + j - 1] = p[j]
<1> DEFINE n == at + Len(p) - 1
           T == cp_Bytes \cup {cp_Marker}
<1>1. Len(p) \in Nat /\ Len(s) \in Nat /\ n \in Int /\ at \in Int
  BY LenProperties DEF Texts
<1>2. CASE n <= Len(s)
  <2>1. \A i \in at..n : s[i] \in T
    <3>1. \A i \in at..n : i \in 1..Len(s)
      BY <1>1, <1>2
    <3> QED
      BY <3>1, ElementOfSeq DEF Texts
  <2>2. /\ SubSeq(s, at, n) \in Seq(T)
        /\ Len(SubSeq(s, at, n)) = IF at <= n THEN n - at + 1 ELSE 0
        /\ \A i \in 1..n - at + 1 : SubSeq(s, at, n)[i] = s[at + i - 1]
    <3> HIDE DEF n
    <3> QED
      BY <1>1, <2>1, SubSeqProperties
  <2>3. Len(SubSeq(s, at, n)) = Len(p) /\ n - at + 1 = Len(p)
    BY <1>1, <2>2
  <2>4. \A i \in 1..Len(p) : SubSeq(s, at, n)[i] = s[at + i - 1]
    BY <2>2, <2>3
  <2> DEFINE q == SubSeq(s, at, n)
  <2>5. q \in Seq(T) /\ p \in Seq(T) /\ Len(q) = Len(p)
    BY <2>2, <2>3 DEF Texts
  <2>6. \A i \in 1..Len(p) : q[i] = s[at + i - 1]
    BY <2>4
  <2> HIDE DEF q, T
  <2>7. q = p <=> \A j \in 1..Len(p) : q[j] = p[j]
    BY <2>5, SeqEqual
  <2>8. q = p <=> \A j \in 1..Len(p) : s[at + j - 1] = p[j]
    BY <2>6, <2>7
  <2> QED
    BY <1>2, <2>8 DEF Persisted!Occurs, q
<1>3. CASE ~(n <= Len(s))
  BY <1>3 DEF Persisted!Occurs
<1> QED
  BY <1>2, <1>3

\* Where a pattern occurs there is a candidate, which is as long as one that does.
LEMMA CandidatesOccur ==
    ASSUME cp_patterns \in cp_Secrets, NEW s \in Texts
    PROVE  /\ \A c \in Persisted!Candidates(s) :
                 /\ c.start \in 1..Len(s) /\ c.end \in Nat /\ c.start < c.end
                 /\ \E p \in cp_patterns : Persisted!Occurs(p, s, c.start) /\ c.end = c.start + Len(p)
           /\ \A p \in cp_patterns, at \in Nat \ {0} :
                 Persisted!Occurs(p, s, at) => at \in DOMAIN s /\ \E c \in Persisted!Candidates(s) : c.start = at
           /\ \A c, d \in Persisted!Candidates(s) : c.start = d.start => c = d
<1>0. Len(s) \in Nat /\ DOMAIN s = 1..Len(s)
  BY LenProperties DEF Texts
<1> DEFINE L(at) == Persisted!MatchesAt(s, at)
           C(at) == [start |-> at, end |-> at + Persisted!Max(L(at))]
<1>1. ASSUME NEW at \in 1..Len(s), L(at) # {}
      PROVE  \E p \in cp_patterns : Persisted!Occurs(p, s, at) /\ Persisted!Max(L(at)) = Len(p)
  <2>1. L(at) = {Len(p) : p \in {q \in cp_patterns : Persisted!Occurs(q, s, at)}}
    BY DEF Persisted!MatchesAt
  <2>2. L(at) \in SUBSET Nat /\ \A n \in L(at) : n <= Len(s)
    BY <1>0, <2>1, PatternsAreBytes DEF Persisted!Occurs
  <2>3. \E n \in L(at) : \A m \in L(at) : n >= m
    <3> HIDE DEF L
    <3> QED
      BY <1>0, <1>1, <2>2, Greatest
  <2>4. Persisted!Max(L(at)) \in L(at)
    BY <2>3 DEF Persisted!Max
  <2> QED
    BY <2>1, <2>4
<1>2. Persisted!Candidates(s) = {C(at) : at \in {i \in 1..Len(s) : L(i) # {}}}
  BY <1>0 DEF Persisted!Candidates
<1>3. \A at : (C(at)).start = at /\ (C(at)).end = at + Persisted!Max(L(at))
  OBVIOUS
<1> HIDE DEF C
<1>4. ASSUME NEW c \in Persisted!Candidates(s)
      PROVE  /\ c.start \in 1..Len(s) /\ c.end \in Nat /\ c.start < c.end /\ c = C(c.start)
             /\ \E p \in cp_patterns : Persisted!Occurs(p, s, c.start) /\ c.end = c.start + Len(p)
  <2>1. PICK at \in 1..Len(s) : L(at) # {} /\ c = C(at)
    BY <1>2
  <2>2. PICK p \in cp_patterns : Persisted!Occurs(p, s, at) /\ Persisted!Max(L(at)) = Len(p)
    BY <1>1, <2>1
  <2>3. Len(p) \in Nat \ {0}
    BY PatternsAreBytes
  <2>4. c.start = at /\ c.end = at + Len(p)
    BY <1>3, <2>1, <2>2
  <2> QED
    BY <1>0, <2>1, <2>2, <2>3, <2>4
<1>5. ASSUME NEW p \in cp_patterns, NEW at \in Nat \ {0}, Persisted!Occurs(p, s, at)
      PROVE  at \in DOMAIN s /\ \E c \in Persisted!Candidates(s) : c.start = at
  <2>1. at + Len(p) - 1 <= Len(s) /\ Len(p) \in Nat \ {0}
    BY <1>5, PatternsAreBytes DEF Persisted!Occurs
  <2>2. at \in 1..Len(s)
    BY <1>0, <2>1
  <2>3. L(at) # {}
    BY <1>5 DEF Persisted!MatchesAt
  <2>4. C(at) \in Persisted!Candidates(s)
    BY <1>2, <2>2, <2>3
  <2> QED
    BY <1>0, <1>3, <2>2, <2>4
<1> QED
  BY <1>4, <1>5

\* The search for matches finds some: from one place to the next, a match begins
\* there where one may and no earlier one goes on.
LEMMA MatchesAreFound ==
    ASSUME cp_patterns \in cp_Secrets, NEW s \in Texts
    PROVE  /\ Persisted!Matches(s) \subseteq Persisted!Candidates(s)
           /\ \A c \in Persisted!Candidates(s) :
                 c \in Persisted!Matches(s) <=> ~\E m \in Persisted!Matches(s) : Persisted!Within(c, m)
<1> DEFINE C == Persisted!Candidates(s)
           Solves(F, n) == /\ F \in SUBSET C /\ \A m \in F : m.start <= n
                           /\ \A c \in C : c.start <= n => (c \in F <=> ~\E m \in F : Persisted!Within(c, m))
           Unsolved == {n \in Nat : ~\E F \in SUBSET C : Solves(F, n)}
<1>0. Len(s) \in Nat
  BY LenProperties DEF Texts
<1>1. (\A c \in C : c.start \in 1..Len(s) /\ c.start \in Nat /\ c.start > 0 /\ c.end \in Nat)
      /\ \A c, d \in C : c.start = d.start => c = d
  BY <1>0, CandidatesOccur
<1> HIDE DEF C
<1>2. Unsolved = {}
  <2> SUFFICES ASSUME Unsolved # {} PROVE FALSE
    OBVIOUS
  <2>1. PICK n \in Unsolved : \A m \in Unsolved : n <= m
    <3>1. Unsolved \in SUBSET Nat
      OBVIOUS
    <3> HIDE DEF Unsolved
    <3> QED
      BY <3>1, Least
  <2>2. n # 0
    <3>1. Solves({}, 0) /\ {} \in SUBSET C
      BY <1>1
    <3>2. \E F \in SUBSET C : Solves(F, 0)
      BY <3>1, Zenon
    <3> HIDE DEF Solves
    <3> QED
      BY <2>1, <3>2
  <2>3. n - 1 \in Nat /\ n - 1 \notin Unsolved /\ n \in Nat
    BY <2>1, <2>2
  <2>4. PICK F \in SUBSET C : Solves(F, n - 1)
    BY <2>3
  <2>5. CASE \A c \in C : c.start = n => \E m \in F : Persisted!Within(c, m)
    <3>1. Solves(F, n)
      <4>1. \A m \in F : m.start <= n /\ m.start # n
        BY <1>1, <2>3, <2>4
      <4>2. ASSUME NEW c \in C, c.start <= n
            PROVE  c \in F <=> ~\E m \in F : Persisted!Within(c, m)
        <5>1. CASE c.start = n
          BY <2>5, <4>1, <5>1
        <5>2. CASE c.start # n
          <6>1. c.start <= n - 1
            BY <1>1, <2>3, <4>2, <5>2
          <6> QED
            BY <2>4, <6>1
        <5> QED
          BY <5>1, <5>2
      <4> QED
        BY <2>4, <4>1, <4>2
    <3> QED
      BY <2>1, <3>1
  <2>6. CASE \E c \in C : c.start = n /\ ~\E m \in F : Persisted!Within(c, m)
    <3>1. PICK c \in C : c.start = n /\ ~\E m \in F : Persisted!Within(c, m)
      BY <2>6
    <3> DEFINE G == F \cup {c}
    <3>2. \A m \in F : m.start <= n - 1
      BY <2>4
    <3>3. \A d \in C : d.start <= n => ~Persisted!Within(d, c)
      BY <1>1, <2>3, <3>1 DEF Persisted!Within
    <3>4. \A d \in C : d.start <= n => d = c \/ d.start <= n - 1
      BY <1>1, <2>3, <3>1
    <3>5. G \in SUBSET C /\ \A m \in G : m.start <= n
      BY <1>1, <2>3, <3>1, <3>2
    <3>6. ASSUME NEW d \in C, d.start <= n
          PROVE  d \in G <=> ~\E m \in G : Persisted!Within(d, m)
      <4>1. (\E m \in G : Persisted!Within(d, m)) <=> \E m \in F : Persisted!Within(d, m)
        BY <3>3, <3>6
      <4>2. CASE d = c
        BY <3>1, <4>1, <4>2
      <4>3. CASE d # c
        <5>1. d.start <= n - 1
          BY <3>4, <3>6, <4>3
        <5>2. d \in F <=> ~\E m \in F : Persisted!Within(d, m)
          BY <2>4, <5>1
        <5> QED
          BY <4>1, <4>3, <5>2
      <4> QED
        BY <4>2, <4>3
    <3>7. Solves(G, n)
      BY <3>5, <3>6
    <3> QED
      BY <2>1, <3>5, <3>7
  <2> QED
    BY <2>5, <2>6
<1>3. \E F \in SUBSET C : Solves(F, Len(s))
  BY <1>0, <1>2
<1>4. \E F \in SUBSET C : \A c \in C : c \in F <=> ~\E m \in F : Persisted!Within(c, m)
  BY <1>1, <1>3
<1> QED
  BY <1>4 DEF C, Persisted!Matches

\* What a match covers belongs to a secret, and where a secret begins a match covers it.
LEMMA MatchesAreSecrets ==
    ASSUME cp_patterns \in cp_Secrets, NEW s \in Texts
    PROVE  /\ \A m \in Persisted!Matches(s) :
                 m.start \in 1..Len(s) /\ m.end \in Nat /\ m.start < m.end
           /\ \A m \in Persisted!Matches(s), i \in 1..Len(s) : Covers(m, i) => Persisted!InSecret(s, i)
           /\ \A p \in cp_patterns, at \in Nat \ {0} :
                 Persisted!Occurs(p, s, at) => \E m \in Persisted!Matches(s) : Covers(m, at)
<1>0. Len(s) \in Nat
  BY LenProperties DEF Texts
<1>1. \A m \in Persisted!Matches(s) :
         /\ m.start \in 1..Len(s) /\ m.end \in Nat /\ m.start < m.end
         /\ \E p \in cp_patterns : Persisted!Occurs(p, s, m.start) /\ m.end = m.start + Len(p)
  BY CandidatesOccur, MatchesAreFound
<1>2. ASSUME NEW m \in Persisted!Matches(s), NEW i \in 1..Len(s), Covers(m, i)
      PROVE  Persisted!InSecret(s, i)
  <2>1. m.start \in 1..i /\ m.end > i
    BY <1>0, <1>1, <1>2 DEF Covers
  <2> QED
    BY <1>1, <2>1 DEF Persisted!InSecret
<1>3. ASSUME NEW p \in cp_patterns, NEW at \in Nat \ {0}, Persisted!Occurs(p, s, at)
      PROVE  \E m \in Persisted!Matches(s) : Covers(m, at)
  <2>1. PICK c \in Persisted!Candidates(s) : c.start = at
    BY <1>3, CandidatesOccur
  <2>2. CASE c \in Persisted!Matches(s)
    BY <1>1, <2>1, <2>2 DEF Covers
  <2>3. CASE c \notin Persisted!Matches(s)
    <3>1. PICK m \in Persisted!Matches(s) : Persisted!Within(c, m)
      BY <2>3, MatchesAreFound
    <3>2. m.start \in Int /\ m.end \in Int
      BY <1>0, <1>1
    <3> QED
      BY <2>1, <3>1, <3>2 DEF Covers, Persisted!Within
  <2> QED
    BY <2>2, <2>3
<1> QED
  BY <1>1, <1>2, <1>3

\* Redaction in place keeps the length of a text, leaves no pattern in it, and changes
\* nothing but what belongs to a secret.
LEMMA InPlaceIsSafe ==
    ASSUME cp_patterns \in cp_Secrets, NEW s \in Texts
    PROVE  LET t == Persisted!InPlace(s)
           IN  /\ t \in Texts /\ Len(t) = Len(s)
               /\ \A p \in cp_patterns, at \in Nat \ {0} : ~Persisted!Occurs(p, t, at)
               /\ \A i \in 1..Len(s) : t[i] # s[i] => t[i] = cp_Marker /\ Persisted!InSecret(s, i)
<1> DEFINE t == Persisted!InPlace(s)
           M == Persisted!Matches(s)
<1>0. Len(s) \in Nat /\ DOMAIN s = 1..Len(s)
  BY LenProperties DEF Texts
<1>1. \A m \in M : m.start \in 1..Len(s) /\ m.end \in Nat
  BY MatchesAreSecrets
<1>2. DOMAIN t = 1..Len(s)
      /\ \A i \in 1..Len(s) : t[i] = IF \E m \in M : i \in m.start..m.end - 1 THEN cp_Marker ELSE s[i]
  BY <1>0 DEF Persisted!InPlace
<1>3. \A m \in M, i \in 1..Len(s) : i \in m.start..m.end - 1 <=> Covers(m, i)
  BY <1>0, <1>1 DEF Covers
<1>4. \A i \in 1..Len(s) : t[i] = IF \E m \in M : Covers(m, i) THEN cp_Marker ELSE s[i]
  BY <1>2, <1>3
<1> HIDE DEF M
<1>5. t = [i \in 1..Len(s) |-> t[i]] /\ \A i \in 1..Len(s) : t[i] \in cp_Bytes \cup {cp_Marker}
  <2>1. \A i \in 1..Len(s) : s[i] \in cp_Bytes \cup {cp_Marker}
    BY ElementOfSeq DEF Texts
  <2>2. t = [i \in 1..Len(s) |-> t[i]]
    BY <1>0 DEF Persisted!InPlace
  <2> HIDE DEF t
  <2> QED
    BY <1>4, <2>1, <2>2
<1>6. t \in Texts /\ Len(t) = Len(s)
  <2> HIDE DEF t
  <2>1. t \in [1..Len(s) -> cp_Bytes \cup {cp_Marker}]
    BY <1>5
  <2>2. t \in Texts
    BY <1>0, <2>1, SeqDef DEF Texts
  <2> QED
    BY <1>0, <1>2, <2>2, LenProperties DEF Texts
<1>7. ASSUME NEW p \in cp_patterns, NEW at \in Nat \ {0}, Persisted!Occurs(p, t, at)
      PROVE  FALSE
  <2>1. p \in Texts /\ Len(p) \in Nat \ {0} /\ \A j \in 1..Len(p) : p[j] # cp_Marker
    BY PatternsAreBytes
  <2> HIDE DEF t
  <2>2. at + Len(p) - 1 <= Len(s) /\ \A j \in 1..Len(p) : t[at + j - 1] = p[j]
    BY <1>6, <1>7, <2>1, OccursByEveryByte
  <2>3. \A j \in 1..Len(p) : at + j - 1 \in 1..Len(s)
    BY <1>0, <2>1, <2>2
  <2>4. \A j \in 1..Len(p) : s[at + j - 1] = p[j] /\ ~\E m \in M : Covers(m, at + j - 1)
    BY <1>4, <2>1, <2>2, <2>3
  <2>5. Persisted!Occurs(p, s, at)
    BY <2>1, <2>2, <2>4, OccursByEveryByte
  <2>6. 1 \in 1..Len(p) /\ at + 1 - 1 = at
    BY <2>1
  <2>7. ~\E m \in M : Covers(m, at)
    BY <2>4, <2>6
  <2> QED
    BY <2>5, <2>7, MatchesAreSecrets DEF M
<1>8. ASSUME NEW i \in 1..Len(s), t[i] # s[i]
      PROVE  t[i] = cp_Marker /\ Persisted!InSecret(s, i)
  BY <1>4, <1>8, MatchesAreSecrets DEF M
<1> QED
  BY <1>6, <1>7, <1>8

\* The places of several texts are counted text by text.
LEMMA PlacesAreCounted ==
    ASSUME NEW segments \in Seq(Texts)
    PROVE  /\ \A ks \in SUBSET (1..Len(segments)) : IsFiniteSet(Persisted!Places(segments, ks))
           /\ \A k \in 1..Len(segments) + 1 : Persisted!Before(segments, k) \in Nat
           /\ Persisted!Before(segments, 1) = 0
           /\ \A k \in 1..Len(segments) :
                 Persisted!Before(segments, k + 1) = Persisted!Before(segments, k) + Len(segments[k])
           /\ Persisted!Sum(segments) = Persisted!Before(segments, Len(segments) + 1)
           /\ \A j, k \in 1..Len(segments) + 1 :
                 j <= k => Persisted!Before(segments, j) <= Persisted!Before(segments, k)
<1> DEFINE N == Len(segments)
           P(ks) == Persisted!Places(segments, ks)
           One(k) == {k} \X DOMAIN segments[k]
<1>0. N \in Nat /\ DOMAIN segments = 1..N
  BY LenProperties
<1>1. ASSUME NEW k \in 1..N
      PROVE  IsFiniteSet(One(k)) /\ Cardinality(One(k)) = Len(segments[k]) /\ Len(segments[k]) \in Nat
  <2>1. segments[k] \in Texts
    BY <1>0, <1>1, ElementOfSeq
  <2>2. Len(segments[k]) \in Nat /\ DOMAIN segments[k] = 1..Len(segments[k])
    BY <2>1, LenProperties DEF Texts
  <2> DEFINE l == Len(segments[k])
  <2>3. IsFiniteSet(1..l) /\ Cardinality(1..l) = l
    <3>1. l \in Nat
      BY <2>2
    <3> HIDE DEF l
    <3>2. 1 \in Int /\ l \in Int
      BY <3>1
    <3>3. IsFiniteSet(1..l) /\ Cardinality(1..l) = IF 1 > l THEN 0 ELSE l - 1 + 1
      BY <3>2, FS_Interval
    <3> QED
      BY <3>1, <3>3
  <2>4. IsFiniteSet({k}) /\ Cardinality({k}) = 1
    BY FS_Singleton
  <2>5. IsFiniteSet({k} \X (1..l)) /\ Cardinality({k} \X (1..l)) = 1 * l
    <3> HIDE DEF l
    <3> QED
      BY <2>3, <2>4, FS_Product
  <2> QED
    BY <2>2, <2>5
<1>2. \A ks : P(ks) = UNION {One(k) : k \in ks}
  BY DEF Persisted!Places
<1> HIDE DEF One
<1>3. ASSUME NEW ks \in SUBSET (1..N)
      PROVE  IsFiniteSet(P(ks))
  <2> DEFINE Ones == {One(k) : k \in ks}
             g == [k \in ks |-> One(k)]
  <2>1. IsFiniteSet(ks)
    <3>1. IsFiniteSet(1..N)
      BY <1>0, FS_Interval
    <3> QED
      BY <3>1, FS_Subset
  <2>2. IsFiniteSet(Ones)
    <3>1. g \in Surjection(ks, Ones)
      BY DEF Surjection
    <3> HIDE DEF g, Ones
    <3> QED
      BY <2>1, <3>1, FS_Surjection
  <2>3. \A T \in Ones : IsFiniteSet(T)
    BY <1>1
  <2> HIDE DEF Ones
  <2>4. IsFiniteSet(UNION Ones)
    BY <2>2, <2>3, FS_UNION
  <2> QED
    BY <1>2, <2>4 DEF Ones
<1> DEFINE B(k) == Persisted!Before(segments, k)
<1>4. \A k : B(k) = Cardinality(P(1..k - 1))
  BY PersistedCounts DEF Persisted!Before
<1>5. \A k \in 1..N + 1 : 1..k - 1 \in SUBSET (1..N)
  BY <1>0
<1> HIDE DEF P
<1>6. \A k \in 1..N + 1 : B(k) \in Nat
  BY <1>3, <1>4, <1>5, FS_CardinalityType
<1>7. B(1) = 0
  <2>1. 1..1 - 1 = {}
    OBVIOUS
  <2>2. P({}) = {}
    BY <1>2
  <2> QED
    BY <1>4, <2>1, <2>2, FS_EmptySet
<1>8. ASSUME NEW k \in 1..N
      PROVE  B(k + 1) = B(k) + Len(segments[k])
  <2>1. k \in 1..N + 1 /\ k + 1 \in 1..N + 1 /\ (1..k + 1 - 1) = (1..k - 1) \cup {k} /\ k \notin 1..k - 1
    BY <1>0
  <2>2. P(1..k + 1 - 1) = P(1..k - 1) \cup One(k)
    BY <1>2, <2>1
  <2>3. P(1..k - 1) \cap One(k) = {}
    BY <1>2, <2>1 DEF One
  <2>4. IsFiniteSet(P(1..k - 1)) /\ IsFiniteSet(One(k))
    BY <1>1, <1>3, <1>5, <2>1
  <2> DEFINE S == P(1..k - 1)
             T == One(k)
  <2>5. IsFiniteSet(S) /\ IsFiniteSet(T) /\ S \cap T = {}
    BY <2>3, <2>4
  <2>6. Cardinality(S \cup T) = Cardinality(S) + Cardinality(T)
    <3> HIDE DEF S, T
    <3>1. Cardinality(S \cup T) = Cardinality(S) + Cardinality(T) - Cardinality(S \cap T)
      BY <2>5, FS_Union
    <3>2. Cardinality(S \cap T) = 0 /\ Cardinality(S) \in Nat /\ Cardinality(T) \in Nat
      BY <2>5, FS_EmptySet, FS_CardinalityType
    <3> QED
      BY <3>1, <3>2
  <2>7. B(k) = Cardinality(S) /\ B(k + 1) = Cardinality(S \cup T)
    <3>1. \A i : B(i) = Cardinality(P(1..i - 1))
      BY <1>4
    <3>2. B(k) = Cardinality(P(1..k - 1))
      BY <3>1
    <3>3. B(k + 1) = Cardinality(P(1..k + 1 - 1))
      BY <3>1
    <3> HIDE DEF B
    <3> QED
      BY <2>2, <3>2, <3>3
  <2> QED
    BY <1>1, <2>6, <2>7
<1>9. Persisted!Sum(segments) = B(N + 1)
  <2>1. 1..(N + 1) - 1 = 1..N
    BY <1>0
  <2> QED
    BY <1>0, <1>4, <2>1, PersistedCounts DEF Persisted!Sum, P
<1>10. ASSUME NEW j \in 1..N + 1, NEW k \in 1..N + 1, j <= k
       PROVE  B(j) <= B(k)
  <2>1. 1..j - 1 \subseteq 1..k - 1
    BY <1>0, <1>10
  <2>2. P(1..j - 1) \in SUBSET P(1..k - 1)
    BY <1>2, <2>1
  <2>3. IsFiniteSet(P(1..k - 1))
    BY <1>3, <1>5
  <2>4. Cardinality(P(1..j - 1)) <= Cardinality(P(1..k - 1))
    BY <2>2, <2>3, FS_Subset
  <2> QED
    BY <1>4, <2>4
<1> HIDE DEF B
<1> QED
  BY <1>3, <1>6, <1>7, <1>8, <1>9, <1>10 DEF B, P

\* Every byte of the one text comes from one part, at its place there.
LEMMA PartsAreFound ==
    ASSUME NEW segments \in Seq(Texts)
    PROVE  /\ \A n \in 1..Persisted!Sum(segments) :
                 LET k == Persisted!PartOf(segments, n)
                 IN  /\ k \in 1..Len(segments)
                     /\ n - Persisted!Before(segments, k) \in 1..Len(segments[k])
           /\ \A k \in 1..Len(segments) : \A i \in 1..Len(segments[k]) :
                 /\ Persisted!Before(segments, k) + i \in 1..Persisted!Sum(segments)
                 /\ Persisted!PartOf(segments, Persisted!Before(segments, k) + i) = k
<1> DEFINE N == Len(segments)
           B(k) == Persisted!Before(segments, k)
           l(k) == Len(segments[k])
           total == Persisted!Sum(segments)
<1>0. N \in Nat /\ DOMAIN segments = 1..N
  BY LenProperties
<1>1. \A k \in 1..N : l(k) \in Nat
  <2>1. \A k \in 1..N : segments[k] \in Texts
    BY <1>0, ElementOfSeq
  <2> QED
    BY <2>1, LenProperties DEF Texts
<1>2. /\ \A k \in 1..N + 1 : B(k) \in Nat
      /\ B(1) = 0 /\ total = B(N + 1)
      /\ \A k \in 1..N : B(k + 1) = B(k) + l(k)
      /\ \A j, k \in 1..N + 1 : j <= k => B(j) <= B(k)
  BY PlacesAreCounted
<1>3. \A n : Persisted!PartOf(segments, n) = CHOOSE k \in 1..N : n \in B(k) + 1..B(k) + l(k)
  BY <1>0 DEF Persisted!PartOf
<1> HIDE DEF B, l, total, N
<1>4. ASSUME NEW n \in 1..total
      PROVE  \E k \in 1..N : n \in B(k) + 1..B(k) + l(k)
  <2>0. total \in Nat /\ n \in Nat /\ N + 1 \in 1..N + 1
    BY <1>0, <1>2
  <2> DEFINE S == {k \in Nat : k \in 1..N /\ n <= B(k + 1)}
  <2>1. N # 0
    BY <1>2, <2>0
  <2>2. N \in S
    BY <1>0, <1>2, <2>0, <2>1
  <2>3. S \in SUBSET Nat
    OBVIOUS
  <2>4. PICK k \in S : \A j \in S : k <= j
    <3> HIDE DEF S
    <3> QED
      BY <2>2, <2>3, Least
  <2>5. k \in 1..N /\ k \in Nat /\ k \in 1..N + 1 /\ k + 1 \in 1..N + 1 /\ n <= B(k + 1)
    BY <1>0, <2>4
  <2>6. n > B(k)
    <3>1. CASE k = 1
      BY <1>2, <2>0, <3>1
    <3>2. CASE k # 1
      <4>1. k - 1 \in Nat /\ k - 1 \in 1..N /\ (k - 1) + 1 = k /\ ~(k <= k - 1)
        BY <1>0, <2>5, <3>2
      <4>2. ~(n <= B((k - 1) + 1))
        BY <2>4, <4>1
      <4>3. B((k - 1) + 1) = B(k) /\ B(k) \in Nat
        BY <1>2, <2>5, <4>1
      <4> QED
        BY <2>0, <4>2, <4>3
    <3> QED
      BY <3>1, <3>2
  <2>7. B(k + 1) = B(k) + l(k) /\ B(k) \in Nat /\ l(k) \in Nat
    BY <1>1, <1>2, <2>5
  <2> QED
    BY <2>0, <2>5, <2>6, <2>7
<1>5. ASSUME NEW j \in 1..N, NEW k \in 1..N, j < k
      PROVE  B(j) + l(j) <= B(k) /\ B(j) \in Nat /\ l(j) \in Nat /\ B(k) \in Nat /\ l(k) \in Nat
  <2>1. j + 1 \in 1..N + 1 /\ k \in 1..N + 1 /\ j \in 1..N + 1 /\ j + 1 <= k
    BY <1>0, <1>5
  <2> QED
    BY <1>1, <1>2, <2>1
<1>6. ASSUME NEW j \in 1..N, NEW k \in 1..N, NEW n \in Int,
             n \in B(j) + 1..B(j) + l(j), n \in B(k) + 1..B(k) + l(k)
      PROVE  j = k
  <2>1. ~(j < k)
    BY <1>5, <1>6
  <2>2. ~(k < j)
    BY <1>5, <1>6
  <2> QED
    BY <1>0, <2>1, <2>2
<1>7. ASSUME NEW n \in 1..total
      PROVE  /\ Persisted!PartOf(segments, n) \in 1..N
             /\ n \in B(Persisted!PartOf(segments, n)) + 1..B(Persisted!PartOf(segments, n)) + l(Persisted!PartOf(segments, n))
  BY <1>3, <1>4
<1>8. ASSUME NEW n \in 1..total
      PROVE  n - B(Persisted!PartOf(segments, n)) \in 1..l(Persisted!PartOf(segments, n))
  <2> DEFINE k == Persisted!PartOf(segments, n)
  <2>1. k \in 1..N /\ k \in 1..N + 1 /\ n \in B(k) + 1..B(k) + l(k)
    BY <1>0, <1>7
  <2>2. B(k) \in Nat /\ l(k) \in Nat
    BY <1>1, <1>2, <2>1
  <2> HIDE DEF k
  <2>3. n - B(k) \in 1..l(k)
    BY <2>1, <2>2
  <2> QED
    BY <2>3 DEF k
<1>9. ASSUME NEW k \in 1..N, NEW i \in 1..l(k)
      PROVE  B(k) + i \in 1..total /\ Persisted!PartOf(segments, B(k) + i) = k
  <2>1. k \in 1..N + 1 /\ k + 1 \in 1..N + 1 /\ N + 1 \in 1..N + 1 /\ k + 1 <= N + 1
    BY <1>0
  <2>2. B(k) \in Nat /\ l(k) \in Nat /\ B(k + 1) = B(k) + l(k) /\ B(k + 1) <= B(N + 1) /\ B(N + 1) \in Nat
    BY <1>1, <1>2, <2>1
  <2>3. B(k) + i \in 1..total /\ B(k) + i \in B(k) + 1..B(k) + l(k) /\ B(k) + i \in Int
    BY <1>2, <2>2
  <2>4. Persisted!PartOf(segments, B(k) + i) \in 1..N
        /\ B(k) + i \in B(Persisted!PartOf(segments, B(k) + i)) + 1
                        ..B(Persisted!PartOf(segments, B(k) + i)) + l(Persisted!PartOf(segments, B(k) + i))
    BY <1>7, <2>3
  <2> QED
    BY <1>6, <2>3, <2>4
<1> QED
  BY <1>7, <1>8, <1>9 DEF B, l, total, N

\* The one text has every byte of every part.
LEMMA OneTextHasAll ==
    ASSUME NEW segments \in Seq(Texts)
    PROVE  /\ Persisted!OneText(segments) \in Texts
           /\ Persisted!Sum(segments) \in Nat
           /\ Len(Persisted!OneText(segments)) = Persisted!Sum(segments)
           /\ \A n \in 1..Persisted!Sum(segments) :
                 LET k == Persisted!PartOf(segments, n)
                 IN  Persisted!OneText(segments)[n] = segments[k][n - Persisted!Before(segments, k)]
<1> DEFINE total == Persisted!Sum(segments)
           At(n) == segments[Persisted!PartOf(segments, n)]
                            [n - Persisted!Before(segments, Persisted!PartOf(segments, n))]
           t == Persisted!OneText(segments)
<1>1. total \in Nat
  <2>1. Len(segments) \in Nat
    BY LenProperties
  <2>2. Len(segments) + 1 \in 1..Len(segments) + 1
    BY <2>1
  <2> QED
    BY <2>2, PlacesAreCounted
<1>2. t = [n \in 1..total |-> At(n)]
  BY DEF Persisted!OneText
<1>3. \A n \in 1..total : At(n) \in cp_Bytes \cup {cp_Marker}
  <2> SUFFICES ASSUME NEW n \in 1..total PROVE At(n) \in cp_Bytes \cup {cp_Marker}
    OBVIOUS
  <2> DEFINE k == Persisted!PartOf(segments, n)
             i == n - Persisted!Before(segments, k)
  <2>1. k \in 1..Len(segments) /\ i \in 1..Len(segments[k])
    BY PartsAreFound
  <2>2. segments[k] \in Texts
    <3> HIDE DEF k
    <3> QED
      BY <2>1, ElementOfSeq
  <2>3. segments[k][i] \in cp_Bytes \cup {cp_Marker}
    <3> DEFINE s == segments[k]
    <3> HIDE DEF k, i, s
    <3>1. s \in Seq(cp_Bytes \cup {cp_Marker}) /\ i \in 1..Len(s)
      BY <2>1, <2>2 DEF Texts, s
    <3>2. s[i] \in cp_Bytes \cup {cp_Marker}
      BY <3>1, ElementOfSeq
    <3> QED
      BY <3>2 DEF s
  <2> QED
    BY <2>3
<1> HIDE DEF At, t, total
<1>4. t \in Texts /\ Len(t) = total
  <2>1. t \in [1..total -> cp_Bytes \cup {cp_Marker}]
    BY <1>2, <1>3
  <2>2. t \in Texts
    BY <1>1, <2>1, SeqDef DEF Texts
  <2>3. DOMAIN t = 1..total /\ DOMAIN t = 1..Len(t) /\ Len(t) \in Nat
    BY <2>1, <2>2, LenProperties DEF Texts
  <2> QED
    BY <1>1, <2>2, <2>3
<1>5. \A n \in 1..total : t[n] = At(n)
  BY <1>2
<1> QED
  BY <1>1, <1>4, <1>5 DEF t, total, At

\* Cutting one text at the places of the parts gives parts of their lengths, and
\* they make up that text again.
LEMMA PartsMakeTheText ==
    ASSUME NEW segments \in Seq(Texts), NEW t \in Texts, Len(t) = Persisted!Sum(segments)
    PROVE  LET parts == Persisted!SplitRedacted(t, segments)
           IN  /\ parts \in Seq(Texts) /\ Len(parts) = Len(segments)
               /\ \A k \in 1..Len(segments) : Len(parts[k]) = Len(segments[k])
               /\ Persisted!OneText(parts) = t /\ Persisted!Sum(parts) = Persisted!Sum(segments)
<1> DEFINE N == Len(segments)
           B(k) == Persisted!Before(segments, k)
           l(k) == Len(segments[k])
           total == Persisted!Sum(segments)
           parts == Persisted!SplitRedacted(t, segments)
           Cut(k) == SubSeq(t, B(k) + 1, B(k) + l(k))
<1>0. N \in Nat /\ DOMAIN segments = 1..N /\ total \in Nat
  BY LenProperties, OneTextHasAll
<1>1. \A k \in 1..N : l(k) \in Nat /\ DOMAIN segments[k] = 1..l(k) /\ B(k) \in Nat
  <2>1. \A k \in 1..N : segments[k] \in Texts
    BY <1>0, ElementOfSeq
  <2>2. \A k \in 1..N : k \in 1..N + 1
    BY <1>0
  <2> QED
    BY <2>1, <2>2, LenProperties, PlacesAreCounted DEF Texts
<1>2. ASSUME NEW k \in 1..N
      PROVE  /\ Cut(k) \in Texts /\ Len(Cut(k)) = l(k)
             /\ \A i \in 1..l(k) : Cut(k)[i] = t[B(k) + i]
  <2>1. \A i \in 1..l(k) : B(k) + i \in 1..total
    BY PartsAreFound
  <2> DEFINE m == B(k) + 1
             n == B(k) + l(k)
             T == cp_Bytes \cup {cp_Marker}
  <2>2. m \in Int /\ n \in Int /\ m = B(k) + 1 /\ n = B(k) + l(k) /\ B(k) \in Nat /\ l(k) \in Nat
    BY <1>1
  <2>3. \A i \in m..n : i \in 1..total
    <3> SUFFICES ASSUME NEW i \in m..n PROVE i \in 1..total
      OBVIOUS
    <3>1. i - B(k) \in 1..l(k) /\ B(k) + (i - B(k)) = i
      BY <2>2
    <3> QED
      BY <2>1, <3>1
  <2>4. \A i \in m..n : t[i] \in T
    BY <2>3, ElementOfSeq DEF Texts
  <2> HIDE DEF m, n, T
  <2>5. /\ SubSeq(t, m, n) \in Seq(T)
        /\ Len(SubSeq(t, m, n)) = IF m <= n THEN n - m + 1 ELSE 0
        /\ \A i \in 1..n - m + 1 : SubSeq(t, m, n)[i] = t[m + i - 1]
    <3>1. m \in Int /\ n \in Int
      BY <2>2
    <3> QED
      BY <2>4, <3>1, SubSeqProperties
  <2>6. Cut(k) = SubSeq(t, m, n) /\ Seq(T) = Texts
    BY DEF m, n, T, Texts
  <2>7. n - m + 1 = l(k)
    BY <2>2
  <2>8. m <= n <=> l(k) # 0
    BY <2>2
  <2>9. \A i \in 1..l(k) : m + i - 1 = B(k) + i
    BY <2>2
  <2> HIDE DEF Cut, B, l
  <2> QED
    BY <2>2, <2>5, <2>6, <2>7, <2>8, <2>9
<1>3. parts = [k \in 1..N |-> Cut(k)]
  BY <1>0 DEF Persisted!SplitRedacted
<1> HIDE DEF Cut, parts
<1>4. parts \in Seq(Texts) /\ Len(parts) = N
  <2>1. parts \in [1..N -> Texts]
    BY <1>2, <1>3
  <2>2. parts \in Seq(Texts)
    BY <1>0, <2>1, SeqDef
  <2> QED
    BY <1>0, <2>1, <2>2, LenProperties
<1>5. \A k \in 1..N : parts[k] = Cut(k) /\ Len(parts[k]) = l(k) /\ DOMAIN parts[k] = 1..l(k)
  <2>1. \A k \in 1..N : parts[k] = Cut(k) /\ Len(parts[k]) = l(k) /\ parts[k] \in Texts
    BY <1>2, <1>3
  <2> QED
    BY <2>1, LenProperties DEF Texts
<1>6. \A ks \in SUBSET (1..N) : Persisted!Places(parts, ks) = Persisted!Places(segments, ks)
  BY <1>1, <1>5 DEF Persisted!Places
<1>7. DOMAIN parts = 1..N
  BY <1>3
<1>8. Persisted!Sum(parts) = total
  <2>1. 1..N \in SUBSET (1..N)
    OBVIOUS
  <2> QED
    BY <1>0, <1>6, <1>7, <2>1 DEF Persisted!Sum
<1>9. \A k \in 1..N + 1 : Persisted!Before(parts, k) = B(k)
  <2>1. \A k \in 1..N + 1 : 1..k - 1 \in SUBSET (1..N)
    BY <1>0
  <2> QED
    BY <1>6, <2>1 DEF Persisted!Before
<1>10. \A n : Persisted!PartOf(parts, n) = Persisted!PartOf(segments, n)
  <2> TAKE n
  <2>1. \A k \in 1..N : Persisted!Before(parts, k) = B(k) /\ Len(parts[k]) = l(k)
    <3>1. \A k \in 1..N : k \in 1..N + 1
      BY <1>0
    <3> QED
      BY <1>5, <1>9, <3>1
  <2>2. \A k : k \in 1..N /\ n \in Persisted!Before(parts, k) + 1..Persisted!Before(parts, k) + Len(parts[k])
               <=> k \in 1..N /\ n \in B(k) + 1..B(k) + l(k)
    BY <2>1
  <2>3. Persisted!PartOf(parts, n) =
          CHOOSE k \in 1..N : n \in Persisted!Before(parts, k) + 1..Persisted!Before(parts, k) + Len(parts[k])
    BY <1>7 DEF Persisted!PartOf
  <2>4. Persisted!PartOf(segments, n) = CHOOSE k \in 1..N : n \in B(k) + 1..B(k) + l(k)
    BY <1>0 DEF Persisted!PartOf
  <2> HIDE DEF B, l
  <2> QED
    BY <2>2, <2>3, <2>4
<1>11. Persisted!OneText(parts) \in Texts /\ Len(Persisted!OneText(parts)) = total
       /\ \A n \in 1..total :
            Persisted!OneText(parts)[n] =
              parts[Persisted!PartOf(parts, n)][n - Persisted!Before(parts, Persisted!PartOf(parts, n))]
  BY <1>4, <1>8, OneTextHasAll
<1>12. ASSUME NEW n \in 1..total
       PROVE  Persisted!OneText(parts)[n] = t[n]
  <2> DEFINE k == Persisted!PartOf(segments, n)
  <2>1. k \in 1..N /\ k \in 1..N + 1 /\ n - B(k) \in 1..l(k)
    <3>1. k \in 1..N /\ n - B(k) \in 1..l(k)
      BY PartsAreFound
    <3> QED
      BY <1>0, <3>1
  <2>2. Persisted!OneText(parts)[n] = parts[k][n - Persisted!Before(parts, k)]
    BY <1>10, <1>11
  <2> HIDE DEF k
  <2>3. Persisted!OneText(parts)[n] = Cut(k)[n - B(k)]
    BY <1>5, <1>9, <2>1, <2>2
  <2>4. Cut(k)[n - B(k)] = t[B(k) + (n - B(k))]
    BY <1>2, <2>1
  <2>5. B(k) + (n - B(k)) = n
    BY <1>1, <2>1
  <2> QED
    BY <2>3, <2>4, <2>5
<1>13. Persisted!OneText(parts) = t
  <2> DEFINE u == Persisted!OneText(parts)
             T == cp_Bytes \cup {cp_Marker}
  <2>1. u \in Seq(T) /\ t \in Seq(T) /\ Len(u) = Len(t) /\ \A n \in 1..Len(t) : u[n] = t[n]
    BY <1>11, <1>12 DEF Texts
  <2> HIDE DEF u, T
  <2>2. u = t
    BY <2>1, SeqEqual
  <2> QED
    BY <2>2 DEF u
<1> HIDE DEF N, B, l, total
<1> QED
  BY <1>4, <1>5, <1>8, <1>13 DEF N, l, total, parts

\* The places that are left are numbered in order, one after another.
LEMMA PlacesAreNumbered ==
    ASSUME NEW L \in Nat, NEW S \in SUBSET (1..L)
    PROVE  LET c == Persisted!Cardinality(S)
               Nth(n) == Persisted!Nth(S, n)
           IN  /\ c \in Nat /\ \A n \in 1..c : Nth(n) \in S
               /\ \A n \in 1..c : n + 1 <= c =>
                     Nth(n) < Nth(n + 1) /\ ~\E x \in S : Nth(n) < x /\ x < Nth(n + 1)
<1> DEFINE c == Persisted!Cardinality(S)
           Nth(n) == Persisted!Nth(S, n)
           UpTo(i) == {j \in S : j <= i}
           Count(i) == Cardinality(UpTo(i))
<1>0. \A j \in S : j \in Nat /\ j >= 1 /\ j <= L
  OBVIOUS
<1>1. IsFiniteSet(S) /\ c = Cardinality(S) /\ c \in Nat
  <2>1. IsFiniteSet(1..L)
    BY FS_Interval
  <2>2. IsFiniteSet(S)
    BY <2>1, FS_Subset
  <2> QED
    BY <2>2, PersistedCounts, FS_CardinalityType
<1>2. \A i : IsFiniteSet(UpTo(i)) /\ Count(i) \in Nat
  <2> TAKE i
  <2>1. UpTo(i) \in SUBSET S
    OBVIOUS
  <2> HIDE DEF UpTo
  <2>2. IsFiniteSet(UpTo(i))
    BY <1>1, <2>1, FS_Subset
  <2> QED
    BY <2>2, FS_CardinalityType
<1>3. \A n : Nth(n) = CHOOSE i \in S : Count(i) = n
  BY PersistedCounts DEF Persisted!Nth
<1>4. ASSUME NEW i \in Nat, NEW j \in Nat, i < j
      PROVE  Count(i) <= Count(j) /\ (j \in S => Count(i) < Count(j))
  <2>1. \A x : x \in UpTo(i) => x \in UpTo(j)
    <3> SUFFICES ASSUME NEW x, x \in UpTo(i) PROVE x \in UpTo(j)
      OBVIOUS
    <3>1. x \in S /\ x \in Nat /\ x <= i
      BY <1>0
    <3> QED
      BY <1>4, <3>1
  <2>2. j \in S => j \in UpTo(j) /\ j \notin UpTo(i)
    BY <1>4
  <2> HIDE DEF UpTo
  <2>3. UpTo(i) \in SUBSET UpTo(j)
    BY <2>1
  <2>4. Cardinality(UpTo(i)) <= Cardinality(UpTo(j))
        /\ (Cardinality(UpTo(j)) = Cardinality(UpTo(i)) => UpTo(j) = UpTo(i))
    BY <1>2, <2>3, FS_Subset
  <2> QED
    BY <1>2, <2>2, <2>4
<1>5. Count(0) = 0 /\ Count(L) = c
  <2>1. \A x \in S : ~(x <= 0) /\ x <= L
    BY <1>0
  <2>2. UpTo(0) = {} /\ UpTo(L) = S
    BY <2>1
  <2> HIDE DEF UpTo
  <2> QED
    BY <1>1, <2>2, FS_EmptySet
<1>6. ASSUME NEW i \in Nat
      PROVE  Count(i + 1) <= Count(i) + 1 /\ (i + 1 \notin S => Count(i + 1) = Count(i))
  <2>0. \A x \in S : (x <= i + 1 <=> x <= i \/ x = i + 1) /\ (x = i + 1 => ~(x <= i))
    BY <1>0
  <2>1. CASE i + 1 \notin S
    <3>1. UpTo(i + 1) = UpTo(i)
      BY <2>0, <2>1
    <3> HIDE DEF UpTo
    <3> QED
      BY <1>2, <2>1, <3>1
  <2>2. CASE i + 1 \in S
    <3>1. UpTo(i + 1) = UpTo(i) \cup {i + 1} /\ i + 1 \notin UpTo(i)
      BY <2>0, <2>2
    <3> HIDE DEF UpTo
    <3>2. Cardinality(UpTo(i) \cup {i + 1}) = Cardinality(UpTo(i)) + 1
      BY <1>2, <3>1, FS_AddElement
    <3> QED
      BY <1>2, <2>2, <3>1, <3>2
  <2> QED
    BY <2>1, <2>2
<1> HIDE DEF Count, c
<1>7. ASSUME NEW n \in 1..c
      PROVE  \E i \in S : Count(i) = n
  <2> DEFINE T == {i \in Nat : Count(i) >= n}
  <2>1. L \in T /\ T \in SUBSET Nat
    BY <1>1, <1>5
  <2>2. PICK i \in T : \A j \in T : i <= j
    <3> HIDE DEF T
    <3> QED
      BY <2>1, Least
  <2>3. i \in Nat /\ Count(i) >= n /\ n \in Nat /\ n >= 1
    BY <1>1, <2>2
  <2>4. i # 0
    BY <1>5, <2>3
  <2>5. i - 1 \in Nat /\ (i - 1) + 1 = i /\ Count(i - 1) < n
    <3>1. i - 1 \in Nat /\ (i - 1) + 1 = i /\ i - 1 \notin T
      BY <2>2, <2>3, <2>4
    <3>2. Count(i - 1) \in Nat
      BY <1>2
    <3> QED
      BY <2>3, <3>1, <3>2
  <2>6. Count((i - 1) + 1) <= Count(i - 1) + 1 /\ ((i - 1) + 1 \notin S => Count((i - 1) + 1) = Count(i - 1))
    BY <1>6, <2>5
  <2>7. Count(i) <= Count(i - 1) + 1 /\ (i \notin S => Count(i) = Count(i - 1))
    BY <2>5, <2>6
  <2>8. Count(i) \in Nat /\ Count(i - 1) \in Nat
    BY <1>2
  <2> QED
    BY <2>3, <2>5, <2>7, <2>8
<1>8. \A n \in 1..c : Nth(n) \in S /\ Count(Nth(n)) = n
  BY <1>3, <1>7
<1> HIDE DEF Nth
<1>9. ASSUME NEW n \in 1..c, n + 1 <= c
      PROVE  Nth(n) < Nth(n + 1) /\ ~\E x \in S : Nth(n) < x /\ x < Nth(n + 1)
  <2> DEFINE a == Nth(n)
             b == Nth(n + 1)
  <2>1. n \in Nat /\ n + 1 \in 1..c
    BY <1>1, <1>9
  <2>2. a \in S /\ b \in S /\ a \in Nat /\ b \in Nat /\ Count(a) = n /\ Count(b) = n + 1
    BY <1>0, <1>8, <2>1
  <2> HIDE DEF a, b
  <2>3. a < b
    <3>1. a # b
      BY <2>1, <2>2
    <3>2. ~(b < a)
      BY <1>4, <2>1, <2>2
    <3> QED
      BY <2>2, <3>1, <3>2
  <2>4. ASSUME NEW x \in S, a < x, x < b
        PROVE  FALSE
    <3>1. x \in Nat /\ Count(x) \in Nat
      BY <1>0, <1>2 DEF Count
    <3>2. Count(a) < Count(x) /\ Count(x) < Count(b)
      BY <1>4, <2>2, <2>4, <3>1
    <3> QED
      BY <2>1, <2>2, <3>1, <3>2
  <2> QED
    BY <2>3, <2>4 DEF a, b
<1> QED
  BY <1>1, <1>8, <1>9 DEF c, Nth

\* What is left of a text beside its matches holds no pattern, although its bytes
\* have moved together.
LEMMA ShrunkIsSafe ==
    ASSUME cp_patterns \in cp_Secrets, NEW s \in Texts
    PROVE  LET t == Persisted!Shrunk(s)
           IN  /\ t \in Texts
               /\ \A p \in cp_patterns, at \in Nat \ {0} : ~Persisted!Occurs(p, t, at)
<1> DEFINE t == Persisted!Shrunk(s)
           M == Persisted!Matches(s)
           R == Persisted!Left(s)
           c == Persisted!Cardinality(R)
           At(n) == Persisted!Nth(R, n)
           T == cp_Bytes \cup {cp_Marker}
<1>0. Len(s) \in Nat /\ DOMAIN s = 1..Len(s) /\ \A i \in 1..Len(s) : s[i] \in T
  BY LenProperties, ElementOfSeq DEF Texts
<1>1. \A m \in M : m.start \in Nat /\ m.end \in Nat /\ m.start < m.end
  BY <1>0, MatchesAreSecrets
<1>2. R \in SUBSET (1..Len(s))
      /\ \A i \in 1..Len(s) : i \in R <=> ~\E m \in M : m.start < i /\ i < m.end
  <2>1. R = {i \in 1..Len(s) : ~\E m \in M : i \in m.start + 1..m.end - 1}
    BY <1>0 DEF Persisted!Left, Persisted!Dropped
  <2>2. \A m \in M, i \in 1..Len(s) : i \in m.start + 1..m.end - 1 <=> m.start < i /\ i < m.end
    BY <1>0, <1>1
  <2> HIDE DEF M, R
  <2> QED
    BY <2>1, <2>2
<1>3. t = [n \in 1..c |-> IF \E m \in M : m.start = At(n) THEN cp_Marker ELSE s[At(n)]]
  BY DEF Persisted!Shrunk
<1>4. /\ c \in Nat /\ \A n \in 1..c : At(n) \in R
      /\ \A n \in 1..c : n + 1 <= c => At(n) < At(n + 1) /\ ~\E x \in R : At(n) < x /\ x < At(n + 1)
  <2> HIDE DEF R
  <2> QED
    BY <1>0, <1>2, PlacesAreNumbered
<1> HIDE DEF t, R, c, At, M
<1>5. t \in Texts /\ Len(t) = c
  <2>1. \A n \in 1..c : s[At(n)] \in T
    BY <1>0, <1>2, <1>4
  <2>2. t \in [1..c -> T]
    BY <1>3, <2>1
  <2>3. t \in Seq(T)
    BY <1>4, <2>2, SeqDef
  <2>4. DOMAIN t = 1..c /\ DOMAIN t = 1..Len(t) /\ Len(t) \in Nat
    BY <2>2, <2>3, LenProperties
  <2> QED
    BY <1>4, <2>3, <2>4 DEF Texts
<1>6. ASSUME NEW p \in cp_patterns, NEW at \in Nat \ {0}, Persisted!Occurs(p, t, at)
      PROVE  FALSE
  <2> DEFINE l == Len(p)
             Place(j) == At(at + j - 1)
  <2>1. p \in Texts /\ l \in Nat \ {0} /\ \A j \in 1..l : p[j] # cp_Marker
    BY PatternsAreBytes
  <2>2. at + l - 1 <= c /\ \A j \in 1..l : t[at + j - 1] = p[j]
    BY <1>5, <1>6, <2>1, OccursByEveryByte
  <2> HIDE DEF l
  <2>3. \A j \in 1..l : at + j - 1 \in 1..c
    BY <1>4, <2>1, <2>2
  <2>4. \A j \in 1..l : Place(j) \in R /\ Place(j) \in 1..Len(s) /\ s[Place(j)] = p[j] /\ ~\E m \in M : m.start = Place(j)
    BY <1>2, <1>3, <1>4, <2>1, <2>2, <2>3
  <2>5. \A j \in 1..l : j + 1 \in 1..l =>
            Place(j) < Place(j + 1) /\ ~\E x \in R : Place(j) < x /\ x < Place(j + 1)
    <3> SUFFICES ASSUME NEW j \in 1..l, j + 1 \in 1..l
                 PROVE  Place(j) < Place(j + 1) /\ ~\E x \in R : Place(j) < x /\ x < Place(j + 1)
      OBVIOUS
    <3>1. at + j - 1 \in 1..c /\ (at + j - 1) + 1 <= c /\ (at + j - 1) + 1 = at + (j + 1) - 1
      BY <1>4, <2>1, <2>2, <2>3
    <3>2. At(at + j - 1) < At((at + j - 1) + 1)
          /\ ~\E x \in R : At(at + j - 1) < x /\ x < At((at + j - 1) + 1)
      BY <1>4, <3>1
    <3> QED
      BY <3>1, <3>2
  <2> HIDE DEF Place
  <2>6. \A j \in 1..l : \A m \in M : ~Covers(m, Place(j))
    <3> SUFFICES ASSUME NEW j \in 1..l, NEW m \in M, Covers(m, Place(j)) PROVE FALSE
      OBVIOUS
    <3>1. Place(j) \in Nat /\ m.start \in Nat /\ m.start <= Place(j) /\ Place(j) < m.end /\ m.start # Place(j)
      BY <1>1, <2>4 DEF Covers
    <3>2. m.start < Place(j)
      BY <3>1
    <3> QED
      BY <1>2, <2>4, <3>1, <3>2
  <2>7. ASSUME NEW j \in 1..l, j + 1 \in 1..l
        PROVE  Place(j + 1) = Place(j) + 1
    <3> DEFINE x == Place(j) + 1
    <3>1. Place(j) \in Nat /\ Place(j + 1) \in 1..Len(s) /\ Place(j) < Place(j + 1)
      BY <2>4, <2>5, <2>7
    <3>2. SUFFICES ASSUME x < Place(j + 1) PROVE FALSE
      BY <1>0, <3>1
    <3>3. x \in 1..Len(s) /\ Place(j) < x
      BY <1>0, <3>1, <3>2
    <3>4. x \notin R
      BY <2>5, <2>7, <3>2, <3>3
    <3>5. PICK m \in M : m.start < x /\ x < m.end
      BY <1>2, <3>3, <3>4
    <3>6. Covers(m, Place(j))
      BY <1>1, <3>1, <3>5 DEF Covers
    <3> QED
      BY <2>6, <3>6
  <2>8. \A j \in 1..l : Place(j) = Place(1) + j - 1
    <3> DEFINE Astray == {j \in Nat : j \in 1..l /\ Place(j) # Place(1) + j - 1}
    <3>1. SUFFICES ASSUME Astray # {} PROVE FALSE
      BY <2>1
    <3>2. PICK j \in Astray : \A k \in Astray : j <= k
      <4>1. Astray \in SUBSET Nat
        OBVIOUS
      <4> HIDE DEF Astray
      <4> QED
        BY <3>1, <4>1, Least
    <3>3. j \in 1..l /\ j \in Nat /\ Place(j) # Place(1) + j - 1 /\ 1 \in 1..l
      BY <2>1, <3>2
    <3>4. Place(1) \in Nat
      BY <2>4, <3>3
    <3>5. j # 1
      BY <3>3, <3>4
    <3>6. j - 1 \in Nat /\ j - 1 \in 1..l /\ (j - 1) + 1 = j /\ ~(j <= j - 1)
      BY <2>1, <3>3, <3>5
    <3>7. Place(j - 1) = Place(1) + (j - 1) - 1
      BY <3>2, <3>6
    <3>8. Place((j - 1) + 1) = Place(j - 1) + 1
      BY <2>7, <3>3, <3>6
    <3> QED
      BY <3>3, <3>4, <3>6, <3>7, <3>8
  <2>9. 1 \in 1..l /\ l \in 1..l /\ Place(1) \in Nat \ {0} /\ Place(1) + l - 1 <= Len(s)
    <3>1. 1 \in 1..l /\ l \in 1..l
      BY <2>1
    <3>2. Place(l) = Place(1) + l - 1 /\ Place(1) \in 1..Len(s) /\ Place(l) \in 1..Len(s)
      BY <2>4, <2>8, <3>1
    <3> QED
      BY <1>0, <3>1, <3>2
  <2>10. \A j \in 1..l : s[Place(1) + j - 1] = p[j]
    BY <2>4, <2>8
  <2>11. Persisted!Occurs(p, s, Place(1))
    <3> DEFINE first == Place(1)
    <3>1. first \in Nat \ {0} /\ first + l - 1 <= Len(s) /\ \A j \in 1..l : s[first + j - 1] = p[j]
      BY <2>9, <2>10
    <3> HIDE DEF first
    <3>2. Persisted!Occurs(p, s, first)
      BY <2>1, <3>1, OccursByEveryByte DEF l
    <3> QED
      BY <3>2 DEF first
  <2>12. \E m \in M : Covers(m, Place(1))
    BY <2>9, <2>11, MatchesAreSecrets DEF M
  <2> QED
    BY <2>6, <2>9, <2>12
<1> QED
  BY <1>5, <1>6 DEF t

\* A call's records are sealed once, when it stops running, and stay as they were.
PersistedInv ==
    /\ cp_patterns \in cp_Secrets
    /\ cp_drafts \in Seq([surface : cp_Used, bytes : cp_Drafts])
    /\ cp_phase = "running" => cp_batch = {}
    /\ Persisted!RecordsAreSafeAndWhole
    /\ Persisted!ShownIsSafe

\* The drafts of a call are texts.
LEMMA DraftsAreTexts ==
    ASSUME PersistedInv
    PROVE  /\ Len(cp_drafts) \in Nat /\ DOMAIN cp_drafts = 1..Len(cp_drafts)
           /\ Persisted!Inputs \in Seq(Texts) /\ Len(Persisted!Inputs) = Len(cp_drafts)
           /\ DOMAIN Persisted!Inputs = 1..Len(cp_drafts)
           /\ \A k \in 1..Len(cp_drafts) : Persisted!Inputs[k] = cp_drafts[k].bytes
<1> DEFINE N == Len(cp_drafts)
           D == [surface : cp_Used, bytes : cp_Drafts]
           inputs == Persisted!Inputs
<1>1. N \in Nat /\ DOMAIN cp_drafts = 1..N /\ \A k \in 1..N : cp_drafts[k] \in D
  BY LenProperties, ElementOfSeq DEF PersistedInv
<1>2. inputs = [k \in 1..N |-> cp_drafts[k].bytes]
  BY <1>1 DEF Persisted!Inputs
<1>3. \A k \in 1..N : cp_drafts[k].bytes \in Texts
  <2>1. \A s \in cp_Drafts : s \in Texts
    BY PersistedAssumed, SeqMonotonic DEF Texts
  <2> QED
    BY <1>1, <2>1
<1> HIDE DEF N, inputs
<1>4. inputs \in [1..N -> Texts]
  BY <1>2, <1>3
<1>5. inputs \in Seq(Texts)
  BY <1>1, <1>4, SeqDef
<1>6. DOMAIN inputs = 1..N /\ DOMAIN inputs = 1..Len(inputs) /\ Len(inputs) \in Nat
  BY <1>4, <1>5, LenProperties
<1> QED
  BY <1>1, <1>2, <1>5, <1>6 DEF N, inputs

\* A batch none of whose drafts is refused fits.
LEMMA WhatIsSealedFits ==
    ASSUME PersistedInv, Persisted!FirstRefused = {}
    PROVE  Persisted!Sum(Persisted!Inputs) <= cp_MaxTotal
<1> DEFINE inputs == Persisted!Inputs
           N == Len(inputs)
           Refused(k) == Persisted!TooLong(k) \/ Persisted!TooMuch(k)
           R == {k \in Nat : k \in 1..N /\ Refused(k)}
<1>1. N \in Nat /\ DOMAIN inputs = 1..N /\ inputs \in Seq(Texts)
  BY DraftsAreTexts
<1>2. R = {}
  <2> SUFFICES ASSUME R # {} PROVE FALSE
    OBVIOUS
  <2>1. PICK k \in R : \A j \in R : k <= j
    <3>1. R \in SUBSET Nat
      OBVIOUS
    <3> HIDE DEF R
    <3> QED
      BY <3>1, Least
  <2>2. k \in 1..N /\ Refused(k) /\ \A j \in 1..k - 1 : ~Refused(j)
    BY <1>1, <2>1
  <2>3. k \in Persisted!FirstRefused
    BY <1>1, <2>2 DEF Persisted!FirstRefused
  <2> QED
    BY <2>3
<1>3. /\ Persisted!Sum(inputs) = Persisted!Before(inputs, N + 1)
      /\ Persisted!Before(inputs, 1) = 0
      /\ \A k \in 1..N : Persisted!Before(inputs, k + 1) = Persisted!Before(inputs, k) + Len(inputs[k])
      /\ \A k \in 1..N + 1 : Persisted!Before(inputs, k) \in Nat
  BY <1>1, PlacesAreCounted
<1>4. CASE N = 0
  <2>1. Persisted!Before(inputs, N + 1) = 0
    BY <1>3, <1>4
  <2> QED
    BY <1>3, <2>1, PersistedAssumed
<1>5. CASE N # 0
  <2>1. N \in 1..N /\ N \in 1..N + 1 /\ N + 1 \in 1..N + 1
    BY <1>1, <1>5
  <2>2. ~Persisted!TooMuch(N)
    BY <1>1, <1>2, <2>1
  <2>3. Persisted!Before(inputs, N + 1) = Persisted!Before(inputs, N) + Len(inputs[N])
    BY <1>3, <2>1
  <2>4. Persisted!Before(inputs, N + 1) \in Nat
    BY <1>3, <2>1
  <2>5. ~(Persisted!Before(inputs, N) + Len(inputs[N]) > cp_MaxTotal)
    BY <2>2 DEF Persisted!TooMuch
  <2> QED
    BY <1>3, <2>3, <2>4, <2>5, PersistedAssumed
<1> QED
  BY <1>4, <1>5

\* What is sealed is as long as what was offered, and is its redaction, cut at the
\* ends of the drafts.
LEMMA SealedAreParts ==
    ASSUME PersistedInv
    PROVE  LET outputs == Persisted!RedactSegments(Persisted!Inputs)
           IN  /\ outputs \in Seq(Texts) /\ Len(outputs) = Len(cp_drafts)
               /\ \A k \in 1..Len(cp_drafts) : Len(outputs[k]) = Len(cp_drafts[k].bytes)
               /\ Persisted!OneText(outputs) = Persisted!InPlace(Persisted!Offered)
               /\ Persisted!Sum(outputs) = Persisted!Sum(Persisted!Inputs)
               /\ Persisted!Offered \in Texts /\ Len(Persisted!Offered) = Persisted!Sum(Persisted!Inputs)
<1> DEFINE inputs == Persisted!Inputs
           text == Persisted!OneText(inputs)
           t == Persisted!InPlace(text)
           outputs == Persisted!SplitRedacted(t, inputs)
<1>1. inputs \in Seq(Texts) /\ Len(inputs) = Len(cp_drafts)
      /\ \A k \in 1..Len(cp_drafts) : inputs[k] = cp_drafts[k].bytes
  BY DraftsAreTexts
<1> HIDE DEF inputs
<1>2. text \in Texts /\ Len(text) = Persisted!Sum(inputs)
  BY <1>1, OneTextHasAll
<1> HIDE DEF text
<1>3. t \in Texts /\ Len(t) = Persisted!Sum(inputs)
  BY <1>2, InPlaceIsSafe DEF PersistedInv
<1> HIDE DEF t
<1>4. /\ outputs \in Seq(Texts) /\ Len(outputs) = Len(inputs)
      /\ \A k \in 1..Len(inputs) : Len(outputs[k]) = Len(inputs[k])
      /\ Persisted!OneText(outputs) = t /\ Persisted!Sum(outputs) = Persisted!Sum(inputs)
  BY <1>1, <1>3, PartsMakeTheText
<1>5. outputs = Persisted!RedactSegments(Persisted!Inputs) /\ text = Persisted!Offered
  BY DEF Persisted!RedactSegments, Persisted!AsOneText, inputs, text, t, Persisted!Offered
<1> HIDE DEF outputs
<1> QED
  BY <1>1, <1>2, <1>4, <1>5 DEF t, inputs

\* Sealing: the records of the batch, and of what they were made.
LEMMA SealingIsSafe ==
    ASSUME PersistedInv, Persisted!FirstRefused = {}, NEW res, Persisted!Seals(res)
    PROVE  Persisted!RecordsAreSafeAndWhole'
<1> DEFINE outputs == Persisted!RedactSegments(Persisted!Inputs)
           N == Len(cp_drafts)
           records == [k \in DOMAIN cp_drafts |-> [surface |-> cp_drafts[k].surface, bytes |-> outputs[k]]]
           b == [records |-> records, total |-> Persisted!Sum(outputs)]
           offered == Persisted!Offered
           kept == Persisted!InPlace(offered)
<1>1. cp_batch' = {b} /\ cp_patterns' = cp_patterns /\ cp_drafts' = cp_drafts
  BY DEF Persisted!Seals
<1>2. N \in Nat /\ DOMAIN cp_drafts = 1..N
  BY DraftsAreTexts
<1>3. /\ outputs \in Seq(Texts) /\ Len(outputs) = N
      /\ \A k \in 1..N : Len(outputs[k]) = Len(cp_drafts[k].bytes)
      /\ Persisted!OneText(outputs) = kept
      /\ Persisted!Sum(outputs) = Persisted!Sum(Persisted!Inputs)
      /\ offered \in Texts /\ Len(offered) = Persisted!Sum(Persisted!Inputs)
  BY SealedAreParts
<1>4. /\ kept \in Texts /\ Len(kept) = Len(offered)
      /\ \A p \in cp_patterns, at \in Nat \ {0} : ~Persisted!Occurs(p, kept, at)
      /\ \A i \in 1..Len(offered) : kept[i] # offered[i] => kept[i] = cp_Marker /\ Persisted!InSecret(offered, i)
  <2> HIDE DEF offered
  <2> QED
    BY <1>3, InPlaceIsSafe DEF PersistedInv
<1>5. DOMAIN kept = 1..Len(offered) /\ Len(offered) \in Nat /\ DOMAIN outputs = 1..N
  <2> HIDE DEF kept, offered, outputs
  <2> QED
    BY <1>3, <1>4, LenProperties DEF Texts
<1> HIDE DEF outputs, kept, offered, b
<1>6. (CHOOSE c \in {b} : TRUE) = b
  OBVIOUS
<1>7. Len(records) = N
  <2>1. records \in [1..N -> [surface : {cp_drafts[k].surface : k \in 1..N}, bytes : {outputs[k] : k \in 1..N}]]
    BY <1>2
  <2> DEFINE S == [surface : {cp_drafts[k].surface : k \in 1..N}, bytes : {outputs[k] : k \in 1..N}]
  <2>2. records \in [1..N -> S] /\ N \in Nat
    BY <1>2, <2>1
  <2> HIDE DEF records, S, N
  <2>3. records \in Seq(S)
    BY <2>2, SeqDef
  <2>4. DOMAIN records = 1..N /\ DOMAIN records = 1..Len(records) /\ Len(records) \in Nat
    BY <2>2, <2>3, LenProperties
  <2> QED
    BY <2>2, <2>4
<1>8. \A k \in 1..N : records[k].surface = cp_drafts[k].surface /\ records[k].bytes = outputs[k]
  BY <1>2
<1>9. b.records = records /\ b.total = Persisted!Sum(outputs)
  BY DEF b
<1> HIDE DEF records
<1>10. outputs = [k \in 1..N |-> b.records[k].bytes]
  <2>1. outputs = [k \in 1..N |-> outputs[k]]
    BY <1>3, <1>5, LenProperties
  <2> QED
    BY <1>8, <1>9, <2>1
<1>11. Persisted!Kept' = kept
  <2>1. Persisted!Kept' = Persisted!OneText([k \in 1..N |-> b.records[k].bytes])
    BY <1>1, <1>2, <1>6 DEF Persisted!Kept
  <2> QED
    BY <1>3, <1>10, <2>1
<1>12. Persisted!Offered' = offered
  BY <1>1 DEF Persisted!Offered, Persisted!Inputs, offered
<1>13. Persisted!Sum(Persisted!Inputs) <= cp_MaxTotal
  BY WhatIsSealedFits
<1>14. \A i \in DOMAIN kept : kept[i] # offered[i] =>
          kept[i] = cp_Marker
          /\ \E p \in cp_patterns, at \in 1..i : at + Len(p) > i /\ Persisted!Occurs(p, offered, at)
  BY <1>4, <1>5 DEF Persisted!InSecret
<1>15. \A p \in cp_patterns, at \in DOMAIN kept : ~Persisted!Occurs(p, kept, at)
  BY <1>4, <1>5
<1> QED
  BY <1>1, <1>2, <1>3, <1>6, <1>7, <1>8, <1>9, <1>11, <1>12, <1>13, <1>14, <1>15
     DEF Persisted!RecordsAreSafeAndWhole, Persisted!InSecret

\* No credential of a call can be read from what is kept of it, or from what its
\* caller is shown, and nothing else is lost from the records: whatever the drafts,
\* their number, the patterns and the limits are
\* (seal_credential_persistence, redact_segments, redact).
THEOREM RecordsStaySafe == Persisted!Spec => []RecordsAreSafe
<1>1. Persisted!Init => PersistedInv
  <2> SUFFICES ASSUME Persisted!Init PROVE PersistedInv
    OBVIOUS
  <2>1. cp_batch = {} /\ cp_shown = {} /\ cp_drafts = <<>> /\ cp_patterns \in cp_Secrets
    BY DEF Persisted!Init
  <2> QED
    BY <2>1, EmptySeq DEF PersistedInv, Persisted!RecordsAreSafeAndWhole, Persisted!ShownIsSafe
<1>2. PersistedInv /\ [Persisted!Next]_(Persisted!vars) => PersistedInv'
  <2> SUFFICES ASSUME PersistedInv, [Persisted!Next]_(Persisted!vars)
               PROVE  PersistedInv'
    OBVIOUS
  <2>1. ASSUME UNCHANGED <<cp_patterns, cp_drafts, cp_batch>>
        PROVE  Persisted!RecordsAreSafeAndWhole'
    BY <2>1 DEF PersistedInv, Persisted!RecordsAreSafeAndWhole, Persisted!Kept, Persisted!Offered,
                Persisted!Inputs, Persisted!InSecret
  <2>2. ASSUME UNCHANGED <<cp_patterns, cp_shown>>
        PROVE  Persisted!ShownIsSafe'
    BY <2>2 DEF PersistedInv, Persisted!ShownIsSafe
  <2>3. ASSUME NEW s \in cp_Drafts, Persisted!RedactOutput(s)
        PROVE  PersistedInv'
    <3>1. UNCHANGED <<cp_patterns, cp_drafts, cp_batch, cp_phase>>
          /\ cp_shown' = {[input |-> s, output |-> Persisted!Shrunk(s)]}
      BY <2>3 DEF Persisted!RedactOutput
    <3>2. s \in Texts
      BY PersistedAssumed, SeqMonotonic DEF Texts
    <3>3. Persisted!Shrunk(s) \in Texts
          /\ \A p \in cp_patterns, at \in Nat \ {0} : ~Persisted!Occurs(p, Persisted!Shrunk(s), at)
      BY <3>2, ShrunkIsSafe DEF PersistedInv
    <3>4. \A at \in DOMAIN Persisted!Shrunk(s) : at \in Nat \ {0}
      BY <3>3, LenProperties DEF Texts
    <3>5. Persisted!ShownIsSafe'
      BY <3>1, <3>3, <3>4 DEF Persisted!ShownIsSafe
    <3> QED
      BY <2>1, <3>1, <3>5 DEF PersistedInv
  <2>4. ASSUME NEW s \in cp_Drafts, NEW surface \in cp_Used, Persisted!Offer(surface, s)
        PROVE  PersistedInv'
    <3>1. UNCHANGED <<cp_patterns, cp_shown, cp_batch, cp_phase>> /\ cp_batch = {}
          /\ cp_drafts' = Append(cp_drafts, [surface |-> surface, bytes |-> s])
      BY <2>4 DEF Persisted!Offer, PersistedInv
    <3>2. cp_drafts' \in Seq([surface : cp_Used, bytes : cp_Drafts])
      <4> DEFINE D == [surface : cp_Used, bytes : cp_Drafts]
                 d == [surface |-> surface, bytes |-> s]
      <4>1. cp_drafts \in Seq(D) /\ d \in D
        BY DEF PersistedInv
      <4> HIDE DEF D, d
      <4>2. Append(cp_drafts, d) \in Seq(D)
        BY <4>1, AppendProperties
      <4> QED
        BY <3>1, <4>2 DEF D, d
    <3>3. Persisted!RecordsAreSafeAndWhole'
      BY <3>1 DEF Persisted!RecordsAreSafeAndWhole
    <3> QED
      BY <2>2, <3>1, <3>2, <3>3 DEF PersistedInv
  <2>5. CASE Persisted!Seal
    <3>1. ASSUME NEW code, Persisted!Fails(code)
          PROVE  PersistedInv'
      <4>1. UNCHANGED <<cp_patterns, cp_drafts, cp_shown, cp_batch>> /\ cp_phase' = "failed"
        BY <3>1 DEF Persisted!Fails
      <4> QED
        BY <2>1, <2>2, <4>1 DEF PersistedInv
    <3>2. ASSUME NEW res \in Persisted!Outcomes, Persisted!Seals(res), Persisted!FirstRefused = {}
          PROVE  PersistedInv'
      <4>1. UNCHANGED <<cp_patterns, cp_drafts, cp_shown>> /\ cp_phase' = "sealed"
        BY <3>2 DEF Persisted!Seals
      <4>2. Persisted!RecordsAreSafeAndWhole'
        BY <3>2, SealingIsSafe
      <4> QED
        BY <2>2, <4>1, <4>2 DEF PersistedInv
    <3>3. (\E code : Persisted!Fails(code))
          \/ (Persisted!FirstRefused = {} /\ \E res \in Persisted!Outcomes : Persisted!Seals(res))
      BY <2>5 DEF Persisted!Seal
    <3> QED
      BY <3>1, <3>2, <3>3
  <2>6. CASE Persisted!PersistReceipt
    <3>1. UNCHANGED <<cp_patterns, cp_drafts, cp_shown, cp_batch>> /\ cp_phase' \in {"audited", "failed"}
      BY <2>6 DEF Persisted!PersistReceipt
    <3> QED
      BY <2>1, <2>2, <3>1 DEF PersistedInv
  <2>7. CASE UNCHANGED Persisted!vars
    <3>1. UNCHANGED <<cp_patterns, cp_drafts, cp_shown, cp_batch, cp_phase>>
      BY <2>7 DEF Persisted!vars
    <3> QED
      BY <2>1, <2>2, <3>1 DEF PersistedInv
  <2> QED
    BY <2>3, <2>4, <2>5, <2>6, <2>7 DEF Persisted!Next
<1>3. PersistedInv => RecordsAreSafe
  BY DEF PersistedInv, RecordsAreSafe
<1> QED
  BY <1>1, <1>2, <1>3, PTL DEF Persisted!Spec
=============================================================================
