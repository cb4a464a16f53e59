--------------------------- MODULE CallPersistence ---------------------------
(***************************************************************************)
(* What a call with credentials leaves behind: its output as a caller may  *)
(* see it, the records that may be kept of it, and a receipt               *)
(* (credential_persistence.rs; the receipt of credential_injection.rs;     *)
(* redact and redact_segments of credential_materialization.rs).           *)
(*                                                                         *)
(* While the credentials are still at hand, every draft of a record is     *)
(* redacted: all of them as one text, in place, so that a credential split *)
(* over two records is found and every record keeps its length.  Output    *)
(* for a caller is redacted alone, and a credential shrinks to one byte.   *)
(***************************************************************************)
EXTENDS Integers, Sequences, FiniteSets, FiniteSetsExt

CONSTANTS
    Bytes,         \* what drafts are made of
    Marker,        \* the replacement: a byte no pattern contains
    Secrets,       \* the sets of patterns a call's redactor may have
    Drafts,        \* sequences of bytes that are offered for a record
    MaxOffered,    \* records offered in one batch
    MaxRecords,    \* MAX_CREDENTIAL_PERSISTENCE_RECORDS
    MaxInput,      \* MAX_REDACTION_INPUT_BYTES, of one text
    MaxTotal,      \* MAX_REDACTION_OUTPUT_BYTES, of all of them
    Used,          \* the surfaces that are offered something
    Plans          \* injection plans: their baseline, targets and bindings

Surfaces == {"process_diagnostic", "tool_output", "tool_error", "artifact", "log", "trace", "analytics"}

PersistenceAssumption ==
    /\ \A ps \in Secrets : \A p \in ps : p \in Seq(Bytes) /\ p # <<>>
    /\ \A ps \in Secrets : \A p \in ps : Marker \notin {p[i] : i \in DOMAIN p}
    /\ \A s \in Drafts : s \in Seq(Bytes)
    /\ Used \subseteq Surfaces
    /\ MaxOffered \in Nat /\ MaxRecords \in Nat /\ MaxInput \in Nat /\ MaxTotal \in Nat

VARIABLES
    patterns, plan,
    drafts,    \* what was offered: a surface and bytes each
    shown,     \* what a caller was shown, of which output: at most one
    batch,     \* what was sealed: records and their size, at most one
    receipt,   \* of the call, once there is one: at most one
    failure,   \* why there is none, or why it is not durable
    phase

vars == <<patterns, plan, drafts, shown, batch, receipt, failure, phase>>

-----------------------------------------------------------------------------
(* Redaction.                                                              *)

Occurs(p, s, at) == at + Len(p) - 1 <= Len(s) /\ SubSeq(s, at, at + Len(p) - 1) = p
MatchesAt(s, at) == {Len(p) : p \in {q \in patterns : Occurs(q, s, at)}}

\* match_at_key: the longest pattern, wherever one occurs.
Candidates(s) ==
    {[start |-> at, end |-> at + Max(MatchesAt(s, at))] : at \in {i \in DOMAIN s : MatchesAt(s, i) # {}}}

\* find_next: the search goes on where a match ends, so that a match begins
\* wherever one may, but within another.
Within(c, m) == m.start < c.start /\ c.start < m.end
Matches(s) ==
    CHOOSE found \in SUBSET Candidates(s) :
        \A c \in Candidates(s) : c \in found <=> ~\E m \in found : Within(c, m)

InPlace(s) ==
    LET found == Matches(s)
    IN  [i \in DOMAIN s |-> IF \E m \in found : i \in m.start..m.end - 1 THEN Marker ELSE s[i]]

\* redact: only the first byte of a match is left, as the replacement.
Dropped(m) == m.start + 1..m.end - 1

Left(s) == {i \in DOMAIN s : ~\E m \in Matches(s) : i \in Dropped(m)}
Nth(places, n) == CHOOSE i \in places : Cardinality({j \in places : j <= i}) = n

Shrunk(s) ==
    LET left == Left(s)
        found == Matches(s)
    IN  [n \in 1..Cardinality(left) |->
            LET i == Nth(left, n) IN IF \E m \in found : m.start = i THEN Marker ELSE s[i]]

\* The comparison budget may be exceeded wherever there is something to compare.
Overworked(s) == patterns # {} /\ s # <<>>

\* redact_segments: one text, and its parts once more.
Places(segments, ks) == UNION {{k} \X DOMAIN segments[k] : k \in ks}
Before(segments, k) == Cardinality(Places(segments, 1..k - 1))
Sum(segments) == Cardinality(Places(segments, DOMAIN segments))

PartOf(segments, n) ==
    CHOOSE k \in DOMAIN segments : n \in Before(segments, k) + 1..Before(segments, k) + Len(segments[k])
OneText(segments) ==
    [n \in 1..Sum(segments) |->
        LET k == PartOf(segments, n) IN segments[k][n - Before(segments, k)]]

SplitRedacted(text, segments) ==
    [k \in DOMAIN segments |->
        SubSeq(text, Before(segments, k) + 1, Before(segments, k) + Len(segments[k]))]

AsOneText(segments) == SplitRedacted(InPlace(OneText(segments)), segments)
OneByOne(segments) == [k \in DOMAIN segments |-> InPlace(segments[k])]
RedactSegments(segments) == AsOneText(segments)

-----------------------------------------------------------------------------
(* The receipt.                                                            *)

\* ChildEnvironmentBaseline: the variables a child may be given.
Portable == {"PATH", "LANG", "LC_ALL", "LC_CTYPE", "TERM", "TZ", "SSL_CERT_FILE"}
Variables ==
    [hermetic |-> {}, path_only |-> {"PATH"}, portable_cli |-> Portable,
     cli_owned_session |-> Portable \cup {"HOME"}]

TargetKinds == {"environment", "stdin", "scoped_file", "config_directory"}
TargetCounts(targets) ==
    [k \in TargetKinds |-> Cardinality({i \in DOMAIN targets : targets[i] = k})]

\* Derived from the plan alone, whatever became of it.
ReceiptOf(p, outcome) ==
    [call_id |-> p.call_id, outcome |-> outcome,
     prepared_bindings |-> p.bindings, injections |-> Len(p.targets),
     inherited_names |-> Cardinality(Variables[p.baseline]), targets |-> TargetCounts(p.targets)]

Outcomes == {"succeeded", "cancelled", "failed"}

-----------------------------------------------------------------------------
(* The call.                                                               *)

Init ==
    /\ patterns \in Secrets /\ plan \in Plans
    /\ drafts = <<>> /\ shown = {} /\ batch = {} /\ receipt = {} /\ failure = "none"
    /\ phase = "running"

\* redact_output: at most one text is followed, in a call that keeps no records.
RedactOutput(s) ==
    /\ phase = "running" /\ shown = {} /\ drafts = <<>> /\ Len(s) <= MaxInput
    /\ shown' = {[input |-> s, output |-> Shrunk(s)]}
    /\ UNCHANGED <<patterns, plan, drafts, batch, receipt, failure, phase>>

\* A draft for every surface that is to have one.
Offer(surface, bytes) ==
    /\ phase = "running" /\ shown = {} /\ Len(drafts) < MaxOffered
    /\ drafts' = Append(drafts, [surface |-> surface, bytes |-> bytes])
    /\ UNCHANGED <<patterns, plan, shown, batch, receipt, failure, phase>>

Inputs == [k \in DOMAIN drafts |-> drafts[k].bytes]

\* The drafts that precede the first that does not fit decide which limit it is.
TooLong(k) == Len(Inputs[k]) > MaxInput
TooMuch(k) == Before(Inputs, k) + Len(Inputs[k]) > MaxTotal
FirstRefused == {k \in DOMAIN Inputs : (TooLong(k) \/ TooMuch(k)) /\ \A j \in 1..k - 1 : ~TooLong(j) /\ ~TooMuch(j)}

\* CredentialPersistenceError::execution_failure
ExecutionFailure(code) ==
    CASE code \in {"record_limit_exceeded", "total_bytes_exceeded"} -> "output_truncated"
      [] code = "redaction_failed" -> "redaction_failed"
      [] code = "audit_failed" -> "audit_failed"

Fails(code) ==
    /\ failure' = ExecutionFailure(code) /\ phase' = "failed"
    /\ UNCHANGED <<patterns, plan, drafts, shown, batch, receipt>>

\* seal_persistence, seal_credential_persistence: all of it or nothing.
Seals(outcome) ==
    LET outputs == RedactSegments(Inputs)
    IN  /\ batch' = {[records |-> [k \in DOMAIN drafts |-> [surface |-> drafts[k].surface, bytes |-> outputs[k]]],
                      total |-> Sum(outputs)]}
        /\ receipt' = {ReceiptOf(plan, outcome)}
        /\ phase' = "sealed"
        /\ UNCHANGED <<patterns, plan, drafts, shown, failure>>

Seal ==
    /\ phase = "running"
    /\ IF Len(drafts) > MaxRecords THEN Fails("record_limit_exceeded")
       ELSE IF FirstRefused # {}
       THEN \E k \in FirstRefused : Fails(IF TooLong(k) THEN "redaction_failed" ELSE "total_bytes_exceeded")
       ELSE \/ Overworked(OneText(Inputs)) /\ Fails("redaction_failed")
            \/ \E outcome \in Outcomes : Seals(outcome)

\* persist_credential_audit_receipt: whatever the sink says is one failure.
PersistReceipt ==
    /\ phase = "sealed"
    /\ \/ phase' = "audited" /\ UNCHANGED failure
       \/ phase' = "failed" /\ failure' = ExecutionFailure("audit_failed")
    /\ UNCHANGED <<patterns, plan, drafts, shown, batch, receipt>>

Next ==
    \/ \E s \in Drafts : RedactOutput(s) \/ (\E surface \in Used : Offer(surface, s))
    \/ Seal \/ PersistReceipt

Spec == Init /\ [][Next]_vars
-----------------------------------------------------------------------------
(* Properties.                                                             *)

Kept == OneText([k \in DOMAIN drafts |-> (CHOOSE b \in batch : TRUE).records[k].bytes])
Offered == OneText(Inputs)
InSecret(s, i) == \E p \in patterns, at \in 1..i : at + Len(p) > i /\ Occurs(p, s, at)

\* Records come out as they went in: one for each draft, of its surface and its
\* length.  No credential can be read from them, not even by putting adjacent
\* ones together, and nothing is lost that is not part of one
\* (seal_credential_persistence, redact_segments).
RecordsAreSafeAndWhole ==
    batch # {} =>
        LET b == CHOOSE b \in batch : TRUE
        IN  /\ Len(b.records) = Len(drafts) /\ b.total = Len(Offered) /\ b.total <= MaxTotal
            /\ \A k \in DOMAIN drafts :
                  /\ b.records[k].surface = drafts[k].surface
                  /\ Len(b.records[k].bytes) = Len(drafts[k].bytes)
            /\ \A p \in patterns, at \in DOMAIN Kept : ~Occurs(p, Kept, at)
            /\ \A i \in DOMAIN Kept : Kept[i] # Offered[i] => Kept[i] = Marker /\ InSecret(Offered, i)

\* What a caller is shown holds no credential either, although what stood around
\* one moves together when it shrinks (redact).
ShownIsSafe ==
    \A s \in shown : \A p \in patterns, at \in DOMAIN s.output : ~Occurs(p, s.output, at)
=============================================================================
