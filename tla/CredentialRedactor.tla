-------------------------- MODULE CredentialRedactor --------------------------
(***************************************************************************)
(* Redaction of what a command has printed, before a caller may see it     *)
(* (CredentialValueRedactor and CredentialStreamingRedactor of             *)
(* credential_materialization.rs, as GovernedExecutionResultSealer of      *)
(* governed_execution_result.rs uses them).                                *)
(*                                                                         *)
(* Output of a terminal is redacted while it arrives, chunk by chunk: a    *)
(* byte is let out once no credential can begin with it.  What is held     *)
(* back when the command ends, or all the output of a batch command, is    *)
(* redacted in place together with the artifacts, as one text.             *)
(***************************************************************************)
EXTENDS Integers, Sequences, FiniteSetsExt

CONSTANTS
    MaxByte,    \* u8::MAX; arithmetic on bytes wraps
    Preferred,  \* PREFERRED_CREDENTIAL_REDACTION_BYTE
    Secrets,    \* the sets of patterns a redactor may be built from
    MaxChunk,   \* bytes of one read, or of one stream or artifact
    MaxInput    \* bytes of the whole output of a terminal

Bytes == 0..MaxByte

RedactorAssumption ==
    /\ MaxByte \in Nat
    /\ Preferred \in Bytes
    /\ \A patterns \in Secrets : \A p \in patterns : p \in Seq(Bytes) /\ p # <<>>
    /\ MaxChunk \in Nat /\ MaxInput \in Nat

VARIABLES
    patterns,
    fed,       \* every byte of the output and of the artifact, in order
    pending,   \* read from the terminal and not yet decided upon
    stable,    \* let out
    phase,     \* open, draining, sealing, sealed or failed
    text,      \* what is sealed: the segments, end to end
    offsets,   \* where each segment begins in text
    position,
    matched    \* segments touched by a match

vars == <<patterns, fed, pending, stable, phase, text, offsets, position, matched>>

Chunks == UNION {[1..n -> Bytes] : n \in 0..MaxChunk}
Slice(s, from, n) == SubSeq(s, from, from + n - 1)
Occurs(p, s, at) == at + Len(p) - 1 <= Len(s) /\ Slice(s, at, Len(p)) = p
Lengths(ps) == {Len(p) : p \in ps}

\* CredentialValueRedactor::new: the first byte from the preferred one on that no
\* pattern contains; without one there is no redactor, and no execution.
Contained(ps) == UNION {{p[i] : i \in DOMAIN p} : p \in ps}
Unused(ps) == {k \in 0..MaxByte :
                 (Preferred + k) % (MaxByte + 1) \notin Contained(ps)}
FirstUnused(ps) == (Preferred + Min(Unused(ps))) % (MaxByte + 1)
AlwaysPreferred(ps) == Preferred
Replacement(ps) == FirstUnused(ps)

Marks(n) == [i \in 1..n |-> Replacement(patterns)]

Init ==
    /\ patterns \in {ps \in Secrets : Unused(ps) # {}}
    /\ fed = <<>> /\ pending = <<>> /\ stable = <<>>
    /\ phase = "open"
    /\ text = <<>> /\ offsets = <<>> /\ position = 1 /\ matched = {}

-----------------------------------------------------------------------------
(* A terminal's output, as it is read.                                     *)

Sealing == <<text, offsets, position, matched>>

\* push
Push(chunk) ==
    /\ phase = "open" /\ chunk # <<>>
    /\ Len(fed) + Len(chunk) <= MaxInput
    /\ fed' = fed \o chunk
    /\ IF patterns = {}
       THEN stable' = stable \o chunk /\ UNCHANGED <<pending, phase>>
       ELSE pending' = pending \o chunk /\ phase' = "draining" /\ UNCHANGED stable
    /\ UNCHANGED <<patterns, Sealing>>

\* evaluate_streaming_pattern: what is pending may be the beginning of a pattern.
NeedsMore(rest) == \E p \in patterns : Len(p) > Len(rest) /\ Slice(p, 1, Len(rest)) = rest

\* The longest pattern that occurs at a place wins.
LongestAt(s, at) == Lengths({p \in patterns : Occurs(p, s, at)})
Exact(s, at) == Max(LongestAt(s, at))

LetOut(bytes, n) ==
    /\ stable' = stable \o bytes
    /\ pending' = Slice(pending, n + 1, Len(pending) - n)
    /\ UNCHANGED <<patterns, fed, phase, Sealing>>

\* drain_stable, one next_decision at a time.
DrainWait ==
    /\ phase = "draining"
    /\ pending = <<>> \/ NeedsMore(pending)
    /\ phase' = "open"
    /\ UNCHANGED <<patterns, fed, pending, stable, Sealing>>

DrainRedact ==
    /\ phase = "draining" /\ pending # <<>> /\ ~NeedsMore(pending)
    /\ LongestAt(pending, 1) # {}
    /\ LET n == Exact(pending, 1) IN LetOut(Marks(n), n)

DrainEmitOne ==
    /\ phase = "draining" /\ pending # <<>> /\ ~NeedsMore(pending)
    /\ LongestAt(pending, 1) = {}
    /\ LetOut(<<Head(pending)>>, 1)

-----------------------------------------------------------------------------
(* Sealing of the result.                                                  *)

\* The segments as one text, and where each of them begins.
Seals(whole, starts) ==
    /\ phase' = "sealing"
    /\ text' = whole /\ offsets' = starts
    /\ position' = 1 /\ matched' = {}

\* seal_pty: what is pending, and an artifact.
SealPty(artifact) ==
    /\ phase = "open"
    /\ Seals(pending \o artifact, <<0, Len(pending)>>)
    /\ fed' = fed \o artifact
    /\ pending' = <<>>
    /\ UNCHANGED <<patterns, stable>>

\* seal_batch: both streams, and an artifact.
SealBatch ==
    /\ phase = "open" /\ fed = <<>>
    /\ \E stdout, stderr, artifact \in Chunks :
          /\ fed' = stdout \o stderr \o artifact
          /\ Seals(fed', <<0, Len(stdout), Len(stdout) + Len(stderr)>>)
    /\ UNCHANGED <<patterns, pending, stable>>

\* mark_segment_range, segmented_byte: the last segment that begins at or before
\* a place owns it, so an empty one owns nothing.
Segment(at) == Max({i \in DOMAIN offsets : offsets[i] < at})

\* redact_governed_segments_owned, one place at a time.
SealMatch ==
    /\ phase = "sealing" /\ position <= Len(text)
    /\ LongestAt(text, position) # {}
    /\ LET end == position + Exact(text, position) IN
       /\ text' = [i \in DOMAIN text |->
                     IF i \in position..end - 1 THEN Replacement(patterns) ELSE text[i]]
       /\ matched' = matched \cup (Segment(position)..Segment(end - 1))
       /\ position' = end
    /\ UNCHANGED <<patterns, fed, pending, stable, phase, offsets>>

SealSkip ==
    /\ phase = "sealing" /\ position <= Len(text)
    /\ LongestAt(text, position) = {}
    /\ position' = position + 1
    /\ UNCHANGED <<patterns, fed, pending, stable, phase, text, offsets, matched>>

SealEnds ==
    /\ phase = "sealing" /\ position > Len(text)
    /\ phase' = "sealed"
    /\ UNCHANGED <<patterns, fed, pending, stable, Sealing>>

\* The comparison budget, or a limit on the bytes, is exceeded: there is no result.
ExceedLimit ==
    /\ phase \in {"draining", "sealing"}
    /\ phase' = "failed"
    /\ UNCHANGED <<patterns, fed, pending, stable, Sealing>>

Next ==
    \/ \E chunk \in Chunks : Push(chunk) \/ SealPty(chunk)
    \/ SealBatch \/ DrainWait \/ DrainRedact \/ DrainEmitOne
    \/ SealMatch \/ SealSkip \/ SealEnds \/ ExceedLimit

Spec == Init /\ [][Next]_vars
-----------------------------------------------------------------------------
(* Properties.                                                             *)

\* The artifact is the last segment; one that a match touches is withheld.
Withheld == Len(offsets) \in matched
Published ==
    IF phase # "sealed" THEN stable
    ELSE stable \o (IF Withheld THEN Slice(text, 1, offsets[Len(offsets)]) ELSE text)

InSecret(i) == \E p \in patterns, at \in 1..i : at + Len(p) > i /\ Occurs(p, fed, at)

\* No credential can be read from what is let out or sealed, not even one split
\* over two chunks, two streams or an artifact (redact_governed_segments_owned);
\* each byte is the one the command wrote or the replacement, at its place, and
\* none is replaced outside of a credential.  An artifact is withheld only if a
\* credential reaches into it.
RedactionIsExact ==
    /\ \A p \in patterns, at \in DOMAIN Published : ~Occurs(p, Published, at)
    /\ Len(Published) <= Len(fed)
    /\ \A i \in DOMAIN Published :
          Published[i] # fed[i] => Published[i] = Replacement(patterns) /\ InSecret(i)
    /\ phase = "sealed" /\ Withheld =>
          \E i \in Len(stable) + offsets[Len(offsets)] + 1..Len(fed) : InSecret(i)
=============================================================================
