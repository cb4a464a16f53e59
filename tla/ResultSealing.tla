----------------------------- MODULE ResultSealing -----------------------------
(***************************************************************************)
(* The result of an execution and its artifacts                            *)
(* (src/tool-runtime-core/src/governed_execution_result.rs): the files a   *)
(* command was declared to write are bound before it runs, collected after *)
(* it ended, while what it left behind may still write to them, and kept   *)
(* or rejected together with the redacted output.                          *)
(*                                                                         *)
(* A write gives a file a new change time; the model takes the clock of    *)
(* the file system to be fine enough for that.                             *)
(***************************************************************************)
EXTENDS Integers, FiniteSets

CONSTANTS
    Files,      \* the declared paths
    MaxFile,    \* GovernedArtifactPolicy, max_file_bytes
    MaxTotal,   \* max_total_bytes
    MaxLength,  \* bytes a file has at most
    MaxWrites   \* writes of the command and of survivors

SealingAssumption ==
    /\ IsFiniteSet(Files)
    /\ MaxFile \in Nat \ {0} /\ MaxTotal \in Nat /\ MaxFile <= MaxTotal
    /\ MaxLength \in Nat /\ MaxWrites \in Nat

VARIABLES
    disk,       \* path -> the file there
    writes,     \* writes so far; each gives the file it makes a new number
    phase,      \* bound, running, ended, collecting, collected or sealed
    terminal,   \* how the execution ended, and whether it was dispatched
    reading,    \* what the collector reads, or Idle
    collected,  \* path -> the two halves of what was read, for the files read
    missing,    \* paths found absent
    rejection,  \* why there are no artifacts
    reserved,   \* bytes taken from the budget for results
    result      \* what the caller gets

vars == <<disk, writes, phase, terminal, reading, collected, missing, rejection, reserved, result>>

\* A file: which write made its content, its length, and whether it is a private
\* regular file with one link, on the device and of the owner of the root.
NoFile == [write |-> 0, length |-> 0, plain |-> FALSE]
File(w, length, plain) == [write |-> w, length |-> length, plain |-> plain]
Idle == [file |-> "none"]
Nothing == [write |-> 0, length |-> 0]
NoResult == [terminal |-> "none"]

Init ==
    /\ disk = [f \in Files |-> NoFile]
    /\ writes = 0 /\ phase = "bound"
    /\ terminal = "none" /\ reading = Idle
    /\ collected = [f \in {} |-> Nothing] /\ missing = {}
    /\ rejection = "none" /\ reserved = 0 /\ result = NoResult

\* bind found every declared path absent; the command, and what it leaves behind,
\* writes, replaces and removes.
Write(f) ==
    /\ phase \notin {"bound", "sealed"} /\ writes < MaxWrites
    /\ terminal # "not_dispatched"
    /\ writes' = writes + 1
    /\ \E length \in 0..MaxLength, plain \in BOOLEAN :
          disk' = [disk EXCEPT ![f] = File(writes + 1, length, plain)]
    /\ UNCHANGED <<phase, terminal, reading, collected, missing, rejection, reserved, result>>

Execute ==
    \/ /\ phase = "bound" /\ phase' = "running" /\ UNCHANGED terminal
    \/ /\ phase = "bound" /\ phase' = "ended" /\ terminal' = "not_dispatched"
    \/ /\ phase = "running" /\ phase' = "ended" /\ terminal' \in {"success", "failed"}

Run ==
    /\ Execute
    /\ UNCHANGED <<disk, writes, reading, collected, missing, rejection, reserved, result>>

-----------------------------------------------------------------------------
(* collect_raw.                                                            *)

\* The bytes that are held, each by its file and its place in it.
Held == UNION {{f} \X (1..collected[f].length) : f \in DOMAIN collected}
Total == Cardinality(Held)

\* The root is still the one that was bound, and the whole allowance is reserved.
BeginCollection ==
    /\ phase = "ended"
    /\ \/ terminal = "not_dispatched" /\ phase' = "collected" /\ UNCHANGED <<rejection, reserved>>
       \/ /\ terminal # "not_dispatched"
          /\ phase' = "collecting" /\ reserved' = MaxTotal /\ UNCHANGED rejection
       \/ /\ terminal # "not_dispatched"
          /\ phase' = "collected" /\ rejection' \in {"authority_changed", "capacity"}
          /\ UNCHANGED reserved
    /\ UNCHANGED <<disk, writes, terminal, reading, collected, missing, result>>

\* Any error ends the collection, and its reservation with it.
Reject(why) ==
    /\ phase' = "collected" /\ rejection' = why
    /\ reserved' = 0 /\ reading' = Idle
    /\ collected' = [f \in {} |-> Nothing]

\* open_declared_file and the first artifact_identity.
Remaining == Files \ (DOMAIN collected \cup missing)
NextFile == CHOOSE f \in Remaining : TRUE

OpenFile ==
    /\ phase = "collecting" /\ reading = Idle /\ Remaining # {}
    /\ LET f == NextFile IN
       \/ /\ disk[f] = NoFile
          /\ missing' = missing \cup {f}
          /\ UNCHANGED <<phase, reading, collected, rejection, reserved>>
       \/ /\ disk[f] # NoFile
          /\ IF ~disk[f].plain THEN Reject("not_plain")
             ELSE IF disk[f].length > MaxFile THEN Reject("file_too_large")
             ELSE IF Total + disk[f].length > MaxTotal THEN Reject("aggregate_too_large")
             ELSE /\ reading' = [file |-> f, before |-> disk[f], half |-> 0]
                  /\ UNCHANGED <<phase, collected, rejection, reserved>>
          /\ UNCHANGED missing
    /\ UNCHANGED <<disk, writes, terminal, result>>

\* read_exact may be overtaken by a write; a file that became shorter fails it.
ReadHalf ==
    /\ reading # Idle /\ reading.half = 0
    /\ reading' = [file |-> reading.file, before |-> reading.before,
                   half |-> disk[reading.file].write]
    /\ UNCHANGED <<disk, writes, phase, terminal, collected, missing, rejection, reserved, result>>

\* The second artifact_identity: length, links and change time are compared.
Unchanged(before, now) == now = before

ReadRest ==
    /\ reading # Idle /\ reading.half # 0
    /\ LET f == reading.file IN
       IF Unchanged(reading.before, disk[f])
       THEN /\ collected' = [g \in DOMAIN collected \cup {f} |->
                IF g = f THEN [first |-> reading.half, second |-> disk[f].write,
                               length |-> reading.before.length]
                ELSE collected[g]]
            /\ reading' = Idle
            /\ UNCHANGED <<phase, rejection, reserved>>
       ELSE Reject("changed")
    /\ UNCHANGED <<disk, writes, terminal, missing, result>>

\* The root is revalidated once more; then the reservation shrinks to what is kept.
Retains == Total

EndCollection ==
    /\ phase = "collecting" /\ reading = Idle /\ Remaining = {}
    /\ \/ phase' = "collected" /\ reserved' = Retains
          /\ UNCHANGED <<rejection, reading, collected>>
       \/ Reject("authority_changed")
    /\ UNCHANGED <<disk, writes, terminal, missing, result>>

-----------------------------------------------------------------------------

\* seal_batch and seal_pty: a credential found in an artifact rejects them all,
\* and a rejection takes the success away; a redaction that fails yields no result.
Rejected(why) == why # "none"
FinalTerminal(why) == IF terminal = "success" /\ Rejected(why) THEN "artifact_rejected" ELSE terminal

Seal ==
    /\ phase = "collected"
    /\ phase' = "sealed"
    /\ \/ \E detected \in BOOLEAN :
             /\ detected => collected # [f \in {} |-> Nothing]
             /\ LET why == IF detected THEN "credential_detected" ELSE rejection IN
                /\ rejection' = why
                /\ result' = [terminal |-> FinalTerminal(why),
                              artifacts |-> IF Rejected(why) THEN {} ELSE DOMAIN collected,
                              missing |-> IF terminal = "not_dispatched" THEN Files
                                          ELSE IF Rejected(rejection) THEN {} ELSE missing]
                /\ reserved' = IF Rejected(why) THEN 0 ELSE reserved
       \/ result' = [terminal |-> "redaction_failed", artifacts |-> {}, missing |-> {}]
          /\ reserved' = 0 /\ UNCHANGED rejection
    /\ UNCHANGED <<disk, writes, terminal, reading, collected, missing>>

Next ==
    \/ \E f \in Files : Write(f)
    \/ Run \/ BeginCollection \/ OpenFile \/ ReadHalf \/ ReadRest \/ EndCollection \/ Seal

Spec == Init /\ [][Next]_vars
-----------------------------------------------------------------------------
(* Properties.                                                             *)

\* What a result hands out was on the disk as one content at one moment, whatever
\* survivors of the command wrote meanwhile (collect_raw); it fits the policy and
\* is paid for exactly from the budget of results, a rejected collection not at
\* all; a successful result has every declared file or knows it missing (seal_batch).
ArtifactsAreSnapshots ==
    phase = "sealed" =>
        /\ \A f \in result.artifacts :
              collected[f].first = collected[f].second /\ collected[f].length <= MaxFile
        /\ reserved = (IF result.artifacts = {} THEN 0 ELSE Total) /\ reserved <= MaxTotal
        /\ result.terminal = "success" => result.artifacts \cup result.missing = Files
=============================================================================
