---------------------------- MODULE ProcessPermit ----------------------------
(***************************************************************************)
(* The process-wide capacity of governed execution                         *)
(* (src/tool-runtime-core/src/governed_batch_process.rs, and the artifact  *)
(* retention of governed_execution_result.rs).                             *)
(*                                                                         *)
(* Four static atomics count running processes, raw output bytes, result   *)
(* bytes and memory.  No lock covers them: a permit is acquired by one     *)
(* compare-and-add per counter, undone counter by counter when a later one *)
(* is full, turned into a retention when the process is gone, and dropped  *)
(* counter by counter.  Each access of a counter is an action here, and    *)
(* the runs of different threads interleave between them.                  *)
(* A run whose first compare-and-add is refused changes nothing and is not *)
(* shown.                                                                  *)
(***************************************************************************)
EXTENDS Integers, FiniteSets, TLC

CONSTANTS
    Runs,         \* threads that execute a governed process
    Outputs,      \* what a run may ask for of the output
    Memories,     \* and of the memory: none, when it is zero
    Artifacts,    \* max_total_bytes of an artifact policy
    MaxActive,    \* MAX_CONCURRENT_GOVERNED_PROCESSES
    MaxOutput,    \* MAX_RESERVED_GOVERNED_OUTPUT_BYTES
    MaxResult,    \* MAX_RESERVED_GOVERNED_RESULT_BYTES
    MaxMemory     \* MAX_RESERVED_GOVERNED_MEMORY_BYTES

\* acquire refuses an output of zero, or above the limit, before it counts.
ASSUME RequestAssumption ==
    /\ IsFiniteSet(Runs)
    /\ MaxActive \in Nat /\ MaxOutput \in Nat /\ MaxResult \in Nat /\ MaxMemory \in Nat
    /\ Outputs \subseteq 1..MaxOutput /\ Memories \subseteq Nat
    /\ Artifacts \subseteq Nat \ {0}

Requests == [output : Outputs, memory : Memories]

Resources == {"active", "output", "result", "memory"}
Limit == [r \in Resources |-> CASE r = "active" -> MaxActive
                                [] r = "output" -> MaxOutput
                                [] r = "result" -> MaxResult
                                [] r = "memory" -> MaxMemory]

VARIABLES
    counter,   \* resource -> the value of its atomic
    step,      \* run -> where its thread is
    request,   \* run -> what it last asked for
    artifact   \* run -> the bytes of its artifact retention

vars == <<counter, step, request, artifact>>

\* What the code at a step still has to give back, artifacts apart.
Owes ==
    [idle |-> {},
     has_active |-> {"active"},
     has_output |-> {"active", "output"},
     has_result |-> {"active", "output", "result"},
     undo_result |-> {"active", "output", "result"},
     undo_output |-> {"active", "output"},
     undo_active |-> {"active"},
     running |-> Resources,
     drop_output |-> {"active", "output", "memory"},
     drop_active |-> {"active", "memory"},
     drop_memory |-> {"memory"},
     converting |-> {"output", "result", "memory"},
     retained |-> {"output", "result"},
     collecting |-> {"output", "result"},
     sealing |-> {"output", "result"},
     sealed |-> {"output", "result"},
     failed |-> {"output", "result"},
     drop_retained |-> {"output"},
     drop_artifact |-> {}]
Steps == DOMAIN Owes

Amount(q, r) == CASE r = "active" -> 1
                  [] r \in {"output", "result"} -> q.output
                  [] r = "memory" -> q.memory

Init ==
    /\ counter = [r \in Resources |-> 0]
    /\ step = [u \in Runs |-> "idle"]
    /\ request \in {[u \in Runs |-> q] : q \in Requests}
    /\ artifact = [u \in Runs |-> 0]

-----------------------------------------------------------------------------
(* One access of one counter.                                              *)

\* A limit checked before the request is added.
FitsBefore(r, n) == counter[r] < Limit[r]
Fits(r, n) == counter[r] + n <= Limit[r]
Reserve(r, n) == counter' = [counter EXCEPT ![r] = @ + n]
GiveBack(r, n) == counter' = [counter EXCEPT ![r] = @ - n]

Goto(u, s) == step' = [step EXCEPT ![u] = s]
At(u, s) == step[u] = s

\* fetch_update of counter r on the way from one step to the next, and where
\* the run goes when the counter is full.
Claim(u, r, from, to, full) ==
    /\ At(u, from)
    /\ LET n == Amount(request[u], r) IN
       \/ /\ Fits(r, n)
          /\ Reserve(r, n)
          /\ Goto(u, to)
       \/ /\ ~Fits(r, n)
          /\ Goto(u, full)
          /\ UNCHANGED counter
    /\ UNCHANGED <<request, artifact>>

\* fetch_sub of counter r.
Return(u, r, from, to) ==
    /\ At(u, from)
    /\ GiveBack(r, Amount(request[u], r))
    /\ Goto(u, to)
    /\ UNCHANGED <<request, artifact>>

-----------------------------------------------------------------------------
(* acquire: active, output, result, memory, in this order for every run.   *)

TakeSlot(u, q) ==
    /\ At(u, "idle")
    /\ Fits("active", 1)
    /\ Reserve("active", 1)
    /\ request' = [request EXCEPT ![u] = q]
    /\ Goto(u, "has_active")
    /\ UNCHANGED artifact

TakeOutput(u) == Claim(u, "output", "has_active", "has_output", "undo_active")

\* Where a refused result reservation resumes: everything taken so far is
\* undone, or the output is forgotten.
ForgetsOutput == "undo_active"
AfterResultRefused == "undo_output"
TakeResult(u) == Claim(u, "result", "has_output", "has_result", AfterResultRefused)

\* A request of no memory succeeds, whatever the counter holds.
TakeMemory(u) ==
    IF request[u].memory = 0
    THEN /\ At(u, "has_result")
         /\ Goto(u, "running")
         /\ UNCHANGED <<counter, request, artifact>>
    ELSE Claim(u, "memory", "has_result", "running", "undo_result")

Undo(u) ==
    \/ Return(u, "result", "undo_result", "undo_output")
    \/ Return(u, "output", "undo_output", "undo_active")
    \/ Return(u, "active", "undo_active", "idle")

-----------------------------------------------------------------------------
(* The permit: dropped when nothing was dispatched, converted otherwise.   *)

\* A permit without memory has nothing left to release once its slot is.
AfterSlot(u, rest, done) == IF request[u].memory = 0 THEN done ELSE rest

DropPermit(u) ==
    \/ Return(u, "result", "running", "drop_output")
    \/ Return(u, "output", "drop_output", "drop_active")
    \/ Return(u, "active", "drop_active", AfterSlot(u, "drop_memory", "idle"))
    \/ Return(u, "memory", "drop_memory", "idle")

\* into_output_retention; the reset of the permit's own fields keeps its drop
\* from releasing them again.
IntoOutputRetention(u) ==
    \/ Return(u, "active", "running", AfterSlot(u, "converting", "retained"))
    \/ Return(u, "memory", "converting", "retained")

-----------------------------------------------------------------------------
(* Sealing: the artifacts of the run share the result budget.              *)

SetArtifact(u, n, s) ==
    /\ artifact' = [artifact EXCEPT ![u] = n]
    /\ Goto(u, s)
    /\ UNCHANGED request

\* GovernedArtifactRetention::acquire, for the policy's total.
CollectArtifacts(u, n) ==
    /\ At(u, "retained")
    /\ \/ /\ Fits("result", n)
          /\ Reserve("result", n)
          /\ SetArtifact(u, n, "collecting")
       \/ /\ ~Fits("result", n)
          /\ Goto(u, "sealing")
          /\ UNCHANGED <<counter, request, artifact>>

\* Nothing is declared, or nothing was dispatched.
SkipArtifacts(u) ==
    /\ At(u, "retained")
    /\ Goto(u, "sealing")
    /\ UNCHANGED <<counter, request, artifact>>

\* shrink_to the bytes really read; a file that is refused drops them all.
ShrinkTo(u, n) ==
    /\ At(u, "collecting")
    /\ n <= artifact[u]
    /\ GiveBack("result", artifact[u] - n)
    /\ SetArtifact(u, n, "sealing")

\* A credential found in an artifact rejects the artifacts, a redaction
\* failure everything: the artifact retention goes before the output's.
DropArtifacts(u) ==
    /\ At(u, "sealing")
    /\ artifact[u] > 0
    /\ GiveBack("result", artifact[u])
    /\ \E s \in {"sealed", "failed"} : SetArtifact(u, 0, s)

Seal(u) ==
    /\ At(u, "sealing")
    /\ Goto(u, "sealed")
    /\ UNCHANGED <<counter, request, artifact>>

\* The result, raw or sealed, is dropped: the output retention, result bytes
\* first, and then the artifact retention.
MayDropResult(u) ==
    \/ step[u] \in {"retained", "sealed", "failed"}
    \/ At(u, "sealing") /\ artifact[u] = 0

DropResult(u) ==
    \/ /\ MayDropResult(u)
       /\ Return(u, "result", step[u], "drop_retained")
    \/ Return(u, "output", "drop_retained", IF artifact[u] = 0 THEN "idle" ELSE "drop_artifact")
    \/ /\ At(u, "drop_artifact")
       /\ GiveBack("result", artifact[u])
       /\ SetArtifact(u, 0, "idle")

-----------------------------------------------------------------------------

Acquire(u) ==
    \/ \E q \in Requests : TakeSlot(u, q)
    \/ TakeOutput(u)
    \/ TakeResult(u)
    \/ TakeMemory(u)
    \/ Undo(u)

Finish(u) ==
    \/ DropPermit(u)
    \/ IntoOutputRetention(u)
    \/ \E n \in Artifacts : CollectArtifacts(u, n)
    \/ SkipArtifacts(u)
    \/ \E n \in 0..artifact[u] : ShrinkTo(u, n)
    \/ DropArtifacts(u)
    \/ Seal(u)
    \/ DropResult(u)

Next == \E u \in Runs : Acquire(u) \/ Finish(u)

Spec == Init /\ [][Next]_vars
-----------------------------------------------------------------------------
(* Properties.                                                             *)

\* Every counter stays between zero and its limit (fetch_sub would wrap).
TypeOK ==
    /\ counter \in [Resources -> Nat]
    /\ \A r \in Resources : counter[r] <= Limit[r]
    /\ step \in [Runs -> Steps]
    /\ request \in [Runs -> Requests]
    /\ artifact \in [Runs -> Nat]

Held(u, r) ==
    (IF r \in Owes[step[u]] THEN Amount(request[u], r) ELSE 0)
        + (IF r = "result" THEN artifact[u] ELSE 0)

\* What a run may count on: nothing while it is still acquiring or undoing.
Acquiring ==
    {"has_active", "has_output", "has_result", "undo_result", "undo_output", "undo_active"}
Claimed ==
    [u \in Runs |-> [r \in Resources |-> IF step[u] \in Acquiring THEN 0 ELSE Held(u, r)]]

Budget == INSTANCE ProcessBudget WITH claims <- Claimed

\* At every moment, between any two accesses of any threads, each counter is
\* the sum of what the threads still have to give back: no refused acquire,
\* dropped permit, conversion or artifact rejection leaks or releases twice.
Holdings == [u \in Runs |-> [r \in Resources |-> Held(u, r)]]
CountersMatchHoldings ==
    \A r \in Resources : counter[r] = Cardinality(Budget!Units(Holdings, r))

\* The four counters, each accessed on its own, give every run its request
\* atomically and keep all that was promised within the limits: acquire,
\* into_output_retention and the drops implement ProcessBudget.
ImplementsBudget == Budget!Spec

\* Runs are only compared for equality.
Interchangeable == Permutations(Runs)
=============================================================================
