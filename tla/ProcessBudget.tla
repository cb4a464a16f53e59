---------------------------- MODULE ProcessBudget ----------------------------
(***************************************************************************)
(* What the process-wide capacity counters of governed execution promise,  *)
(* with no atomics and no steps: a run is granted its whole request at     *)
(* once or not at all, what it holds afterwards only shrinks, except for   *)
(* the artifacts of a finished run, and the claims of all runs together    *)
(* never exceed a limit.                                                   *)
(***************************************************************************)
EXTENDS Integers, FiniteSets

CONSTANTS
    Runs,      \* the threads that execute governed processes
    Requests,  \* records [output, memory] a run may ask for
    Artifacts, \* artifact totals a finished run may reserve
    Limit      \* resource -> the most that may be claimed of it

VARIABLE claims  \* run -> resource -> units it may count on

Resources == {"active", "output", "result", "memory"}

\* The units of resource r that the holdings h stand for, one element each.
Units(h, r) == UNION {{u} \X (1..h[u][r]) : u \in Runs}

WithinLimits(h) == \A r \in Resources : Cardinality(Units(h, r)) <= Limit[r]

Nothing == [r \in Resources |-> 0]
Asked(q) ==
    [r \in Resources |-> CASE r = "active" -> 1
                           [] r \in {"output", "result"} -> q.output
                           [] r = "memory" -> q.memory]

Init == claims = [u \in Runs |-> Nothing]

Grant(u, q) ==
    /\ claims[u] = Nothing
    /\ claims' = [claims EXCEPT ![u] = Asked(q)]
    /\ WithinLimits(claims')

\* Only a run that gave up its process slot reserves room for artifacts.
Collect(u, n) ==
    /\ claims[u]["active"] = 0
    /\ claims[u]["output"] > 0
    /\ claims' = [claims EXCEPT ![u]["result"] = @ + n]
    /\ WithinLimits(claims')

Release(u, r, n) ==
    /\ claims[u][r] > n
    /\ claims' = [claims EXCEPT ![u][r] = n]

Next == \E u \in Runs :
    \/ \E q \in Requests : Grant(u, q)
    \/ \E n \in Artifacts : Collect(u, n)
    \/ \E r \in Resources : \E n \in 0..(claims[u][r] - 1) : Release(u, r, n)

Spec == Init /\ [][Next]_claims
=============================================================================
