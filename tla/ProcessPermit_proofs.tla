------------------------ MODULE ProcessPermit_proofs ------------------------
(***************************************************************************)
(* Proofs about ProcessPermit, for every number of runs, every set of      *)
(* requests and artifact policies, and every limit.                        *)
(***************************************************************************)
EXTENDS ProcessPermit, FiniteSetTheorems, TLAPS

(* Counting: a counter as the number of units that runs hold.              *)

\* The units of one run are as many as it holds.
LEMMA UnitsOfOne ==
    ASSUME NEW u, NEW n \in Nat
    PROVE  IsFiniteSet({u} \X (1..n)) /\ Cardinality({u} \X (1..n)) = n
<1>1. IsFiniteSet({u}) /\ Cardinality({u}) = 1
  BY FS_Singleton
<1>2. IsFiniteSet(1..n) /\ Cardinality(1..n) = n
  BY FS_Interval, SMT
<1>3. IsFiniteSet({u} \X (1..n)) /\ Cardinality({u} \X (1..n)) = 1 * Cardinality(1..n)
  BY <1>1, <1>2, FS_Product
<1> QED
  BY <1>2, <1>3

\* When one run's holding of r changes, the number of units changes by as much.
LEMMA OneRunChanges ==
    ASSUME NEW h, NEW g, NEW r, NEW u \in Runs,
           h[u][r] \in Nat, g[u][r] \in Nat,
           \A v \in Runs \ {u} : g[v][r] = h[v][r],
           IsFiniteSet(Budget!Units(h, r))
    PROVE  /\ IsFiniteSet(Budget!Units(g, r))
           /\ Cardinality(Budget!Units(g, r)) = Cardinality(Budget!Units(h, r)) - h[u][r] + g[u][r]
<1> DEFINE Others == UNION {{v} \X (1..h[v][r]) : v \in Runs \ {u}}
           Old == {u} \X (1..h[u][r])
           New == {u} \X (1..g[u][r])
<1>1. Budget!Units(h, r) = Others \cup Old
  BY DEF Budget!Units
<1>2. Budget!Units(g, r) = Others \cup New
  BY DEF Budget!Units
<1>3. Others \cap Old = {} /\ Others \cap New = {}
  OBVIOUS
<1>4. IsFiniteSet(Others) /\ Cardinality(Others) \in Nat
  <2>1. Others \in SUBSET Budget!Units(h, r)
    BY <1>1
  <2>2. IsFiniteSet(Others)
    BY <2>1, FS_Subset
  <2> QED
    BY <2>2, FS_CardinalityType
<1>5. IsFiniteSet(Old) /\ Cardinality(Old) = h[u][r]
  BY UnitsOfOne
<1>6. IsFiniteSet(New) /\ Cardinality(New) = g[u][r]
  BY UnitsOfOne
<1> HIDE DEF Others, Old, New
<1>9. Cardinality(Others \cap Old) = 0 /\ Cardinality(Others \cap New) = 0
  BY <1>3, FS_EmptySet, Zenon
<1>7. Cardinality(Others \cup Old) = Cardinality(Others) + h[u][r]
  <2>1. Cardinality(Others \cup Old) = Cardinality(Others) + Cardinality(Old) - Cardinality(Others \cap Old)
    BY <1>4, <1>5, FS_Union
  <2> QED
    BY <2>1, <1>4, <1>5, <1>9
<1>8. IsFiniteSet(Others \cup New) /\ Cardinality(Others \cup New) = Cardinality(Others) + g[u][r]
  <2>1. /\ IsFiniteSet(Others \cup New)
        /\ Cardinality(Others \cup New) = Cardinality(Others) + Cardinality(New) - Cardinality(Others \cap New)
    BY <1>4, <1>6, FS_Union
  <2> QED
    BY <2>1, <1>4, <1>6, <1>9
<1> QED
  BY <1>1, <1>2, <1>4, <1>7, <1>8

-----------------------------------------------------------------------------
(* The inductive invariant.                                                *)

TypesOK ==
    /\ counter \in [Resources -> Nat]
    /\ step \in [Runs -> Steps]
    /\ request \in [Runs -> Requests]
    /\ artifact \in [Runs -> Nat]

LimitsOK == \A r \in Resources : counter[r] <= Limit[r]

\* Only a run that collected artifacts, and has not dropped them, holds any.
HoldsArtifacts == {"collecting", "sealing", "sealed", "drop_retained", "drop_artifact"}
ArtifactsOK == \A u \in Runs : artifact[u] # 0 => step[u] \in HoldsArtifacts

CountsOK ==
    \A r \in Resources :
        /\ IsFiniteSet(Budget!Units(Holdings, r))
        /\ Cardinality(Budget!Units(Holdings, r)) = counter[r]

IInv == TypesOK /\ LimitsOK /\ ArtifactsOK /\ CountsOK

\* What each step owes, spelled out.
LEMMA OwesOf ==
    /\ Owes["idle"] = {}
    /\ Owes["has_active"] = {"active"}
    /\ Owes["has_output"] = {"active", "output"}
    /\ Owes["has_result"] = {"active", "output", "result"}
    /\ Owes["undo_result"] = {"active", "output", "result"}
    /\ Owes["undo_output"] = {"active", "output"}
    /\ Owes["undo_active"] = {"active"}
    /\ Owes["running"] = Resources
    /\ Owes["drop_output"] = {"active", "output", "memory"}
    /\ Owes["drop_active"] = {"active", "memory"}
    /\ Owes["drop_memory"] = {"memory"}
    /\ Owes["converting"] = {"output", "result", "memory"}
    /\ Owes["retained"] = {"output", "result"}
    /\ Owes["collecting"] = {"output", "result"}
    /\ Owes["sealing"] = {"output", "result"}
    /\ Owes["sealed"] = {"output", "result"}
    /\ Owes["failed"] = {"output", "result"}
    /\ Owes["drop_retained"] = {"output"}
    /\ Owes["drop_artifact"] = {}
  BY DEF Owes

\* The steps of a run, spelled out.
LEMMA StepsAre ==
    Steps = {"idle", "has_active", "has_output", "has_result", "undo_result", "undo_output",
             "undo_active", "running", "drop_output", "drop_active", "drop_memory",
             "converting", "retained", "collecting", "sealing", "sealed", "failed",
             "drop_retained", "drop_artifact"}
  BY DEF Steps, Owes

\* What a request takes of a resource is a number.
LEMMA AmountType ==
    ASSUME NEW q \in Requests, NEW r \in Resources
    PROVE  /\ Amount(q, r) \in Nat
           /\ r # "memory" => Amount(q, r) > 0
           /\ r \in {"output", "result"} => Amount(q, r) = q.output
           /\ r = "active" => Amount(q, r) = 1
           /\ r = "memory" => Amount(q, r) = q.memory
<1>1. q.output \in Outputs /\ q.memory \in Memories
  BY DEF Requests
<1>2. q.output \in 1..MaxOutput /\ q.memory \in Nat /\ MaxOutput \in Nat
  BY <1>1, RequestAssumption
<1>3. q.output \in Nat /\ q.output > 0
  BY <1>2
<1> QED
  BY <1>2, <1>3 DEF Amount, Resources

\* So is the limit of a resource.
LEMMA LimitType ==
    ASSUME NEW r \in Resources
    PROVE  Limit[r] \in Nat
  BY RequestAssumption DEF Limit, Resources

\* So is what a run holds of it.
LEMMA HeldType ==
    ASSUME TypesOK, NEW u \in Runs, NEW r \in Resources
    PROVE  Held(u, r) \in Nat /\ Holdings[u][r] = Held(u, r)
<1>1. request[u] \in Requests /\ artifact[u] \in Nat
  BY DEF TypesOK
<1>2. Amount(request[u], r) \in Nat
  BY <1>1, AmountType
<1> QED
  BY <1>1, <1>2 DEF Held, Holdings

\* What a run holds of r at a step, with a request and an artifact retention.
HeldAt(s, q, a, r) ==
    (IF r \in Owes[s] THEN Amount(q, r) ELSE 0) + (IF r = "result" THEN a ELSE 0)

\* So is what it holds at each step.
LEMMA HeldAtType ==
    ASSUME NEW s, NEW q \in Requests, NEW a \in Nat, NEW r \in Resources
    PROVE  HeldAt(s, q, a, r) \in Nat
<1>1. Amount(q, r) \in Nat
  BY AmountType
<1> QED
  BY <1>1 DEF HeldAt

\* A counter covers what any one run holds of it.
LEMMA CounterCovers ==
    ASSUME IInv, NEW u \in Runs, NEW r \in Resources
    PROVE  Held(u, r) \in Nat /\ Held(u, r) <= counter[r]
<1>1. Held(u, r) \in Nat /\ Holdings[u][r] = Held(u, r)
  BY HeldType DEF IInv
<1> DEFINE Mine == {u} \X (1..Held(u, r))
<1>2. IsFiniteSet(Mine) /\ Cardinality(Mine) = Held(u, r)
  BY <1>1, UnitsOfOne
<1>3. Mine \in SUBSET Budget!Units(Holdings, r)
  BY <1>1 DEF Budget!Units
<1>4. IsFiniteSet(Budget!Units(Holdings, r)) /\ Cardinality(Budget!Units(Holdings, r)) = counter[r]
  BY DEF IInv, CountsOK
<1> HIDE DEF Mine
<1>5. Cardinality(Mine) <= Cardinality(Budget!Units(Holdings, r))
  BY <1>3, <1>4, FS_Subset
<1> QED
  BY <1>1, <1>2, <1>4, <1>5

\* The shape of every step: one run moves, one counter changes by as much as
\* what the run holds of it.
Moves(u, r, to, q, a, k) ==
    /\ step' = [step EXCEPT ![u] = to]
    /\ request' = [request EXCEPT ![u] = q]
    /\ artifact' = [artifact EXCEPT ![u] = a]
    /\ counter' = [counter EXCEPT ![r] = counter[r] + k]
    /\ \A s \in Resources \ {r} : HeldAt(to, q, a, s) = Held(u, s)
    /\ HeldAt(to, q, a, r) = Held(u, r) + k
    /\ counter[r] + k <= Limit[r]
    /\ a # 0 => to \in HoldsArtifacts

\* When one run moves and the counters follow, the invariant stays.
LEMMA OneRunMoves ==
    ASSUME IInv, NEW u \in Runs, NEW r \in Resources, NEW to \in Steps,
           NEW q \in Requests, NEW a \in Nat, NEW k \in Int,
           Moves(u, r, to, q, a, k)
    PROVE  IInv'
<1> USE DEF Moves
<1>t. TypesOK
  BY DEF IInv
<1>c. counter \in [Resources -> Nat] /\ counter[r] \in Nat
  BY <1>t DEF TypesOK
<1>0. counter[r] + k \in Nat
  <2>1. Held(u, r) \in Nat /\ Held(u, r) <= counter[r]
    BY CounterCovers
  <2>2. HeldAt(to, q, a, r) \in Nat
    BY HeldAtType
  <2> QED
    BY <2>1, <2>2, <1>c
<1>1. counter' \in [Resources -> Nat]
  BY <1>0, <1>c
<1>2. step' \in [Runs -> Steps] /\ request' \in [Runs -> Requests] /\ artifact' \in [Runs -> Nat]
  BY <1>t DEF TypesOK
<1>3. TypesOK'
  BY <1>1, <1>2 DEF TypesOK
<1>4. counter'[r] = counter[r] + k /\ \A s \in Resources \ {r} : counter'[s] = counter[s]
  BY <1>c
<1>5. LimitsOK'
  <2> SUFFICES ASSUME NEW s \in Resources PROVE counter'[s] <= Limit[s]
    BY DEF LimitsOK, Limit, Resources
  <2>1. CASE s = r
    BY <2>1, <1>4
  <2>2. CASE s # r
    BY <2>2, <1>4 DEF IInv, LimitsOK
  <2> QED
    BY <2>1, <2>2
<1>6. step'[u] = to /\ request'[u] = q /\ artifact'[u] = a
  BY <1>t DEF TypesOK
<1>7. \A v \in Runs \ {u} : step'[v] = step[v] /\ request'[v] = request[v] /\ artifact'[v] = artifact[v]
  BY <1>t DEF TypesOK
<1>8. ArtifactsOK'
  BY <1>6, <1>7 DEF ArtifactsOK, IInv
<1>9. CountsOK'
  <2> SUFFICES ASSUME NEW s \in Resources
               PROVE  /\ IsFiniteSet(Budget!Units(Holdings', s))
                      /\ Cardinality(Budget!Units(Holdings', s)) = counter'[s]
    BY Zenon DEF CountsOK, Budget!Units, Resources
  <2>1. Holdings[u][s] = Held(u, s) /\ Held(u, s) \in Nat
    BY <1>t, HeldType
  <2>2. Holdings'[u][s] = HeldAt(to, q, a, s)
    BY <1>6 DEF Holdings, Held, HeldAt
  <2>3. HeldAt(to, q, a, s) \in Nat
    BY HeldAtType
  <2>4. \A v \in Runs \ {u} : Holdings'[v][s] = Holdings[v][s]
    BY <1>7 DEF Holdings, Held
  <2>5. /\ IsFiniteSet(Budget!Units(Holdings, s))
        /\ Cardinality(Budget!Units(Holdings, s)) = counter[s]
    BY DEF IInv, CountsOK
  <2>6. /\ IsFiniteSet(Budget!Units(Holdings', s))
        /\ Cardinality(Budget!Units(Holdings', s))
             = Cardinality(Budget!Units(Holdings, s)) - Holdings[u][s] + Holdings'[u][s]
    BY <2>1, <2>2, <2>3, <2>4, <2>5, OneRunChanges
  <2>7. counter[s] \in Nat
    BY <1>c
  <2>8. CASE s = r
    BY <2>8, <2>1, <2>2, <2>3, <2>5, <2>6, <2>7, <1>4
  <2>9. CASE s # r
    BY <2>9, <2>1, <2>2, <2>3, <2>5, <2>6, <2>7, <1>4
  <2> QED
    BY <2>8, <2>9
<1> QED
  BY <1>3, <1>5, <1>8, <1>9 DEF IInv

-----------------------------------------------------------------------------
(* One access of one counter preserves the invariant.                      *)

\* Moving from step s to step t changes what a run holds of r at most.
SameBut(u, s, t, r) ==
    \A x \in Resources \ {r} : Amount(request[u], x) # 0 => (x \in Owes[s] <=> x \in Owes[t])

\* fetch_sub of a resource the step owes and the next one does not.
LEMMA ReturnStep ==
    ASSUME IInv, NEW u \in Runs, NEW r \in Resources, NEW from, NEW to \in Steps,
           Return(u, r, from, to),
           r \in Owes[from], r \notin Owes[to], SameBut(u, from, to, r),
           artifact[u] # 0 => to \in HoldsArtifacts
    PROVE  IInv'
<1> DEFINE n == Amount(request[u], r)
<1>1. request[u] \in Requests /\ artifact[u] \in Nat /\ step[u] = from
  BY DEF IInv, TypesOK, Return, At
<1>2. n \in Nat
  BY <1>1, AmountType
<1>3. /\ step' = [step EXCEPT ![u] = to]
      /\ request' = [request EXCEPT ![u] = request[u]]
      /\ artifact' = [artifact EXCEPT ![u] = artifact[u]]
      /\ counter' = [counter EXCEPT ![r] = counter[r] - n]
  BY DEF Return, Goto, GiveBack, IInv, TypesOK
<1>4. /\ counter' = [counter EXCEPT ![r] = counter[r] + (0 - n)]
      /\ counter[r] \in Nat /\ counter[r] <= Limit[r]
  <2>1. counter[r] \in Nat /\ counter[r] <= Limit[r]
    BY DEF IInv, TypesOK, LimitsOK
  <2>2. counter[r] - n = counter[r] + (0 - n)
    BY <2>1, <1>2
  <2> QED
    BY <1>3, <2>1, <2>2
<1>5. \A s \in Resources \ {r} : HeldAt(to, request[u], artifact[u], s) = Held(u, s)
  BY <1>1 DEF HeldAt, Held, SameBut
<1>6. HeldAt(to, request[u], artifact[u], r) = Held(u, r) + (0 - n)
  BY <1>1, <1>2 DEF HeldAt, Held
<1>7. Limit[r] \in Nat
  BY LimitType
<1>8. counter[r] + (0 - n) <= Limit[r]
  BY <1>2, <1>4, <1>7
<1> HIDE DEF n
<1>9. 0 - n \in Int
  BY <1>2
<1>10. Moves(u, r, to, request[u], artifact[u], 0 - n)
  BY <1>1, <1>3, <1>4, <1>5, <1>6, <1>8 DEF Moves
<1> QED
  BY <1>1, <1>9, <1>10, OneRunMoves

\* A successful fetch_update of a resource the next step owes.
LEMMA ReserveStep ==
    ASSUME IInv, NEW u \in Runs, NEW r \in Resources, NEW from, NEW to \in Steps, NEW q \in Requests,
           At(u, from), Fits(r, Amount(q, r)), Reserve(r, Amount(q, r)), Goto(u, to),
           request' = [request EXCEPT ![u] = q], UNCHANGED artifact,
           r \notin Owes[from], r \in Owes[to],
           \A x \in Resources \ {r} : (x \in Owes[from] => q = request[u]) /\ (x \in Owes[from] <=> x \in Owes[to]),
           artifact[u] # 0 => to \in HoldsArtifacts
    PROVE  IInv'
<1> DEFINE n == Amount(q, r)
<1>1. artifact[u] \in Nat /\ step[u] = from
  BY DEF IInv, TypesOK, At
<1>2. n \in Nat
  BY AmountType
<1>3. /\ step' = [step EXCEPT ![u] = to]
      /\ artifact' = [artifact EXCEPT ![u] = artifact[u]]
      /\ counter' = [counter EXCEPT ![r] = @ + n]
      /\ counter[r] + n <= Limit[r]
  BY DEF Goto, Reserve, Fits, IInv, TypesOK
<1>4. \A s \in Resources \ {r} : HeldAt(to, q, artifact[u], s) = Held(u, s)
  BY <1>1 DEF HeldAt, Held
<1>5. HeldAt(to, q, artifact[u], r) = Held(u, r) + n
  BY <1>1, <1>2 DEF HeldAt, Held
<1> HIDE DEF n
<1>6. n \in Int
  BY <1>2
<1>7. Moves(u, r, to, q, artifact[u], n)
  BY <1>1, <1>3, <1>4, <1>5 DEF Moves
<1> QED
  BY <1>1, <1>6, <1>7, OneRunMoves

\* A step that touches no counter and owes as much as before.
LEMMA MoveStep ==
    ASSUME IInv, NEW u \in Runs, NEW from, NEW to \in Steps,
           At(u, from), Goto(u, to), UNCHANGED <<counter, request, artifact>>,
           SameBut(u, from, to, "none"),
           artifact[u] # 0 => to \in HoldsArtifacts
    PROVE  IInv'
<1> DEFINE r == "active"
<1>1. request[u] \in Requests /\ artifact[u] \in Nat /\ step[u] = from
  BY DEF IInv, TypesOK, At
<1>2. r \in Resources /\ counter[r] \in Nat /\ counter[r] <= Limit[r] /\ Limit[r] \in Nat
  BY LimitType DEF Resources, IInv, TypesOK, LimitsOK
<1>3. /\ step' = [step EXCEPT ![u] = to]
      /\ request' = [request EXCEPT ![u] = request[u]]
      /\ artifact' = [artifact EXCEPT ![u] = artifact[u]]
      /\ counter' = [counter EXCEPT ![r] = @ + 0]
  BY <1>2 DEF Goto, IInv, TypesOK
<1>4. \A s \in Resources : HeldAt(to, request[u], artifact[u], s) = Held(u, s)
  BY <1>1 DEF HeldAt, Held, SameBut, Resources
<1>5. HeldAt(to, request[u], artifact[u], r) = Held(u, r) + 0
  <2>1. HeldAt(to, request[u], artifact[u], r) = Held(u, r)
    BY <1>2, <1>4
  <2>2. Held(u, r) \in Nat
    BY <1>2, CounterCovers
  <2> QED
    BY <2>1, <2>2
<1>6. counter[r] + 0 <= Limit[r]
  BY <1>2
<1> HIDE DEF r
<1>7. Moves(u, r, to, request[u], artifact[u], 0)
  BY <1>1, <1>2, <1>3, <1>4, <1>5, <1>6 DEF Moves
<1> QED
  BY <1>1, <1>2, <1>7, 0 \in Int, OneRunMoves

\* fetch_update or fetch_sub of the result counter by an artifact retention.
LEMMA ArtifactStep ==
    ASSUME IInv, NEW u \in Runs, NEW from, NEW to \in Steps, NEW a \in Nat,
           At(u, from), SetArtifact(u, a, to), SameBut(u, from, to, "none"),
           counter' = [counter EXCEPT !["result"] = @ + (a - artifact[u])],
           counter["result"] + (a - artifact[u]) <= Limit["result"],
           a # 0 => to \in HoldsArtifacts
    PROVE  IInv'
<1>1. request[u] \in Requests /\ artifact[u] \in Nat /\ step[u] = from
  BY DEF IInv, TypesOK, At
<1>2. /\ step' = [step EXCEPT ![u] = to]
      /\ request' = [request EXCEPT ![u] = request[u]]
      /\ artifact' = [artifact EXCEPT ![u] = a]
  BY DEF SetArtifact, Goto, IInv, TypesOK
<1>3. \A s \in Resources \ {"result"} : HeldAt(to, request[u], a, s) = Held(u, s)
  BY <1>1 DEF HeldAt, Held, SameBut, Resources
<1>4. HeldAt(to, request[u], a, "result") = Held(u, "result") + (a - artifact[u])
  <2>1. Amount(request[u], "result") \in Nat
    BY <1>1, AmountType DEF Resources
  <2> QED
    BY <1>1, <2>1 DEF HeldAt, Held, SameBut, Resources
<1>5. "result" \in Resources /\ a - artifact[u] \in Int
  BY <1>1 DEF Resources
<1>6. Moves(u, "result", to, request[u], a, a - artifact[u])
  BY <1>1, <1>2, <1>3, <1>4, <1>5 DEF Moves
<1> QED
  BY <1>1, <1>5, <1>6, OneRunMoves

-----------------------------------------------------------------------------
(* Every action preserves the invariant.                                   *)

\* The resources, by name.
LEMMA ResourceNames ==
    Resources = {"active", "output", "result", "memory"}
  BY DEF Resources

\* A run that is not sealing, or dropping what it sealed, has no artifacts.
LEMMA NoArtifacts ==
    ASSUME IInv, NEW u \in Runs, step[u] \notin HoldsArtifacts
    PROVE  artifact[u] = 0
  BY DEF IInv, ArtifactsOK

\* A claim of one resource, granted or refused, preserves the invariant.
LEMMA ClaimStep ==
    ASSUME IInv, NEW u \in Runs, NEW r \in Resources, NEW from, NEW to \in Steps, NEW full \in Steps,
           Claim(u, r, from, to, full), from \notin HoldsArtifacts,
           r \notin Owes[from], r \in Owes[to],
           \A x \in Resources \ {r} : x \in Owes[from] <=> x \in Owes[to],
           SameBut(u, from, full, "none")
    PROVE  IInv'
<1>1. request[u] \in Requests /\ step[u] = from /\ request \in [Runs -> Requests]
  BY DEF IInv, TypesOK, Claim, At
<1>2. artifact[u] = 0
  BY <1>1, NoArtifacts
<1>3. CASE /\ Fits(r, Amount(request[u], r))
           /\ Reserve(r, Amount(request[u], r))
           /\ Goto(u, to)
  <2>1. request' = [request EXCEPT ![u] = request[u]] /\ UNCHANGED artifact /\ At(u, from)
    BY <1>1 DEF Claim
  <2> QED
    BY <1>1, <1>2, <1>3, <2>1, ReserveStep
<1>4. CASE Goto(u, full) /\ UNCHANGED counter
  <2>1. UNCHANGED <<counter, request, artifact>> /\ At(u, from)
    BY <1>4 DEF Claim
  <2> QED
    BY <1>2, <1>4, <2>1, MoveStep
<1> QED
  BY <1>3, <1>4 DEF Claim

\* Acquiring a permit preserves it.
LEMMA AcquireKeeps ==
    ASSUME IInv, NEW u \in Runs, Acquire(u)
    PROVE  IInv'
<1> USE OwesOf, StepsAre, ResourceNames
<1>1. ASSUME NEW q \in Requests, TakeSlot(u, q)
      PROVE  IInv'
  <2>1. Amount(q, "active") = 1
    BY AmountType
  <2>2. artifact[u] = 0
    BY <1>1, NoArtifacts DEF TakeSlot, At, HoldsArtifacts
  <2>3. /\ At(u, "idle") /\ Fits("active", Amount(q, "active")) /\ Reserve("active", Amount(q, "active"))
        /\ Goto(u, "has_active") /\ request' = [request EXCEPT ![u] = q] /\ UNCHANGED artifact
    BY <1>1, <2>1 DEF TakeSlot
  <2> QED
    BY <2>2, <2>3, ReserveStep
<1>2. CASE TakeOutput(u)
  <2>1. /\ "output" \in Resources /\ "has_output" \in Steps /\ "undo_active" \in Steps
        /\ "has_active" \notin HoldsArtifacts /\ "output" \notin Owes["has_active"] /\ "output" \in Owes["has_output"]
    BY DEF HoldsArtifacts
  <2>2. \A x \in Resources \ {"output"} : x \in Owes["has_active"] <=> x \in Owes["has_output"]
    OBVIOUS
  <2>3. SameBut(u, "has_active", "undo_active", "none")
    BY DEF SameBut
  <2>4. Claim(u, "output", "has_active", "has_output", "undo_active")
    BY <1>2 DEF TakeOutput
  <2> HIDE OwesOf, StepsAre, ResourceNames
  <2> QED
    BY <2>1, <2>2, <2>3, <2>4, ClaimStep
<1>3. CASE TakeResult(u)
  <2>1. /\ "result" \in Resources /\ "has_result" \in Steps /\ "undo_output" \in Steps
        /\ "has_output" \notin HoldsArtifacts /\ "result" \notin Owes["has_output"] /\ "result" \in Owes["has_result"]
    BY DEF HoldsArtifacts
  <2>2. \A x \in Resources \ {"result"} : x \in Owes["has_output"] <=> x \in Owes["has_result"]
    OBVIOUS
  <2>3. SameBut(u, "has_output", "undo_output", "none")
    BY DEF SameBut
  <2>4. Claim(u, "result", "has_output", "has_result", "undo_output")
    BY <1>3 DEF TakeResult, AfterResultRefused
  <2> HIDE OwesOf, StepsAre, ResourceNames
  <2> QED
    BY <2>1, <2>2, <2>3, <2>4, ClaimStep
<1>4. CASE TakeMemory(u)
  <2>1. CASE request[u].memory = 0
    <3>1. Amount(request[u], "memory") = 0
      BY <2>1 DEF Amount
    <3>2. At(u, "has_result") /\ Goto(u, "running") /\ UNCHANGED <<counter, request, artifact>>
      BY <1>4, <2>1 DEF TakeMemory
    <3>3. artifact[u] = 0
      BY <3>2, NoArtifacts DEF At, HoldsArtifacts
    <3>4. SameBut(u, "has_result", "running", "none")
      BY <3>1 DEF SameBut
    <3> QED
      BY <3>2, <3>3, <3>4, MoveStep
  <2>2. CASE request[u].memory # 0
    <3>1. /\ "memory" \in Resources /\ "running" \in Steps /\ "undo_result" \in Steps
          /\ "has_result" \notin HoldsArtifacts /\ "memory" \notin Owes["has_result"] /\ "memory" \in Owes["running"]
      BY DEF HoldsArtifacts
    <3>2. \A x \in Resources \ {"memory"} : x \in Owes["has_result"] <=> x \in Owes["running"]
      OBVIOUS
    <3>3. SameBut(u, "has_result", "undo_result", "none")
      BY DEF SameBut
    <3>4. Claim(u, "memory", "has_result", "running", "undo_result")
      BY <1>4, <2>2 DEF TakeMemory
    <3> HIDE OwesOf, StepsAre, ResourceNames
    <3> QED
      BY <3>1, <3>2, <3>3, <3>4, ClaimStep
  <2> QED
    BY <2>1, <2>2
<1>5. CASE Undo(u)
  <2>1. artifact[u] = 0
    BY <1>5, NoArtifacts DEF Undo, Return, At, HoldsArtifacts
  <2> QED
    BY <1>5, <2>1, ReturnStep DEF Undo, SameBut
<1> QED
  BY <1>1, <1>2, <1>3, <1>4, <1>5 DEF Acquire

\* So does dropping a permit or turning it into the retention of output.
LEMMA PermitKeeps ==
    ASSUME IInv, NEW u \in Runs, DropPermit(u) \/ IntoOutputRetention(u)
    PROVE  IInv'
<1> USE OwesOf, StepsAre, ResourceNames
<1>1. artifact[u] = 0
  BY NoArtifacts DEF DropPermit, IntoOutputRetention, Return, At, HoldsArtifacts
<1>2. request[u].memory = 0 => Amount(request[u], "memory") = 0
  BY DEF Amount
<1>3. CASE Return(u, "result", "running", "drop_output")
  BY <1>1, <1>3, ReturnStep DEF SameBut
<1>4. CASE Return(u, "output", "drop_output", "drop_active")
  BY <1>1, <1>4, ReturnStep DEF SameBut
<1>5. CASE Return(u, "active", "drop_active", AfterSlot(u, "drop_memory", "idle"))
  <2>1. CASE request[u].memory = 0
    BY <1>1, <1>2, <1>5, <2>1, ReturnStep DEF SameBut, AfterSlot
  <2>2. CASE request[u].memory # 0
    BY <1>1, <1>5, <2>2, ReturnStep DEF SameBut, AfterSlot
  <2> QED
    BY <2>1, <2>2
<1>6. CASE Return(u, "memory", "drop_memory", "idle")
  BY <1>1, <1>6, ReturnStep DEF SameBut
<1>7. CASE Return(u, "active", "running", AfterSlot(u, "converting", "retained"))
  <2>1. CASE request[u].memory = 0
    BY <1>1, <1>2, <1>7, <2>1, ReturnStep DEF SameBut, AfterSlot
  <2>2. CASE request[u].memory # 0
    BY <1>1, <1>7, <2>2, ReturnStep DEF SameBut, AfterSlot
  <2> QED
    BY <2>1, <2>2
<1>8. CASE Return(u, "memory", "converting", "retained")
  BY <1>1, <1>8, ReturnStep DEF SameBut
<1> QED
  BY <1>3, <1>4, <1>5, <1>6, <1>7, <1>8 DEF DropPermit, IntoOutputRetention

\* The operations of the artifact retention and of the sealed result.
ArtifactCalls(u) ==
    \/ \E n \in Artifacts : CollectArtifacts(u, n)
    \/ \E n \in 0..artifact[u] : ShrinkTo(u, n)
    \/ DropArtifacts(u)

\* So do the calls on artifacts.
LEMMA ArtifactsKeep ==
    ASSUME IInv, NEW u \in Runs, ArtifactCalls(u)
    PROVE  IInv'
<1> USE OwesOf, StepsAre
<1>1. /\ artifact[u] \in Nat /\ counter["result"] \in Nat
      /\ counter["result"] <= Limit["result"] /\ Limit["result"] \in Nat
  BY LimitType DEF IInv, TypesOK, LimitsOK, Resources
<1>2. ASSUME NEW n \in Artifacts, CollectArtifacts(u, n)
      PROVE  IInv'
  <2>1. artifact[u] = 0 /\ n \in Nat /\ n - artifact[u] = n
    BY <1>2, NoArtifacts, RequestAssumption DEF CollectArtifacts, At, HoldsArtifacts
  <2>2. CASE Fits("result", n) /\ Reserve("result", n) /\ SetArtifact(u, n, "collecting")
    <3>1. At(u, "retained") /\ SameBut(u, "retained", "collecting", "none")
      BY <1>2 DEF CollectArtifacts, SameBut
    <3>2. counter' = [counter EXCEPT !["result"] = @ + (n - artifact[u])]
      BY <2>1, <2>2 DEF Reserve
    <3>3. counter["result"] + (n - artifact[u]) <= Limit["result"]
      BY <2>1, <2>2 DEF Fits
    <3> QED
      BY <2>1, <2>2, <3>1, <3>2, <3>3, ArtifactStep DEF HoldsArtifacts
  <2>3. CASE Goto(u, "sealing") /\ UNCHANGED <<counter, request, artifact>>
    <3>1. At(u, "retained") /\ SameBut(u, "retained", "sealing", "none")
      BY <1>2 DEF CollectArtifacts, SameBut
    <3> QED
      BY <2>1, <2>3, <3>1, MoveStep
  <2> QED
    BY <1>2, <2>2, <2>3 DEF CollectArtifacts
<1>3. ASSUME NEW n \in 0..artifact[u], ShrinkTo(u, n)
      PROVE  IInv'
  <2>1. n \in Nat /\ n <= artifact[u]
    BY <1>1
  <2>2. At(u, "collecting") /\ SetArtifact(u, n, "sealing") /\ SameBut(u, "collecting", "sealing", "none")
    BY <1>3 DEF ShrinkTo, SameBut
  <2>3. counter["result"] - (artifact[u] - n) = counter["result"] + (n - artifact[u])
    BY <1>1, <2>1
  <2>4. counter' = [counter EXCEPT !["result"] = @ + (n - artifact[u])]
    BY <1>3, <2>3 DEF ShrinkTo, GiveBack
  <2>5. counter["result"] + (n - artifact[u]) <= Limit["result"]
    BY <1>1, <2>1
  <2> QED
    BY <2>1, <2>2, <2>4, <2>5, ArtifactStep DEF HoldsArtifacts
<1>4. CASE DropArtifacts(u)
  <2>1. PICK s \in {"sealed", "failed"} : SetArtifact(u, 0, s)
    BY <1>4 DEF DropArtifacts
  <2>2. At(u, "sealing") /\ SameBut(u, "sealing", s, "none")
    BY <1>4, <2>1 DEF DropArtifacts, SameBut
  <2>3. counter["result"] - artifact[u] = counter["result"] + (0 - artifact[u])
    BY <1>1
  <2>4. counter' = [counter EXCEPT !["result"] = @ + (0 - artifact[u])]
    BY <1>4, <2>3 DEF DropArtifacts, GiveBack
  <2>5. counter["result"] + (0 - artifact[u]) <= Limit["result"]
    BY <1>1
  <2>6. 0 \in Nat /\ s \in Steps
    BY <2>1
  <2> HIDE OwesOf, StepsAre
  <2> QED
    BY <2>1, <2>2, <2>4, <2>5, <2>6, ArtifactStep
<1> QED
  BY <1>2, <1>3, <1>4 DEF ArtifactCalls

\* So do sealing and dropping a result.
LEMMA ResultKeeps ==
    ASSUME IInv, NEW u \in Runs, SkipArtifacts(u) \/ Seal(u) \/ DropResult(u)
    PROVE  IInv'
<1> USE OwesOf, StepsAre, ResourceNames
<1>1. CASE SkipArtifacts(u)
  BY <1>1, MoveStep DEF SkipArtifacts, SameBut, HoldsArtifacts
<1>2. CASE Seal(u)
  BY <1>2, MoveStep DEF Seal, SameBut, HoldsArtifacts
<1>3. CASE MayDropResult(u) /\ Return(u, "result", step[u], "drop_retained")
  <2>1. step[u] \in {"retained", "sealed", "failed", "sealing"}
    BY <1>3 DEF MayDropResult, At
  <2>2. "result" \in Owes[step[u]] /\ "result" \notin Owes["drop_retained"]
    BY <2>1
  <2>3. SameBut(u, step[u], "drop_retained", "result")
    BY <2>1 DEF SameBut
  <2> QED
    BY <1>3, <2>2, <2>3, ReturnStep DEF HoldsArtifacts
<1>4. CASE Return(u, "output", "drop_retained", IF artifact[u] = 0 THEN "idle" ELSE "drop_artifact")
  <2>1. CASE artifact[u] = 0
    BY <1>4, <2>1, ReturnStep DEF SameBut
  <2>2. CASE artifact[u] # 0
    BY <1>4, <2>2, ReturnStep DEF SameBut, HoldsArtifacts
  <2> QED
    BY <2>1, <2>2
<1>5. CASE At(u, "drop_artifact") /\ GiveBack("result", artifact[u]) /\ SetArtifact(u, 0, "idle")
  <2>1. /\ artifact[u] \in Nat /\ counter["result"] \in Nat
        /\ counter["result"] <= Limit["result"] /\ Limit["result"] \in Nat
    BY LimitType DEF IInv, TypesOK, LimitsOK
  <2>2. counter["result"] - artifact[u] = counter["result"] + (0 - artifact[u])
    BY <2>1
  <2>3. counter' = [counter EXCEPT !["result"] = @ + (0 - artifact[u])]
    BY <1>5, <2>2 DEF GiveBack
  <2>4. counter["result"] + (0 - artifact[u]) <= Limit["result"]
    BY <2>1
  <2>5. SameBut(u, "drop_artifact", "idle", "none") /\ "idle" \in Steps
    BY DEF SameBut
  <2> HIDE OwesOf, StepsAre, ResourceNames
  <2> QED
    BY <1>5, <2>3, <2>4, <2>5, 0 \in Nat, ArtifactStep
<1> QED
  BY <1>1, <1>2, <1>3, <1>4, <1>5 DEF DropResult

-----------------------------------------------------------------------------
(* The invariant, and what it says.                                        *)

\* The initial states satisfy the invariant.
LEMMA InitInv ==
    ASSUME Init
    PROVE  IInv
<1>1. TypesOK
  <2>1. PICK q \in Requests : request = [u \in Runs |-> q]
    BY DEF Init
  <2> QED
    BY <2>1, StepsAre DEF Init, TypesOK
<1>2. LimitsOK
  <2>1. \A r \in Resources : Limit[r] \in Nat /\ counter[r] = 0
    BY LimitType DEF Init
  <2> QED
    BY <2>1 DEF LimitsOK
<1>3. ArtifactsOK
  BY DEF Init, ArtifactsOK
<1>4. CountsOK
  <2> SUFFICES ASSUME NEW r \in Resources
               PROVE  /\ IsFiniteSet(Budget!Units(Holdings, r))
                      /\ Cardinality(Budget!Units(Holdings, r)) = counter[r]
    BY DEF CountsOK
  <2>1. \A u \in Runs : Holdings[u][r] = 0
    BY OwesOf DEF Init, Holdings, Held
  <2>2. \A u \in Runs : {u} \X (1..Holdings[u][r]) = {}
    BY <2>1
  <2>3. Budget!Units(Holdings, r) = {}
    BY <2>2 DEF Budget!Units
  <2>4. counter[r] = 0
    BY DEF Init
  <2> QED
    BY <2>3, <2>4, FS_EmptySet
<1> QED
  BY <1>1, <1>2, <1>3, <1>4 DEF IInv

\* Every step preserves it.
LEMMA NextInv ==
    ASSUME IInv, [Next]_vars
    PROVE  IInv'
<1>1. ASSUME NEW u \in Runs, Acquire(u)
      PROVE  IInv'
  BY <1>1, AcquireKeeps
<1>2. ASSUME NEW u \in Runs, Finish(u)
      PROVE  IInv'
  BY <1>2, PermitKeeps, ArtifactsKeep, ResultKeeps DEF Finish, ArtifactCalls
<1>3. CASE UNCHANGED vars
  <2>1. CountsOK' = CountsOK
    BY <1>3 DEF CountsOK, Holdings, Held, vars
  <2> QED
    BY <1>3, <2>1 DEF IInv, TypesOK, LimitsOK, ArtifactsOK, vars
<1> QED
  BY <1>1, <1>2, <1>3 DEF Next

\* The invariant holds throughout.
LEMMA Invariant == Spec => []IInv
<1>1. Init => IInv
  BY InitInv
<1>2. IInv /\ [Next]_vars => IInv'
  BY NextInv
<1> QED
  BY <1>1, <1>2, PTL DEF Spec

\* No counter leaves the range from zero to its limit, whatever the order of
\* the accesses: fetch_sub never wraps.
THEOREM TypeCorrect == Spec => []TypeOK
<1>1. IInv => TypeOK
  BY DEF IInv, TypesOK, LimitsOK, TypeOK
<1> QED
  BY <1>1, Invariant, PTL

\* No path of acquire, into_output_retention and the drops leaks capacity or
\* gives it back twice: at every moment each counter is exactly what the runs
\* together still have to return.
THEOREM CountersAreExact == Spec => []CountersMatchHoldings
<1>1. IInv => CountersMatchHoldings
  BY DEF IInv, CountsOK, CountersMatchHoldings
<1> QED
  BY <1>1, Invariant, PTL

-----------------------------------------------------------------------------
(* The counters implement ProcessBudget.                                   *)

\* ProcessBudget counts as this module does.
LEMMA SameCardinality ==
    ASSUME NEW S
    PROVE  Budget!Cardinality(S) = Cardinality(S)
  BY DEF Budget!Cardinality, Cardinality

\* What is claimed is never more than what is counted.
LEMMA ClaimsWithinLimits ==
    ASSUME IInv
    PROVE  Budget!WithinLimits(Claimed)
<1> SUFFICES ASSUME NEW r \in Resources
             PROVE  Cardinality(Budget!Units(Claimed, r)) <= Limit[r]
  BY SameCardinality, Zenon DEF Budget!WithinLimits, Budget!Resources, Resources
<1>1. \A u \in Runs : Holdings[u][r] = Held(u, r) /\ Claimed[u][r] \in {0, Held(u, r)}
  BY DEF Holdings, Claimed
<1>2. \A u \in Runs : Held(u, r) \in Nat
  BY CounterCovers
<1>3. \A u \in Runs : (1..Claimed[u][r]) \subseteq (1..Holdings[u][r])
  BY <1>1, <1>2
<1>4. Budget!Units(Claimed, r) \in SUBSET Budget!Units(Holdings, r)
  BY <1>3 DEF Budget!Units
<1>5. /\ IsFiniteSet(Budget!Units(Holdings, r))
      /\ Cardinality(Budget!Units(Holdings, r)) = counter[r]
      /\ counter[r] \in Nat /\ counter[r] <= Limit[r] /\ Limit[r] \in Nat
  BY LimitType DEF IInv, CountsOK, LimitsOK, TypesOK
<1>6. /\ IsFiniteSet(Budget!Units(Claimed, r))
      /\ Cardinality(Budget!Units(Claimed, r)) <= Cardinality(Budget!Units(Holdings, r))
  BY <1>4, <1>5, FS_Subset
<1>7. Cardinality(Budget!Units(Claimed, r)) \in Nat
  BY <1>6, FS_CardinalityType
<1> QED
  BY <1>5, <1>6, <1>7

\* Nothing but run u moves.
Moved(u, to, q, a) ==
    /\ step' = [step EXCEPT ![u] = to]
    /\ request' = [request EXCEPT ![u] = q]
    /\ artifact' = [artifact EXCEPT ![u] = a]

ClaimedAt(s, q, a, r) == IF s \in Acquiring THEN 0 ELSE HeldAt(s, q, a, r)

\* What a run that moves claims, before and after.
LEMMA ClaimsOfTheMoved ==
    ASSUME TypesOK, NEW u \in Runs, NEW to, NEW q, NEW a, Moved(u, to, q, a)
    PROVE  /\ Claimed' = [Claimed EXCEPT ![u] = [r \in Resources |-> ClaimedAt(to, q, a, r)]]
           /\ Claimed[u] = [r \in Resources |-> ClaimedAt(step[u], request[u], artifact[u], r)]
<1>1. step'[u] = to /\ request'[u] = q /\ artifact'[u] = a
  BY DEF TypesOK, Moved
<1>2. \A v \in Runs \ {u} : step'[v] = step[v] /\ request'[v] = request[v] /\ artifact'[v] = artifact[v]
  BY DEF TypesOK, Moved
<1>3. \A v \in Runs \ {u} : Claimed'[v] = Claimed[v]
  BY <1>2 DEF Claimed, Held
<1>4. Claimed'[u] = [r \in Resources |-> ClaimedAt(to, q, a, r)]
  BY <1>1 DEF Claimed, Held, ClaimedAt, HeldAt
<1>5. Claimed[u] = [r \in Resources |-> ClaimedAt(step[u], request[u], artifact[u], r)]
  BY DEF Claimed, Held, ClaimedAt, HeldAt
<1>6. /\ Claimed = [v \in Runs |-> Claimed[v]]
      /\ Claimed' = [v \in Runs |-> Claimed'[v]]
  BY DEF Claimed
<1> QED
  BY <1>3, <1>4, <1>5, <1>6

\* A run that may count on as much as before: the abstract step is a stutter.
LEMMA StutterMaps ==
    ASSUME TypesOK, NEW u \in Runs, NEW to, NEW q, NEW a, Moved(u, to, q, a),
           \A r \in Resources :
               ClaimedAt(to, q, a, r) = ClaimedAt(step[u], request[u], artifact[u], r)
    PROVE  Claimed' = Claimed
<1>1. /\ Claimed' = [Claimed EXCEPT ![u] = [r \in Resources |-> ClaimedAt(to, q, a, r)]]
      /\ Claimed[u] = [r \in Resources |-> ClaimedAt(step[u], request[u], artifact[u], r)]
  BY ClaimsOfTheMoved
<1>2. [r \in Resources |-> ClaimedAt(to, q, a, r)] = Claimed[u]
  BY <1>1
<1>3. Claimed = [v \in Runs |-> Claimed[v]]
  BY DEF Claimed
<1> QED
  BY <1>1, <1>2, <1>3

\* A run that may count on less of one resource: the abstract step releases.
LEMMA ReleaseMaps ==
    ASSUME TypesOK, NEW u \in Runs, NEW to, NEW q, NEW a, Moved(u, to, q, a), NEW r \in Resources,
           NEW n \in Nat, NEW m \in Nat, n < m,
           ClaimedAt(step[u], request[u], artifact[u], r) = m,
           ClaimedAt(to, q, a, r) = n,
           \A s \in Resources \ {r} :
               ClaimedAt(to, q, a, s) = ClaimedAt(step[u], request[u], artifact[u], s)
    PROVE  Budget!Next
<1>1. /\ Claimed' = [Claimed EXCEPT ![u] = [s \in Resources |-> ClaimedAt(to, q, a, s)]]
      /\ Claimed[u] = [s \in Resources |-> ClaimedAt(step[u], request[u], artifact[u], s)]
  BY ClaimsOfTheMoved
<1>2. [s \in Resources |-> ClaimedAt(to, q, a, s)] = [Claimed[u] EXCEPT ![r] = n]
  BY <1>1
<1>3. Claimed[u][r] = m
  BY <1>1
<1>4. Claimed' = [Claimed EXCEPT ![u][r] = n]
  BY <1>1, <1>2
<1>5. Budget!Release(u, r, n)
  BY <1>3, <1>4 DEF Budget!Release
<1>6. n \in 0..(Claimed[u][r] - 1) /\ r \in Budget!Resources
  BY <1>3 DEF Budget!Resources, Resources
<1> QED
  BY <1>5, <1>6 DEF Budget!Next

Abstracts == Budget!Next \/ Claimed' = Claimed

\* Acquiring and undoing promise nothing yet.
LEMMA AcquiringMaps ==
    ASSUME TypesOK, NEW u \in Runs, NEW to \in Acquiring \cup {"idle"}, NEW q,
           Moved(u, to, q, artifact[u]), step[u] \in Acquiring \cup {"idle"}, artifact[u] = 0
    PROVE  Claimed' = Claimed
<1>1. \A r \in Resources : ClaimedAt(to, q, artifact[u], r) = 0
  BY OwesOf DEF ClaimedAt, HeldAt
<1>2. \A r \in Resources : ClaimedAt(step[u], request[u], artifact[u], r) = 0
  BY OwesOf DEF ClaimedAt, HeldAt
<1> QED
  BY <1>1, <1>2, StutterMaps

\* The last reservation of acquire grants the whole request.
LEMMA GrantMaps ==
    ASSUME IInv, IInv', NEW u \in Runs, step[u] = "has_result", artifact[u] = 0,
           Moved(u, "running", request[u], artifact[u])
    PROVE  Budget!Next
<1> DEFINE q == request[u]
<1>1. TypesOK /\ q \in Requests
  BY DEF IInv, TypesOK
<1>2. /\ Claimed' = [Claimed EXCEPT ![u] = [r \in Resources |-> ClaimedAt("running", q, 0, r)]]
      /\ Claimed[u] = [r \in Resources |-> ClaimedAt("has_result", q, 0, r)]
  BY <1>1, ClaimsOfTheMoved
<1>3. \A r \in Resources : ClaimedAt("has_result", q, 0, r) = 0
  BY DEF ClaimedAt, Acquiring
<1>4. \A r \in Resources : ClaimedAt("running", q, 0, r) = Amount(q, r)
  <2> SUFFICES ASSUME NEW r \in Resources PROVE ClaimedAt("running", q, 0, r) = Amount(q, r)
    OBVIOUS
  <2>1. Amount(q, r) \in Nat
    BY <1>1, AmountType
  <2> QED
    BY <2>1, OwesOf DEF ClaimedAt, HeldAt, Acquiring
<1>5. Claimed[u] = Budget!Nothing
  BY <1>2, <1>3 DEF Budget!Nothing, Budget!Resources, Resources
<1>6. [r \in Resources |-> ClaimedAt("running", q, 0, r)] = Budget!Asked(q)
  <2>1. [r \in Resources |-> ClaimedAt("running", q, 0, r)] = [r \in Resources |-> Amount(q, r)]
    BY <1>4
  <2> QED
    BY <2>1 DEF Budget!Asked, Budget!Resources, Resources, Amount
<1>7. Claimed' = [Claimed EXCEPT ![u] = Budget!Asked(q)]
  BY <1>2, <1>6
<1>8. Budget!WithinLimits(Claimed')
  <2>1. Budget!WithinLimits(Claimed)'
    BY ClaimsWithinLimits, IInv', PTL
  <2> QED
    BY <2>1 DEF Budget!WithinLimits, Budget!Units, Limit
<1>9. Budget!Grant(u, q)
  BY <1>5, <1>7, <1>8 DEF Budget!Grant
<1> QED
  BY <1>1, <1>9 DEF Budget!Next

\* A fetch_sub past acquire releases what it gives back.
LEMMA ReturnMaps ==
    ASSUME IInv, NEW u \in Runs, NEW r \in Resources, NEW from, NEW to \in Steps,
           Return(u, r, from, to), from \notin Acquiring, to \notin Acquiring,
           r \in Owes[from], r \notin Owes[to], SameBut(u, from, to, r)
    PROVE  Abstracts
<1> DEFINE q == request[u]
           a == artifact[u]
           rest == IF r = "result" THEN a ELSE 0
<1>1. /\ TypesOK /\ q \in Requests /\ a \in Nat /\ step[u] = from
      /\ Moved(u, to, q, a)
  BY DEF IInv, TypesOK, Return, At, Goto, Moved
<1>2. Amount(q, r) \in Nat /\ rest \in Nat
  BY <1>1, AmountType
<1>3. ClaimedAt(step[u], q, a, r) = Amount(q, r) + rest
  BY <1>1, <1>2 DEF ClaimedAt, HeldAt
<1>4. ClaimedAt(to, q, a, r) = rest
  BY <1>1, <1>2 DEF ClaimedAt, HeldAt
<1>5. \A s \in Resources \ {r} : ClaimedAt(to, q, a, s) = ClaimedAt(step[u], q, a, s)
  BY <1>1 DEF ClaimedAt, HeldAt, SameBut
<1> HIDE DEF rest
<1>6. CASE Amount(q, r) = 0
  <2>1. ClaimedAt(to, q, a, r) = ClaimedAt(step[u], q, a, r)
    BY <1>2, <1>3, <1>4, <1>6
  <2>2. \A s \in Resources : ClaimedAt(to, q, a, s) = ClaimedAt(step[u], q, a, s)
    BY <1>5, <2>1
  <2> QED
    BY <1>1, <2>2, StutterMaps DEF Abstracts
<1>7. CASE Amount(q, r) # 0
  <2>1. Amount(q, r) + rest \in Nat /\ rest < Amount(q, r) + rest
    BY <1>2, <1>7
  <2> QED
    BY <1>1, <1>2, <1>3, <1>4, <1>5, <2>1, ReleaseMaps DEF Abstracts
<1> QED
  BY <1>6, <1>7

\* A step of the artifact retention that gives bytes back, or none.
LEMMA ShrinkMaps ==
    ASSUME IInv, NEW u \in Runs, NEW from, NEW to \in Steps, NEW n \in Nat, n <= artifact[u],
           At(u, from), Moved(u, to, request[u], n), from \notin Acquiring, to \notin Acquiring,
           Owes[from] = Owes[to]
    PROVE  Abstracts
<1> DEFINE q == request[u]
           a == artifact[u]
           owed == IF "result" \in Owes[from] THEN Amount(q, "result") ELSE 0
<1>1. TypesOK /\ q \in Requests /\ a \in Nat /\ step[u] = from /\ "result" \in Resources
  BY DEF IInv, TypesOK, At, Resources
<1>2. owed \in Nat
  BY <1>1, AmountType
<1>3. ClaimedAt(step[u], q, a, "result") = owed + a
  BY <1>1, <1>2 DEF ClaimedAt, HeldAt
<1>4. ClaimedAt(to, q, n, "result") = owed + n
  BY <1>1, <1>2 DEF ClaimedAt, HeldAt
<1>5. \A s \in Resources \ {"result"} : ClaimedAt(to, q, n, s) = ClaimedAt(step[u], q, a, s)
  BY <1>1 DEF ClaimedAt, HeldAt
<1> HIDE DEF owed
<1>6. CASE n = a
  <2>1. \A s \in Resources : ClaimedAt(to, q, n, s) = ClaimedAt(step[u], q, a, s)
    BY <1>3, <1>4, <1>5, <1>6
  <2> QED
    BY <1>1, <2>1, StutterMaps DEF Abstracts
<1>7. CASE n # a
  <2>1. owed + a \in Nat /\ owed + n \in Nat /\ owed + n < owed + a
    BY <1>1, <1>2, <1>7
  <2> QED
    BY <1>1, <1>3, <1>4, <1>5, <2>1, ReleaseMaps DEF Abstracts
<1> QED
  BY <1>6, <1>7

\* A successful reservation for artifacts collects them.
LEMMA CollectMaps ==
    ASSUME IInv, IInv', NEW u \in Runs, NEW n \in Artifacts, At(u, "retained"),
           Moved(u, "collecting", request[u], n)
    PROVE  Budget!Next
<1> DEFINE q == request[u]
<1>1. TypesOK /\ q \in Requests /\ step[u] = "retained" /\ n \in Nat /\ artifact[u] = 0
  BY NoArtifacts, RequestAssumption DEF IInv, TypesOK, At, HoldsArtifacts
<1>2. /\ Claimed' = [Claimed EXCEPT ![u] = [r \in Resources |-> ClaimedAt("collecting", q, n, r)]]
      /\ Claimed[u] = [r \in Resources |-> ClaimedAt("retained", q, 0, r)]
  BY <1>1, ClaimsOfTheMoved
<1>3. /\ Amount(q, "output") \in Nat /\ Amount(q, "output") > 0 /\ Amount(q, "result") \in Nat
  BY <1>1, AmountType DEF Resources
<1>4. \A r \in Resources :
        /\ r # "result" => ClaimedAt("collecting", q, n, r) = ClaimedAt("retained", q, 0, r)
        /\ r = "result" => /\ ClaimedAt("retained", q, 0, r) = Amount(q, "result")
                           /\ ClaimedAt("collecting", q, n, r) = Amount(q, "result") + n
        /\ r = "active" => ClaimedAt("retained", q, 0, r) = 0
        /\ r = "output" => ClaimedAt("retained", q, 0, r) = Amount(q, "output")
  BY <1>1, <1>3, OwesOf DEF ClaimedAt, HeldAt, Acquiring
<1>5. Claimed[u]["active"] = 0 /\ Claimed[u]["output"] > 0
  BY <1>2, <1>3, <1>4 DEF Resources
<1>6. [r \in Resources |-> ClaimedAt("collecting", q, n, r)]
        = [Claimed[u] EXCEPT !["result"] = @ + n]
  BY <1>2, <1>4 DEF Resources
<1>7. Claimed' = [Claimed EXCEPT ![u]["result"] = @ + n]
  BY <1>2, <1>6
<1>8. Budget!WithinLimits(Claimed')
  <2>1. Budget!WithinLimits(Claimed)'
    BY ClaimsWithinLimits, IInv', PTL
  <2> QED
    BY <2>1 DEF Budget!WithinLimits, Budget!Units, Limit
<1>9. Budget!Collect(u, n)
  BY <1>5, <1>7, <1>8 DEF Budget!Collect
<1> QED
  BY <1>9 DEF Budget!Next

\* Acquiring a permit is a step of the budget.
LEMMA AcquireMaps ==
    ASSUME IInv, IInv', NEW u \in Runs, Acquire(u)
    PROVE  Abstracts
<1>0. TypesOK
  BY DEF IInv
<1>1. artifact[u] = 0
  <2>1. step[u] \notin HoldsArtifacts
    BY DEF Acquire, TakeSlot, TakeOutput, TakeResult, TakeMemory, Undo, Claim, Return, At, HoldsArtifacts
  <2> QED
    BY <2>1, NoArtifacts
<1>2. ASSUME NEW q \in Requests, TakeSlot(u, q)
      PROVE  Claimed' = Claimed
  <2>1. Moved(u, "has_active", q, artifact[u]) /\ step[u] = "idle"
    BY <1>0, <1>2 DEF TakeSlot, At, Goto, Moved, TypesOK
  <2>2. "has_active" \in Acquiring
    BY DEF Acquiring
  <2> QED
    BY <1>0, <1>1, <2>1, <2>2, AcquiringMaps
<1>3. ASSUME NEW r, NEW from \in Acquiring, NEW to \in Acquiring, NEW full \in Acquiring,
             Claim(u, r, from, to, full)
      PROVE  Claimed' = Claimed
  <2>1. step[u] \in Acquiring
    BY <1>3 DEF Claim, At
  <2>2. PICK s \in {to, full} : Moved(u, s, request[u], artifact[u])
    BY <1>0, <1>3 DEF Claim, Goto, Moved, TypesOK
  <2>3. s \in Acquiring
    BY <1>3, <2>2
  <2> QED
    BY <1>0, <1>1, <2>1, <2>2, <2>3, AcquiringMaps
<1>4. CASE TakeOutput(u)
  BY <1>3, <1>4 DEF TakeOutput, Acquiring, Abstracts
<1>5. CASE TakeResult(u)
  BY <1>3, <1>5 DEF TakeResult, AfterResultRefused, Acquiring, Abstracts
<1>6. CASE TakeMemory(u)
  <2>1. step[u] = "has_result" /\ UNCHANGED <<request, artifact>>
    BY <1>6 DEF TakeMemory, Claim, At
  <2>2. CASE Goto(u, "running")
    <3>1. Moved(u, "running", request[u], artifact[u])
      BY <1>0, <2>1, <2>2 DEF Goto, Moved, TypesOK
    <3> QED
      BY <1>1, <2>1, <3>1, GrantMaps DEF Abstracts
  <2>3. CASE Goto(u, "undo_result")
    <3>1. Moved(u, "undo_result", request[u], artifact[u])
      BY <1>0, <2>1, <2>3 DEF Goto, Moved, TypesOK
    <3>2. "undo_result" \in Acquiring /\ step[u] \in Acquiring
      BY <2>1 DEF Acquiring
    <3> QED
      BY <1>0, <1>1, <3>1, <3>2, AcquiringMaps DEF Abstracts
  <2> QED
    BY <1>6, <2>2, <2>3 DEF TakeMemory, Claim
<1>7. CASE Undo(u)
  <2>1. PICK r \in Resources, from \in Acquiring, to \in Acquiring \cup {"idle"} : Return(u, r, from, to)
    BY <1>7 DEF Undo, Acquiring, Resources
  <2>2. Moved(u, to, request[u], artifact[u]) /\ step[u] \in Acquiring \cup {"idle"}
    BY <1>0, <2>1 DEF Return, At, Goto, Moved, TypesOK
  <2> QED
    BY <1>0, <1>1, <2>1, <2>2, AcquiringMaps DEF Abstracts
<1> QED
  BY <1>2, <1>4, <1>5, <1>6, <1>7 DEF Acquire, Abstracts

\* So is dropping or turning it.
LEMMA PermitMaps ==
    ASSUME IInv, NEW u \in Runs, DropPermit(u) \/ IntoOutputRetention(u)
    PROVE  Abstracts
<1> USE OwesOf, StepsAre, ResourceNames DEF Acquiring
<1>2. request[u].memory = 0 => Amount(request[u], "memory") = 0
  BY DEF Amount
<1>3. CASE Return(u, "result", "running", "drop_output")
  BY <1>3, ReturnMaps DEF SameBut
<1>4. CASE Return(u, "output", "drop_output", "drop_active")
  BY <1>4, ReturnMaps DEF SameBut
<1>5. CASE Return(u, "active", "drop_active", AfterSlot(u, "drop_memory", "idle"))
  <2>1. CASE request[u].memory = 0
    BY <1>2, <1>5, <2>1, ReturnMaps DEF SameBut, AfterSlot
  <2>2. CASE request[u].memory # 0
    BY <1>5, <2>2, ReturnMaps DEF SameBut, AfterSlot
  <2> QED
    BY <2>1, <2>2
<1>6. CASE Return(u, "memory", "drop_memory", "idle")
  BY <1>6, ReturnMaps DEF SameBut
<1>7. CASE Return(u, "active", "running", AfterSlot(u, "converting", "retained"))
  <2>1. CASE request[u].memory = 0
    BY <1>2, <1>7, <2>1, ReturnMaps DEF SameBut, AfterSlot
  <2>2. CASE request[u].memory # 0
    BY <1>7, <2>2, ReturnMaps DEF SameBut, AfterSlot
  <2> QED
    BY <2>1, <2>2
<1>8. CASE Return(u, "memory", "converting", "retained")
  BY <1>8, ReturnMaps DEF SameBut
<1> QED
  BY <1>3, <1>4, <1>5, <1>6, <1>7, <1>8 DEF DropPermit, IntoOutputRetention

\* So are the calls on artifacts.
LEMMA ArtifactsMap ==
    ASSUME IInv, IInv', NEW u \in Runs, ArtifactCalls(u)
    PROVE  Abstracts
<1>0. TypesOK /\ artifact[u] \in Nat
  BY DEF IInv, TypesOK
<1>1. ASSUME NEW n, NEW s, SetArtifact(u, n, s)
      PROVE  Moved(u, s, request[u], n)
  BY <1>0, <1>1 DEF SetArtifact, Goto, Moved, TypesOK
<1>2. ASSUME NEW n \in Artifacts, CollectArtifacts(u, n)
      PROVE  Abstracts
  <2>1. CASE SetArtifact(u, n, "collecting")
    BY <1>1, <1>2, <2>1, CollectMaps DEF CollectArtifacts, Abstracts
  <2>2. CASE Goto(u, "sealing") /\ UNCHANGED <<counter, request, artifact>>
    <3>1. At(u, "retained")
      BY <1>2 DEF CollectArtifacts
    <3>2. Moved(u, "sealing", request[u], artifact[u])
      BY <1>0, <2>2 DEF Goto, Moved, TypesOK
    <3>3. artifact[u] <= artifact[u] /\ Owes["retained"] = Owes["sealing"] /\ "sealing" \in Steps
      BY <1>0, OwesOf, StepsAre
    <3>4. "retained" \notin Acquiring /\ "sealing" \notin Acquiring
      BY DEF Acquiring
    <3> QED
      BY <1>0, <3>1, <3>2, <3>3, <3>4, ShrinkMaps
  <2> QED
    BY <1>2, <2>1, <2>2 DEF CollectArtifacts
<1>3. ASSUME NEW n \in 0..artifact[u], ShrinkTo(u, n)
      PROVE  Abstracts
  <2>1. At(u, "collecting") /\ Moved(u, "sealing", request[u], n)
    BY <1>1, <1>3 DEF ShrinkTo
  <2>2. n \in Nat /\ n <= artifact[u]
    BY <1>0
  <2> QED
    BY <2>1, <2>2, OwesOf, StepsAre, ShrinkMaps DEF Acquiring
<1>4. CASE DropArtifacts(u)
  <2>1. PICK s \in {"sealed", "failed"} : SetArtifact(u, 0, s)
    BY <1>4 DEF DropArtifacts
  <2>2. At(u, "sealing") /\ Moved(u, s, request[u], 0)
    BY <1>1, <1>4, <2>1 DEF DropArtifacts
  <2>3. s \in Steps /\ s \notin Acquiring /\ Owes["sealing"] = Owes[s] /\ 0 \in Nat /\ 0 <= artifact[u]
    BY <1>0, <2>1, OwesOf, StepsAre DEF Acquiring
  <2> QED
    BY <2>2, <2>3, ShrinkMaps DEF Acquiring
<1> QED
  BY <1>2, <1>3, <1>4 DEF ArtifactCalls

\* So are sealing and dropping a result.
LEMMA ResultMaps ==
    ASSUME IInv, NEW u \in Runs, SkipArtifacts(u) \/ Seal(u) \/ DropResult(u)
    PROVE  Abstracts
<1>0. TypesOK /\ artifact[u] \in Nat /\ artifact[u] <= artifact[u]
  BY DEF IInv, TypesOK
<1>1. CASE SkipArtifacts(u)
  <2>1. At(u, "retained") /\ Moved(u, "sealing", request[u], artifact[u])
    BY <1>0, <1>1 DEF SkipArtifacts, Goto, Moved, TypesOK
  <2> QED
    BY <1>0, <2>1, OwesOf, StepsAre, ShrinkMaps DEF Acquiring
<1>2. CASE Seal(u)
  <2>1. At(u, "sealing") /\ Moved(u, "sealed", request[u], artifact[u])
    BY <1>0, <1>2 DEF Seal, Goto, Moved, TypesOK
  <2> QED
    BY <1>0, <2>1, OwesOf, StepsAre, ShrinkMaps DEF Acquiring
<1>3. CASE MayDropResult(u) /\ Return(u, "result", step[u], "drop_retained")
  <2>1. step[u] \in {"retained", "sealed", "failed", "sealing"}
    BY <1>3 DEF MayDropResult, At
  <2>2. /\ "result" \in Owes[step[u]] /\ "result" \notin Owes["drop_retained"]
        /\ step[u] \notin Acquiring /\ "drop_retained" \in Steps /\ "drop_retained" \notin Acquiring
        /\ "result" \in Resources
    BY <2>1, OwesOf, StepsAre, ResourceNames DEF Acquiring
  <2>3. SameBut(u, step[u], "drop_retained", "result")
    BY <2>1, OwesOf, ResourceNames DEF SameBut
  <2> QED
    BY <1>3, <2>2, <2>3, ReturnMaps
<1>4. CASE Return(u, "output", "drop_retained", IF artifact[u] = 0 THEN "idle" ELSE "drop_artifact")
  <2> USE OwesOf, StepsAre, ResourceNames DEF Acquiring
  <2>1. CASE artifact[u] = 0
    BY <1>4, <2>1, ReturnMaps DEF SameBut
  <2>2. CASE artifact[u] # 0
    BY <1>4, <2>2, ReturnMaps DEF SameBut
  <2> QED
    BY <2>1, <2>2
<1>5. CASE At(u, "drop_artifact") /\ GiveBack("result", artifact[u]) /\ SetArtifact(u, 0, "idle")
  <2>1. Moved(u, "idle", request[u], 0)
    BY <1>0, <1>5 DEF SetArtifact, Goto, Moved, TypesOK
  <2>2. 0 \in Nat /\ 0 <= artifact[u]
    BY <1>0
  <2> QED
    BY <1>5, <2>1, <2>2, OwesOf, StepsAre, ShrinkMaps DEF Acquiring
<1> QED
  BY <1>1, <1>2, <1>3, <1>4, <1>5 DEF DropResult

\* The four counters together behave as one atomic budget: a run gets its
\* whole request at one moment, and what all runs may count on stays within
\* every limit.
THEOREM BudgetImplemented == Spec => ImplementsBudget
<1>1. Init => Budget!Init
  <2> SUFFICES ASSUME Init PROVE Budget!Init
    OBVIOUS
  <2>1. \A u \in Runs, r \in Resources : Claimed[u][r] = 0
    BY OwesOf DEF Init, Claimed, Held, Acquiring
  <2>2. Claimed = [u \in Runs |-> [r \in Resources |-> 0]]
    BY <2>1 DEF Claimed
  <2> QED
    BY <2>2 DEF Budget!Init, Budget!Nothing, Budget!Resources, Resources
<1>2. IInv /\ IInv' /\ [Next]_vars => [Budget!Next]_Claimed
  <2> SUFFICES ASSUME IInv, IInv', [Next]_vars PROVE Abstracts
    BY DEF Abstracts
  <2>1. ASSUME NEW u \in Runs, Acquire(u)
        PROVE  Abstracts
    BY <2>1, AcquireMaps
  <2>2. ASSUME NEW u \in Runs, Finish(u)
        PROVE  Abstracts
    BY <2>2, PermitMaps, ArtifactsMap, ResultMaps DEF Finish, ArtifactCalls
  <2>3. CASE UNCHANGED vars
    BY <2>3 DEF Abstracts, Claimed, Held, vars
  <2> QED
    BY <2>1, <2>2, <2>3 DEF Next
<1> QED
  BY <1>1, <1>2, Invariant, PTL DEF Spec, ImplementsBudget, Budget!Spec
=============================================================================
