------------------------ MODULE BatchProcess_proofs ------------------------
(***************************************************************************)
(* Theorems about one batch execution, with their proofs: type correctness,*)
(* that nothing survives a call, that an exit comes with all the output,   *)
(* and that it is reported as what it was, for streams of any length,      *)
(* channels of any depth and every bound on what is kept.  IInv is the     *)
(* inductive invariant; its core is an account of each stream, from what   *)
(* the process tree wrote over the reader's hand and the channel to what   *)
(* is kept, and of the readers that are still to be counted out.           *)
(* Then about the jail that a program is launched in (Components).         *)
(***************************************************************************)
EXTENDS BatchProcess, Components, FiniteSetTheorems, SequenceTheorems, TLAPS

\* How many times an event is in the channel.
Count(q, e) == Cardinality({i \in 1..Len(q) : q[i] = e})

Events == {Chunk(s) : s \in Streams} \cup {Done, Failed}
BeforeSpawn == {"admit", "prepared", "launching", "spawn"}
Collecting == {"reap", "check", "receive"}
Terminating == {"sigterm", "sigkill"}
Ending == {"teardown", "join_readers", "join_writer"}

\* The variables have their types.  TypeOK, which says more of the streams,
\* follows from the whole invariant.
TypesOK ==
    /\ leader \in {"unborn", "running", "exited", "reaped"}
    /\ code \in {"none", "exit", "signal"}
    /\ members \in BOOLEAN /\ escaped \in BOOLEAN
    /\ group \in {"ours", "free", "stranger"}
    /\ closed \in BOOLEAN
    /\ written \in [Streams -> Nat]
    /\ cancelled \in BOOLEAN /\ expired \in BOOLEAN
    /\ pc \in BeforeSpawn \cup {"setup", "returned"} \cup Collecting \cup Terminating \cup Ending
    /\ after \in {"none", "teardown", "returned"}
    /\ status \in {"none", "exit", "signal"}
    /\ override \in Terminals \cup {"none"}
    /\ failed \in BOOLEAN
    /\ done \in Nat
    /\ kept \in [Streams -> Nat]
    /\ queue \in Seq(Events)
    /\ Len(queue) <= Depth
    /\ receiver \in BOOLEAN
    /\ stop \in {"none", "readers", "all"}
    /\ reader \in [Streams -> {"none", "polling", "chunk", "done", "failed", "ended"}]
    /\ taken \in [Streams -> Nat]
    /\ writer \in {"none", "writing", "ended"}
    /\ result \in {"none", "not_dispatched", "refused", "error"} \cup Terminals \cup Exits
    /\ strays \in BOOLEAN

\* The group id is ours while the leader is not reaped or a member lives.
GroupState ==
    /\ group = "ours" <=> leader \in {"running", "exited"} \/ members
    /\ group = "stranger" => leader = "reaped"
    /\ leader = "unborn" => ~members
    /\ code = "none" <=> leader \in {"unborn", "running"}

\* Nothing was started for the call: no thread, no event, no verdict.
Unused ==
    /\ \A s \in Streams : reader[s] = "none" /\ taken[s] = 0 /\ kept[s] = 0
    /\ writer = "none" /\ queue = <<>> /\ done = 0 /\ stop = "none"
    /\ status = "none" /\ override = "none" /\ ~failed

\* The threads of the call have ended.
Quiet == AllEnded /\ writer # "writing"

\* What a stage of the collecting thread says of the process, of the threads and
\* of the result.
PhaseState ==
    /\ leader = "unborn" <=> pc \in BeforeSpawn \/ result \in {"not_dispatched", "refused"}
    /\ leader = "unborn" => pc \in BeforeSpawn \cup {"returned"}
    /\ leader = "unborn" \/ pc = "setup" => Unused
    /\ pc \in Terminating <=> after # "none"
    /\ result # "none" <=> pc = "returned" \/ after = "returned"
    /\ pc = "join_writer" => AllEnded
    /\ leader = "unborn" \/ pc \in {"join_readers", "join_writer"} \/ result # "none" => ~receiver
    /\ result # "none" => Quiet \/ (Unanswered /\ stop = "none")
    /\ pc = "returned" => leader \in {"unborn", "reaped"}
    /\ leader = "reaped" /\ members => pc \in Terminating /\ after = "returned"
    /\ pc \in Collecting \cup {"setup"} => receiver /\ stop = "none"

\* Whether the loop goes on, and whether it has ended with an exit.
Undecided == ~failed /\ override = "none"
\* The loop runs while nothing has decided the call, and the result is the
\* verdict.
VerdictState ==
    /\ pc \in Collecting => Undecided
    /\ after = "teardown" => ~Undecided
    /\ override \in {"cancelled", "timed_out", "limit"} => status = "none"
    /\ result \in Terminals \cup Exits => result = Verdict

\* The reader of s has taken all that will ever be written to s.
Drained(s) == taken[s] = written[s] /\ ~HoldsOpen(s)
InHand(s) == IF reader[s] = "chunk" THEN 1 ELSE 0
\* What was taken of s is kept, in the channel or in the hand of its reader.
Seen(s) == kept[s] + Count(queue, Chunk(s)) + InHand(s)

\* In the loop nothing that was read is lost.
Exact == \A s \in Streams : Seen(s) = taken[s]

\* No stage of a stream is ahead of the one before it.
FlowState ==
    /\ pc \in Collecting => Exact
    /\ \A s \in Streams :
        /\ taken[s] <= written[s]
        /\ kept[s] <= MaxOutput[s]
        /\ Seen(s) <= taken[s]
        /\ reader[s] = "done" => Drained(s)

\* 1 once the reader of s has ended.
Over(s) == IF reader[s] = "ended" THEN 1 ELSE 0

\* A reader that has ended told so by an event, which is counted or in the channel
\* behind all chunks of its stream; it had drained the stream or failed.
Balanced ==
    /\ done + Count(queue, Done) + Count(queue, Failed) = Over("stdout") + Over("stderr")
    /\ \A s \in Streams : reader[s] = "ended" =>
        /\ Drained(s) \/ \E i \in 1..Len(queue) : queue[i] = Failed
        /\ \A i \in 1..Len(queue) : queue[i] = Chunk(s) =>
            \E j \in 1..Len(queue) : j > i /\ queue[j] \in {Done, Failed}

\* The account holds in the loop.
EndState == (pc \in Collecting => Balanced) /\ done <= 2

\* All of both streams was written, read and kept.
Settled == \A s \in Streams : reader[s] = "ended" /\ kept[s] = taken[s] /\ Drained(s)
\* A loop that ends by itself, with the status of the process, has settled both
\* streams.
ExitState == (pc \in Ending \/ result # "none") /\ Undecided /\ leader # "unborn" /\ status # "none" => Settled
\* A loop that nothing decided ended with the status of the process.
LoopState == pc \in Ending /\ Undecided => status # "none"

\* The inductive invariant.
IInv ==
    /\ TypesOK
    /\ GroupState
    /\ PhaseState
    /\ VerdictState
    /\ FlowState
    /\ EndState
    /\ ExitState
    /\ LoopState
-----------------------------------------------------------------------------
\* The bounds of a stream are numbers.
LEMMA Bounds == MaxWrites \in [Streams -> Nat] /\ MaxOutput \in [Streams -> Nat]
BY ExecutionAssumption DEF MaxWrites, MaxOutput

-----------------------------------------------------------------------------
(* Counting the events of one kind in the channel.                         *)

\* An empty channel has no event.
LEMMA CountEmpty == \A e : Count(<<>>, e) = 0
<1> TAKE e
<1>1. {i \in 1..Len(<<>>) : <<>>[i] = e} = {}
  OBVIOUS
<1> QED
  BY <1>1, FS_EmptySet DEF Count

\* A count is a natural number, and zero when the event is not in the channel.
LEMMA CountNat ==
    ASSUME NEW S, NEW q \in Seq(S), NEW e
    PROVE  /\ IsFiniteSet({i \in 1..Len(q) : q[i] = e})
           /\ Count(q, e) \in Nat
           /\ Count(q, e) = 0 <=> \A i \in 1..Len(q) : q[i] # e
<1>1. IsFiniteSet(1..Len(q))
  BY FS_Interval, Len(q) \in Nat
<1>2. IsFiniteSet({i \in 1..Len(q) : q[i] = e})
  BY <1>1, FS_Subset, {i \in 1..Len(q) : q[i] = e} \in SUBSET (1..Len(q))
<1>3. Count(q, e) \in Nat
  BY <1>2, FS_CardinalityType DEF Count
<1>4. Count(q, e) = 0 <=> {i \in 1..Len(q) : q[i] = e} = {}
  BY <1>2, FS_EmptySet DEF Count
<1> QED
  BY <1>2, <1>3, <1>4

\* A sent event is counted once more.
LEMMA CountAppend ==
    ASSUME NEW S, NEW q \in Seq(S), NEW x \in S, NEW e
    PROVE  Count(Append(q, x), e) = Count(q, e) + (IF x = e THEN 1 ELSE 0)
<1> DEFINE At == {i \in 1..Len(q) : q[i] = e}
<1>1. Len(q) \in Nat /\ Len(Append(q, x)) = Len(q) + 1 /\ Append(q, x)[Len(q) + 1] = x
      /\ \A i \in 1..Len(q) : Append(q, x)[i] = q[i]
  OBVIOUS
<1>2. {i \in 1..Len(Append(q, x)) : Append(q, x)[i] = e}
        = IF x = e THEN At \cup {Len(q) + 1} ELSE At
  BY <1>1
<1>3. IsFiniteSet(At) /\ Len(q) + 1 \notin At /\ Cardinality(At) \in Nat
  <2>1. IsFiniteSet(At)
    BY CountNat, Zenon
  <2>2. Len(q) + 1 \notin At
    BY <1>1
  <2> QED
    BY <2>1, <2>2, FS_CardinalityType
<1>4. Cardinality(At \cup {Len(q) + 1}) = Cardinality(At) + 1
  BY <1>3, FS_AddElement
<1>5. Count(q, e) = Cardinality(At)
  BY DEF Count
<1>6. Count(Append(q, x), e) = Cardinality(IF x = e THEN At \cup {Len(q) + 1} ELSE At)
  BY <1>2, Zenon DEF Count
<1> HIDE DEF At
<1> QED
  BY <1>3, <1>4, <1>5, <1>6

\* A received event is counted once less.
LEMMA CountTail ==
    ASSUME NEW S, NEW q \in Seq(S), q # <<>>, NEW e
    PROVE  Count(q, e) = Count(Tail(q), e) + (IF Head(q) = e THEN 1 ELSE 0)
<1> DEFINE All == {i \in 1..Len(q) : q[i] = e}
           Later == All \ {1}
           Rest == {i \in 1..Len(Tail(q)) : Tail(q)[i] = e}
<1>1. Len(q) \in Nat \ {0} /\ Tail(q) \in Seq(S) /\ Len(Tail(q)) = Len(q) - 1 /\ Head(q) = q[1]
      /\ \A i \in 1..Len(Tail(q)) : Tail(q)[i] = q[i + 1]
  OBVIOUS
<1>2. IsFiniteSet(All) /\ IsFiniteSet(Rest)
  <2>1. IsFiniteSet(All)
    BY CountNat, Zenon
  <2>2. IsFiniteSet(Rest)
    BY <1>1, CountNat, Zenon
  <2> QED
    BY <2>1, <2>2
<1>3. IsFiniteSet(Later) /\ Cardinality(Later) = IF 1 \in All THEN Cardinality(All) - 1 ELSE Cardinality(All)
  BY <1>2, FS_RemoveElement
<1>4. 1 \in All <=> Head(q) = e
  BY <1>1
<1>5. Cardinality(Later) = Cardinality(Rest)
  <2> DEFINE f == [i \in Rest |-> i + 1]
  <2>1. f \in [Rest -> Later]
    BY <1>1
  <2>2. \A i, j \in Rest : f[i] = f[j] => i = j
    BY <1>1
  <2>3. \A k \in Later : \E i \in Rest : f[i] = k
    <3> TAKE k \in Later
    <3>1. k - 1 \in Rest
      BY <1>1
    <3>2. f[k - 1] = k
      BY <3>1, <1>1
    <3> QED
      BY <3>1, <3>2, Zenon
  <2>4. f \in Bijection(Rest, Later)
    BY <2>1, <2>2, <2>3 DEF Bijection, Injection, Surjection, IsInjective
  <2> QED
    BY <2>4, <1>2, FS_Bijection DEF ExistsBijection
<1>6. Cardinality(All) \in Nat
  BY <1>2, FS_CardinalityType
<1>7. Count(q, e) = Cardinality(All) /\ Count(Tail(q), e) = Cardinality(Rest)
  BY DEF Count
<1> HIDE DEF All, Later, Rest
<1> QED
  BY <1>3, <1>4, <1>5, <1>6, <1>7

-----------------------------------------------------------------------------
(* What a step that leaves the streams alone preserves.                    *)

\* The three kinds of events differ, and so do the chunks of the two streams.
LEMMA EventsDiffer ==
    /\ Done # Failed
    /\ \A s \in Streams : Chunk(s) # Done /\ Chunk(s) # Failed
    /\ \A s, t \in Streams : Chunk(s) = Chunk(t) => s = t
<1>1. Done.kind = "done" /\ Failed.kind = "failed"
  BY DEF Done, Failed
<1>2. \A s \in Streams : Chunk(s).kind = "chunk" /\ Chunk(s).stream = s
  BY DEF Chunk
<1> QED
  BY <1>1, <1>2

\* Nothing was read, sent or received, and a stream at its end stays there.
Calm ==
    /\ UNCHANGED <<done, kept, queue, reader, taken>>
    /\ \A s \in Streams : written[s] <= written'[s] /\ (Drained(s) => Drained(s)')

\* The account of the streams survives a step that is calm.
LEMMA StreamsKept ==
    ASSUME IInv, Calm, TypesOK', pc' \in Collecting => pc \in Collecting
    PROVE  FlowState' /\ EndState' /\ (Settled => Settled')
<1> USE DEF Calm
<1>1. FlowState'
  <2> SUFFICES ASSUME NEW s \in Streams
               PROVE  /\ taken'[s] <= written'[s]
                      /\ kept'[s] <= MaxOutput[s]
                      /\ Seen(s)' <= taken'[s]
                      /\ pc' \in Collecting => Seen(s)' = taken'[s]
                      /\ reader'[s] = "done" => Drained(s)'
    BY DEF FlowState, Exact
  <2>1. Seen(s)' = Seen(s)
    BY DEF Seen, InHand
  <2> QED
    BY <2>1 DEF IInv, FlowState, Exact, TypesOK
<1>2. EndState'
  <2>1. \A s \in Streams : Over(s)' = Over(s)
    BY DEF Over
  <2> QED
    BY <2>1 DEF IInv, EndState, Balanced, Streams
<1>3. Settled => Settled'
  BY DEF Settled
<1> QED
  BY <1>1, <1>2, <1>3

\* A step that moves no thread but the collecting one, and leaves the tree.
LEMMA TreeKept ==
    ASSUME UNCHANGED <<tree, written, taken>>
    PROVE  \A s \in Streams : Drained(s) => Drained(s)'
BY DEF tree, ids, Drained, HoldsOpen

\* The tree loses processes and writes nothing.
LEMMA TreeShrinks ==
    ASSUME UNCHANGED <<escaped, closed, written, taken>>,
           leader' = "running" => leader = "running",
           members' => members
    PROVE  \A s \in Streams : Drained(s) => Drained(s)'
BY DEF Drained, HoldsOpen

\* The actions of the process tree.
LEMMA ProcessTreeStep ==
    ASSUME IInv, ProcessTree
    PROVE  IInv'
<1>1. PICK s \in Streams : TreeMoves(s)
  BY DEF ProcessTree
<1>2. /\ UNCHANGED <<cancelled, expired, pc, after, status, override, failed, done, kept>>
      /\ UNCHANGED <<receiver, stop, queue, reader, taken, writer, result, strays>>
  BY DEF ProcessTree, clocks, verdict, streams
<1>0. \/ UNCHANGED written
      \/ HoldsOpen(s) /\ UNCHANGED tree /\ written' = [written EXCEPT ![s] = @ + 1]
  BY <1>1 DEF TreeMoves
<1> s \in Streams /\ written \in [Streams -> Nat]
  BY DEF IInv, TypesOK
<1>3. TypesOK'
  <2>1. written' \in [Streams -> Nat]
    BY <1>0
  <2>2. /\ leader' \in {"unborn", "running", "exited", "reaped"}
        /\ code' \in {"none", "exit", "signal"}
        /\ members' \in BOOLEAN /\ escaped' \in BOOLEAN
        /\ group' \in {"ours", "free", "stranger"}
        /\ closed' \in BOOLEAN
    BY <1>1 DEF TreeMoves, IInv, TypesOK, Owner, tree, ids
  <2> QED
    BY <1>2, <2>1, <2>2 DEF IInv, TypesOK
<1>4. GroupState'
  BY <1>1 DEF TreeMoves, IInv, TypesOK, GroupState, Owner, tree, ids
<1>5. leader' = "unborn" <=> leader = "unborn"
  BY <1>1 DEF TreeMoves, tree, ids
<1>6. leader = "reaped" => leader' = "reaped"
  BY <1>1 DEF TreeMoves, tree, ids
<1>12. leader' = "reaped" /\ members' => leader = "reaped" /\ members
  BY <1>1 DEF TreeMoves, tree, ids
<1>7. PhaseState'
  <2>1. /\ Unused' = Unused /\ Quiet' = Quiet /\ AllEnded' = AllEnded /\ Unanswered' = Unanswered
    BY <1>2 DEF Unused, Quiet, AllEnded, Unanswered
  <2> QED
    BY <1>2, <1>5, <1>6, <1>12, <2>1 DEF IInv, PhaseState
<1>8. VerdictState' /\ LoopState'
  BY <1>2 DEF IInv, VerdictState, LoopState, Undecided, Verdict
<1>9. Calm
  <2> SUFFICES ASSUME NEW t \in Streams
               PROVE  written[t] <= written'[t] /\ (Drained(t) => Drained(t)')
    BY <1>2 DEF Calm
  <2>1. written[t] <= written'[t]
    BY <1>0
  <2>2. ASSUME Drained(t) PROVE Drained(t)'
    <3>1. written'[t] = written[t]
      BY <1>0, <2>2 DEF Drained, HoldsOpen, IInv, TypesOK
    <3>2. ~HoldsOpen(t)'
      BY <1>1, <2>2 DEF TreeMoves, Drained, HoldsOpen, tree, ids
    <3> QED
      BY <1>2, <2>2, <3>1, <3>2 DEF Drained
  <2> QED
    BY <2>1, <2>2
<1>10. FlowState' /\ EndState' /\ (Settled => Settled')
  BY <1>2, <1>3, <1>9, StreamsKept
<1>11. ExitState'
  BY <1>2, <1>5, <1>10 DEF IInv, ExitState, Undecided
<1> QED
  BY <1>3, <1>4, <1>7, <1>8, <1>10, <1>11 DEF IInv

-----------------------------------------------------------------------------
(* The caller, the clock and the writer.                                   *)

\* The caller cancels, and the deadline passes.
LEMMA WorldStep ==
    ASSUME IInv, World
    PROVE  IInv'
<1>1. /\ UNCHANGED <<leader, code, members, escaped, group, closed, written, pc, after, done, kept>>
      /\ UNCHANGED <<status, override, failed, receiver, stop, queue, reader, taken, writer, result, strays>>
      /\ cancelled' \in BOOLEAN /\ expired' \in BOOLEAN
  BY DEF World, Cancel, Expire, tree, ids, verdict, streams, IInv, TypesOK
<1>2. TypesOK'
  BY <1>1 DEF IInv, TypesOK
<1>3. GroupState' /\ PhaseState' /\ VerdictState' /\ LoopState'
  BY <1>1 DEF IInv, GroupState, PhaseState, Unused, Quiet, AllEnded, Unanswered, VerdictState,
     LoopState, Undecided, Verdict
<1>4. Calm
  BY <1>1, TreeKept DEF Calm, tree, ids, IInv, TypesOK
<1>5. FlowState' /\ EndState' /\ (Settled => Settled')
  BY <1>1, <1>2, <1>4, StreamsKept
<1>6. ExitState'
  BY <1>1, <1>5 DEF IInv, ExitState, Undecided
<1> QED
  BY <1>2, <1>3, <1>5, <1>6 DEF IInv

\* The writer of the standard input ends.
LEMMA WriterStep ==
    ASSUME IInv, Writer
    PROVE  IInv'
<1>1. /\ UNCHANGED <<leader, code, members, escaped, group, closed, written, pc, after, done, kept>>
      /\ UNCHANGED <<status, override, failed, receiver, stop, queue, reader, taken, result, strays>>
      /\ UNCHANGED <<cancelled, expired>>
      /\ writer = "writing" /\ writer' = "ended"
  BY DEF Writer, tree, ids, clocks, verdict, streams
<1>2. TypesOK'
  BY <1>1 DEF IInv, TypesOK
<1>3. GroupState' /\ VerdictState' /\ LoopState'
  BY <1>1 DEF IInv, GroupState, VerdictState, LoopState, Undecided, Verdict
<1>4. PhaseState'
  BY <1>1 DEF IInv, PhaseState, Unused, Quiet, AllEnded, Unanswered
<1>5. Calm
  BY <1>1, TreeKept DEF Calm, tree, ids, IInv, TypesOK
<1>6. FlowState' /\ EndState' /\ (Settled => Settled')
  BY <1>1, <1>2, <1>5, StreamsKept
<1>7. ExitState'
  BY <1>1, <1>6 DEF IInv, ExitState, Undecided
<1> QED
  BY <1>2, <1>3, <1>4, <1>6, <1>7 DEF IInv

-----------------------------------------------------------------------------
(* The collecting thread, up to its loop.                                  *)

\* Before the spawn nothing is used, and the loop has not begun.
LEMMA BeforeSpawnUnused ==
    ASSUME IInv, pc \in BeforeSpawn
    PROVE  /\ Unused /\ result = "none" /\ after = "none" /\ leader = "unborn" /\ ~receiver
           /\ ~members /\ pc \notin Collecting \cup Ending
BY DEF GroupState, IInv, PhaseState, BeforeSpawn, Collecting, Ending, Terminating

\* The checks before the spawn refuse the call or let it go on.
LEMMA UnstartedStep ==
    ASSUME IInv, NEW here \in BeforeSpawn, NEW ready \in BeforeSpawn, Unstarted(here, ready)
    PROVE  IInv'
<1>1. /\ UNCHANGED <<leader, code, members, escaped, group, closed, written, after, done, kept>>
      /\ UNCHANGED <<status, override, failed, receiver, stop, queue, reader, taken, writer, strays>>
      /\ UNCHANGED <<cancelled, expired>>
      /\ pc \in BeforeSpawn
      /\ \/ pc' = "returned" /\ result' \in {"not_dispatched", "refused"}
         \/ pc' \in BeforeSpawn /\ result' = result
  BY DEF Unstarted, Returns, ThreadsIdle, tree, ids, clocks, verdict, streams
<1>2. /\ Unused /\ result = "none" /\ after = "none" /\ leader = "unborn" /\ ~receiver
      /\ ~members /\ pc \notin Collecting \cup Ending
  BY <1>1, BeforeSpawnUnused
<1>3. pc' \in {"returned"} \cup BeforeSpawn /\ pc' \notin Collecting \cup Ending \cup Terminating
  BY <1>1 DEF BeforeSpawn, Collecting, Ending, Terminating
<1>4. TypesOK'
  BY <1>1, <1>3 DEF IInv, TypesOK
<1>5. GroupState' /\ VerdictState' /\ LoopState'
  BY <1>1, <1>2, <1>3 DEF IInv, GroupState, VerdictState, LoopState, Undecided, Verdict, Terminals, Exits
<1>6. PhaseState'
  <2>1. Unused' /\ Quiet' /\ AllEnded'
    BY <1>1, <1>2 DEF Unused, Quiet, AllEnded, Ended
  <2>2. leader' = "unborn" /\ after' = "none" /\ ~receiver'
    BY <1>1, <1>2
  <2>3. pc' # "setup"
    BY <1>3 DEF BeforeSpawn
  <2>4. pc' \in BeforeSpawn \/ result' \in {"not_dispatched", "refused"}
    BY <1>1
  <2>5. result' # "none" <=> pc' = "returned"
    BY <1>1, <1>2 DEF BeforeSpawn
  <2> QED
    BY <1>3, <2>1, <2>2, <2>3, <2>4, <2>5 DEF PhaseState
<1>7. Calm
  BY <1>1, TreeKept DEF Calm, tree, ids, IInv, TypesOK
<1>8. FlowState' /\ EndState'
  BY <1>3, <1>4, <1>7, StreamsKept
<1>9. ExitState'
  BY <1>1, <1>2 DEF ExitState
<1> QED
  BY <1>4, <1>5, <1>6, <1>8, <1>9 DEF IInv

\* No event is in an empty channel.
LEMMA NoneSeen ==
    ASSUME Unused
    PROVE  \A s \in Streams : Seen(s) = 0 /\ Over(s) = 0
BY CountEmpty DEF Unused, Seen, InHand, Over

\* The spawn creates the leader in its group, or fails.
LEMMA SpawnStep ==
    ASSUME IInv, Spawn
    PROVE  IInv'
<1>1. /\ UNCHANGED <<code, members, escaped, closed, written, after, done, kept, result, stop>>
      /\ UNCHANGED <<status, override, failed, queue, reader, taken, writer, strays>>
      /\ UNCHANGED <<cancelled, expired>>
      /\ pc = "spawn" /\ pc' = "setup"
      /\ leader' = "running" /\ group' = "ours" /\ receiver' = TRUE
  BY DEF Spawn, ThreadsIdle, clocks, verdict, streams
<1>2. Unused /\ result = "none" /\ after = "none" /\ leader = "unborn"
  BY <1>1, BeforeSpawnUnused DEF BeforeSpawn
<1>3. pc' \notin BeforeSpawn \cup Collecting \cup Ending \cup Terminating
  BY <1>1 DEF BeforeSpawn, Collecting, Ending, Terminating
<1>4. TypesOK'
  BY <1>1 DEF IInv, TypesOK
<1>5. GroupState' /\ VerdictState' /\ LoopState'
  BY <1>1, <1>2, <1>3 DEF IInv, GroupState, VerdictState, LoopState, Undecided, Verdict, Terminals, Exits
<1>6. PhaseState'
  BY <1>1, <1>2, <1>3 DEF PhaseState, Unused, Quiet, AllEnded, Ended
<1>7. FlowState'
  <2>1. Unused'
    BY <1>1, <1>2 DEF Unused
  <2>2. \A s \in Streams : Seen(s)' = 0
    BY <2>1, CountEmpty DEF Unused, Seen, InHand
  <2> QED
    BY <1>3, <1>4, <2>1, <2>2, Bounds DEF FlowState, Exact, Unused, TypesOK
<1>8. EndState' /\ ExitState'
  BY <1>1, <1>2, <1>3 DEF EndState, ExitState, Unused
<1> QED
  BY <1>4, <1>5, <1>6, <1>7, <1>8 DEF IInv

\* The threads are started, or one of them cannot be.
LEMMA SetupStep ==
    ASSUME IInv, Setup
    PROVE  IInv'
<1>1. /\ UNCHANGED <<leader, code, members, escaped, group, closed, written, done, kept, stop>>
      /\ UNCHANGED <<cancelled, expired, status, override, queue, taken, strays>>
      /\ pc = "setup"
  BY DEF Setup, tree, ids, clocks
<1>2. /\ Unused /\ result = "none" /\ after = "none" /\ leader # "unborn"
      /\ ~(leader = "reaped" /\ members)
  BY <1>1 DEF IInv, PhaseState, Terminating, BeforeSpawn
<1>3. \/ /\ pc' = "sigterm" /\ after' = "returned" /\ result' = "error"
         /\ UNCHANGED <<failed, reader, writer>> /\ receiver' = FALSE
      \/ /\ pc' = "sigterm" /\ after' = "teardown" /\ failed' = TRUE
         /\ reader' \in {[reader EXCEPT !["stdout"] = "polling"], [s \in Streams |-> "polling"]}
         /\ UNCHANGED <<writer, result, receiver>>
      \/ /\ pc' = "reap"
         /\ reader' = [s \in Streams |-> "polling"]
         /\ writer' \in {"writing", "none"}
         /\ UNCHANGED <<after, failed, result, receiver>>
  BY DEF Setup, Terminates
<1>4. /\ pc' \in {"sigterm", "reap"} /\ pc' \notin BeforeSpawn \cup Ending \cup {"setup", "returned"}
      /\ pc' \in Terminating <=> pc' = "sigterm"
      /\ pc' \in Collecting <=> pc' = "reap"
  BY <1>3 DEF BeforeSpawn, Collecting, Ending, Terminating
<1>5. reader' \in [Streams -> {"none", "polling"}]
  BY <1>2, <1>3 DEF IInv, TypesOK, Unused
<1>6. TypesOK'
  <2>1. pc' \in Collecting \cup Terminating
    BY <1>4
  <2>2. reader' \in [Streams -> {"none", "polling", "chunk", "done", "failed", "ended"}]
    BY <1>5
  <2>3. /\ after' \in {"none", "teardown", "returned"}
        /\ failed' \in BOOLEAN /\ receiver' \in BOOLEAN
        /\ writer' \in {"none", "writing", "ended"}
        /\ result' \in {"none", "error"}
    BY <1>2, <1>3 DEF IInv, TypesOK
  <2> QED
    BY <1>1, <2>1, <2>2, <2>3 DEF IInv, TypesOK
<1>7. GroupState'
  BY <1>1 DEF IInv, GroupState
<1>8. PhaseState'
  <2>1. result' # "none" => Quiet' /\ ~receiver'
    BY <1>2, <1>3 DEF Unused, Quiet, AllEnded, Ended
  <2>2. pc' \in Collecting => receiver' /\ stop' = "none"
    <3>1. receiver
      BY <1>1 DEF IInv, PhaseState
    <3> QED
      BY <1>1, <1>2, <1>3, <1>4, <3>1 DEF Unused
  <2> QED
    BY <1>1, <1>2, <1>3, <1>4, <2>1, <2>2 DEF PhaseState
<1>9. VerdictState' /\ LoopState'
  BY <1>1, <1>2, <1>3, <1>4 DEF VerdictState, LoopState, Undecided, Verdict, Unused, Terminals, Exits
<1>10. \A s \in Streams : Seen(s)' = 0 /\ Over(s)' = 0
  BY <1>1, <1>2, <1>5, CountEmpty DEF Unused, Seen, InHand, Over
<1>11. FlowState'
  <2> SUFFICES ASSUME NEW s \in Streams
               PROVE  /\ taken'[s] <= written'[s]
                      /\ kept'[s] <= MaxOutput[s]
                      /\ Seen(s)' = taken'[s]
                      /\ reader'[s] # "done"
    BY <1>6 DEF FlowState, Exact, TypesOK
  <2>1. taken'[s] = 0 /\ kept'[s] = 0
    BY <1>1, <1>2 DEF Unused
  <2>2. reader'[s] # "done"
    BY <1>5
  <2>3. written'[s] \in Nat /\ MaxOutput[s] \in Nat
    BY <1>6, Bounds DEF TypesOK
  <2> QED
    BY <1>10, <2>1, <2>2, <2>3
<1>12. EndState'
  BY <1>1, <1>2, <1>5, <1>10, CountEmpty DEF EndState, Balanced, Unused, Streams
<1>13. ExitState'
  BY <1>1, <1>2 DEF ExitState, Unused
<1> QED
  BY <1>6, <1>7, <1>8, <1>9, <1>11, <1>12, <1>13 DEF IInv

-----------------------------------------------------------------------------
(* The collecting loop.                                                    *)

\* In the loop there is no verdict and no result yet, and the leader is born.
LEMMA InTheLoop ==
    ASSUME IInv, pc \in Collecting
    PROVE  /\ result = "none" /\ after = "none" /\ leader # "unborn"
           /\ ~failed /\ override = "none" /\ receiver /\ stop = "none"
           /\ ~(leader = "reaped" /\ members)
           /\ pc \notin BeforeSpawn \cup Ending \cup Terminating \cup {"setup", "returned"}
<1>1. pc \notin BeforeSpawn \cup Ending \cup Terminating \cup {"setup", "returned"}
  BY DEF Collecting, BeforeSpawn, Ending, Terminating
<1> QED
  BY <1>1 DEF IInv, PhaseState, VerdictState, Undecided, TypesOK

\* try_wait and its effect on what is known of the process.
LEMMA ReapsKeeps ==
    ASSUME IInv, Reaps, leader = "exited", UNCHANGED <<written, taken>>
    PROVE  /\ UNCHANGED <<code, escaped, closed>>
           /\ leader' = "reaped" /\ members' = FALSE /\ group' = "free"
           /\ status' \in {"exit", "signal"}
           /\ GroupState'
           /\ \A s \in Streams : Drained(s) => Drained(s)'
<1>1. /\ UNCHANGED <<code, escaped, closed>>
      /\ leader' = "reaped" /\ members' = FALSE /\ group' = "free" /\ status' = code
  BY DEF Reaps
<1>2. code # "none"
  BY DEF IInv, GroupState
<1>3. GroupState'
  BY <1>1, <1>2 DEF GroupState
<1> QED
  BY <1>1, <1>2, <1>3, TreeShrinks DEF IInv, TypesOK

\* A step of the loop that receives nothing and goes on.
LEMMA LoopGoesOn ==
    ASSUME IInv, pc \in Collecting, pc' \in Collecting,
           UNCHANGED <<written, cancelled, expired, after, override, failed, done, kept, queue>>,
           UNCHANGED <<receiver, stop, reader, taken, writer, result, strays>>,
           \/ UNCHANGED <<tree, status>>
           \/ Reaps /\ leader = "exited"
    PROVE  IInv'
<1>1. /\ result = "none" /\ after = "none" /\ leader # "unborn"
      /\ ~failed /\ override = "none" /\ receiver /\ stop = "none"
      /\ ~(leader = "reaped" /\ members)
  BY InTheLoop
<1>2. pc' \notin BeforeSpawn \cup Ending \cup Terminating \cup {"setup", "returned"}
  BY DEF Collecting, BeforeSpawn, Ending, Terminating
<1>3. /\ leader' \in {"unborn", "running", "exited", "reaped"} /\ leader' # "unborn"
      /\ code' \in {"none", "exit", "signal"}
      /\ members' \in BOOLEAN /\ escaped' \in BOOLEAN /\ closed' \in BOOLEAN
      /\ group' \in {"ours", "free", "stranger"}
      /\ status' \in {"none", "exit", "signal"}
      /\ GroupState' /\ ~(leader' = "reaped" /\ members')
      /\ \A s \in Streams : Drained(s) => Drained(s)'
  <2>1. CASE UNCHANGED <<tree, status>>
    BY <1>1, <2>1, TreeKept DEF IInv, TypesOK, GroupState, tree, ids
  <2>2. CASE Reaps /\ leader = "exited"
    BY <2>2, ReapsKeeps DEF IInv, TypesOK
  <2> QED
    BY <2>1, <2>2
<1>4. TypesOK'
  BY <1>3 DEF IInv, TypesOK
<1>5. PhaseState'
  BY <1>1, <1>2, <1>3 DEF PhaseState, Ending
<1>6. VerdictState' /\ LoopState' /\ ExitState'
  BY <1>1, <1>2, <1>3 DEF VerdictState, LoopState, ExitState, Undecided, Terminals, Exits
<1>7. Calm
  BY <1>3 DEF Calm, IInv, TypesOK
<1>8. FlowState' /\ EndState'
  BY <1>4, <1>7, StreamsKept
<1> QED
  BY <1>3, <1>4, <1>5, <1>6, <1>8 DEF IInv

\* A wait fails: the call is left at once with an error, and its threads go on.
LEMMA LoopIsAbandoned ==
    ASSUME IInv, pc \in Collecting, Abandons,
           UNCHANGED <<written, cancelled, expired, override, failed, done, kept, queue>>,
           UNCHANGED <<stop, reader, taken, writer, strays>>
    PROVE  IInv'
<1>1. /\ result = "none" /\ after = "none" /\ leader # "unborn"
      /\ ~failed /\ override = "none" /\ receiver /\ stop = "none"
      /\ ~(leader = "reaped" /\ members)
  BY InTheLoop
<1>2. /\ pc' = "sigterm" /\ after' = "returned" /\ result' = "error" /\ receiver' = FALSE
      /\ status = "none" /\ UNCHANGED <<code, escaped, closed, status>>
      /\ leader' = leader \/ (leader = "exited" /\ leader' = "reaped")
      /\ members' = members \/ (leader = "exited" /\ members' = FALSE)
      /\ group' = Owner(leader', members')
  BY DEF Abandons, WaitFails, Terminates
<1>3. /\ pc' \notin BeforeSpawn \cup Collecting \cup Ending \cup {"setup", "returned"}
      /\ pc' \in Terminating
  BY <1>2 DEF BeforeSpawn, Collecting, Ending, Terminating
<1>4. /\ leader' \in {"running", "exited", "reaped"} /\ members' \in BOOLEAN
      /\ group' \in {"ours", "free"}
  BY <1>1, <1>2 DEF IInv, TypesOK, Owner
<1>5. TypesOK'
  <2>1. /\ code' \in {"none", "exit", "signal"} /\ escaped' \in BOOLEAN /\ closed' \in BOOLEAN
        /\ status' \in {"none", "exit", "signal"} /\ receiver' \in BOOLEAN
        /\ after' \in {"none", "teardown", "returned"} /\ result' \in {"error"}
    BY <1>2 DEF IInv, TypesOK
  <2> QED
    BY <1>3, <1>4, <2>1 DEF IInv, TypesOK
<1>6. GroupState'
  <2>1. code = "none" <=> leader = "running"
    BY <1>1 DEF IInv, GroupState
  <2>2. code' = "none" <=> leader' = "running"
    BY <1>2, <2>1
  <2>3. group' = "ours" <=> leader' \in {"running", "exited"} \/ members'
    BY <1>2 DEF Owner
  <2> QED
    BY <1>4, <2>2, <2>3 DEF GroupState
<1>7. PhaseState'
  <2>1. Unanswered' /\ stop' = "none"
    BY <1>1, <1>2 DEF Unanswered
  <2> QED
    BY <1>2, <1>3, <1>4, <2>1 DEF PhaseState
<1>8. VerdictState' /\ LoopState' /\ ExitState'
  BY <1>1, <1>2, <1>3 DEF VerdictState, LoopState, ExitState, Terminals, Exits
<1>9. Calm
  <2>1. \A s \in Streams : Drained(s) => Drained(s)'
    BY <1>2, TreeShrinks DEF IInv, TypesOK
  <2> QED
    BY <2>1 DEF Calm, IInv, TypesOK
<1>10. FlowState' /\ EndState'
  BY <1>3, <1>5, <1>9, StreamsKept
<1> QED
  BY <1>5, <1>6, <1>7, <1>8, <1>10 DEF IInv

\* The loop looks whether the leader has ended.
LEMMA ReapStep ==
    ASSUME IInv, Reap, UNCHANGED <<written, clocks, stop, reader, taken, writer, strays>>
    PROVE  IInv'
<1>1. pc \in Collecting /\ UNCHANGED <<cancelled, expired, override, failed, done, kept, queue>>
  BY DEF Reap, Collecting, clocks
<1>2. CASE Abandons
  BY <1>1, <1>2, LoopIsAbandoned
<1>3. CASE ~Abandons
  <2>1. pc' \in Collecting /\ UNCHANGED <<after, receiver, result>>
    BY <1>3 DEF Reap, StillOpen, Collecting
  <2>2. UNCHANGED <<tree, status>> \/ (Reaps /\ leader = "exited")
    BY <1>3 DEF Reap
  <2> QED
    BY <1>1, <2>1, <2>2, LoopGoesOn
<1> QED
  BY <1>2, <1>3

\* A step of the loop that ends it for another reason than the leader's end.
LEMMA LoopIsLeft ==
    ASSUME IInv, pc \in Collecting,
           \/ pc' = "sigterm" /\ after' = "teardown"
           \/ pc' = "teardown" /\ UNCHANGED after,
           failed' \in BOOLEAN, override' \in Terminals \cup {"none"},
           failed' \/ override' # "none",
           override' \in {"cancelled", "timed_out", "limit"} => status = "none",
           queue' = queue \/ (queue # <<>> /\ queue' = Tail(queue)),
           UNCHANGED <<tree, written, cancelled, expired, status, done, kept>>,
           UNCHANGED <<receiver, stop, reader, taken, writer, result, strays>>
    PROVE  IInv'
<1>1. /\ result = "none" /\ after = "none" /\ leader # "unborn"
      /\ ~failed /\ override = "none" /\ receiver /\ stop = "none"
      /\ ~(leader = "reaped" /\ members)
  BY InTheLoop
<1>2. /\ pc' \in {"sigterm", "teardown"}
      /\ pc' \notin BeforeSpawn \cup Collecting \cup {"setup", "returned", "join_writer"}
      /\ pc' \in Terminating <=> pc' = "sigterm"
  BY DEF Collecting, BeforeSpawn, Terminating
<1>0. queue \in Seq(Events) /\ Len(queue) <= Depth /\ Len(queue) \in Nat /\ Depth \in Nat
  BY ExecutionAssumption DEF IInv, TypesOK
<1>3. queue' \in Seq(Events) /\ Len(queue') <= Depth
  <2>1. CASE queue # <<>> /\ queue' = Tail(queue)
    BY <1>0, <2>1
  <2> QED
    BY <1>0, <2>1
<1> \A e : Count(queue, e) \in Nat /\ Count(queue', e) \in Nat
  BY <1>0, <1>3, CountNat
<1>4. TypesOK'
  <2>1. pc' \in Terminating \cup Ending /\ after' \in {"none", "teardown", "returned"}
    BY <1>1 DEF Terminating, Ending
  <2> QED
    BY <1>3, <2>1 DEF IInv, TypesOK, tree, ids
<1>5. GroupState'
  BY DEF IInv, GroupState, tree, ids
<1>6. PhaseState'
  BY <1>1, <1>2 DEF PhaseState, tree, ids
<1>7. VerdictState' /\ LoopState' /\ ExitState'
  BY <1>1, <1>2 DEF VerdictState, LoopState, ExitState, Undecided, Terminals, Exits
<1>8. \A s \in Streams : Drained(s) => Drained(s)'
  BY TreeKept
<1>9. \A s \in Streams : Seen(s)' <= Seen(s)
  <2> SUFFICES ASSUME NEW s \in Streams PROVE Seen(s)' <= Seen(s)
    OBVIOUS
  <2>1. Count(queue', Chunk(s)) <= Count(queue, Chunk(s))
    <3>1. CASE queue' = queue
      BY <3>1
    <3>2. CASE queue # <<>> /\ queue' = Tail(queue)
      <4>1. Count(queue, Chunk(s)) = Count(queue', Chunk(s)) + (IF Head(queue) = Chunk(s) THEN 1 ELSE 0)
        BY <1>0, <3>2, CountTail
      <4> QED
        BY <4>1
    <3> QED
      BY <3>1, <3>2
  <2>2. kept[s] \in Nat
    BY DEF IInv, TypesOK
  <2> QED
    BY <2>1, <2>2 DEF Seen, InHand
<1>10. \A s \in Streams : Seen(s) \in Nat /\ Seen(s)' \in Nat
  <2> kept \in [Streams -> Nat]
    BY DEF IInv, TypesOK
  <2> QED
    BY DEF Seen, InHand
<1>11. FlowState' /\ EndState'
  BY <1>2, <1>8, <1>9, <1>10 DEF IInv, FlowState, EndState, TypesOK
<1> QED
  BY <1>4, <1>5, <1>6, <1>7, <1>11 DEF IInv

\* The loop looks at cancellation, deadline, the status and the ceiling on memory.
LEMMA CheckBoundsStep ==
    ASSUME IInv, CheckBounds,
           UNCHANGED <<written, clocks, stop, reader, taken, writer, strays>>
    PROVE  IInv'
<1>1. /\ pc = "check" /\ pc \in Collecting
      /\ UNCHANGED <<done, kept, queue, cancelled, expired>>
  BY DEF CheckBounds, Collecting, clocks
<1>2. ~failed /\ override = "none"
  BY <1>1, InTheLoop
<1>3. \/ /\ pc' = "receive" /\ UNCHANGED <<tree, after, status, override, failed, receiver, result>>
      \/ /\ pc' = "receive" /\ Reaps /\ leader = "exited"
         /\ UNCHANGED <<after, override, failed, receiver, result>>
      \/ /\ Abandons /\ UNCHANGED <<override, failed>>
      \/ /\ pc' = "sigterm" /\ after' = "teardown" /\ status = "none"
         /\ UNCHANGED <<tree, status, receiver, result>>
         /\ \/ override' \in {"cancelled", "timed_out", "limit"} /\ UNCHANGED failed
            \/ failed' = TRUE /\ UNCHANGED override
  BY DEF CheckBounds, StillAsks, Overrides, Terminates, Watch, verdict, StillOpen
<1>6. CASE Abandons
  <2>1. pc' # "receive" /\ after' # "teardown"
    BY <1>6 DEF Abandons, Terminates
  <2>2. UNCHANGED <<override, failed>>
    BY <1>3, <2>1
  <2> QED
    BY <1>1, <1>6, <2>2, LoopIsAbandoned
<1>4. CASE pc' = "receive"
  <2>1. ~Abandons
    BY <1>4 DEF Abandons, Terminates
  <2> QED
    BY <1>1, <1>3, <1>4, <2>1, LoopGoesOn DEF Collecting
<1>5. CASE pc' = "sigterm" /\ ~Abandons
  <2>1. /\ pc' = "sigterm" /\ after' = "teardown" /\ status = "none"
        /\ UNCHANGED <<tree, status, receiver, result>>
        /\ \/ override' \in {"cancelled", "timed_out", "limit"} /\ UNCHANGED failed
           \/ failed' = TRUE /\ UNCHANGED override
    BY <1>3, <1>5
  <2>2. /\ failed' \in BOOLEAN /\ override' \in Terminals \cup {"none"}
        /\ failed' \/ override' # "none"
    BY <1>2, <2>1 DEF Terminals, IInv, TypesOK
  <2> QED
    BY <1>1, <2>1, <2>2, LoopIsLeft
<1> QED
  BY <1>3, <1>4, <1>5, <1>6

-----------------------------------------------------------------------------
(* Receiving.                                                              *)

\* With both readers counted out, nothing is in the channel, and both streams
\* were read and kept to their end.
LEMMA AllRead == TypesOK /\ Balanced /\ Exact /\ done >= 2 => Settled
<1> SUFFICES ASSUME TypesOK, Balanced, Exact, done >= 2 PROVE Settled
  OBVIOUS
<1>1. /\ Count(queue, Done) \in Nat /\ Count(queue, Failed) \in Nat
      /\ Count(queue, Done) = 0 <=> \A i \in 1..Len(queue) : queue[i] # Done
      /\ Count(queue, Failed) = 0 <=> \A i \in 1..Len(queue) : queue[i] # Failed
  BY CountNat DEF TypesOK
<1>2. /\ Count(queue, Done) = 0 /\ Count(queue, Failed) = 0
      /\ \A s \in Streams : reader[s] = "ended"
  BY <1>1 DEF TypesOK, Balanced, Over, Streams
<1>3. ASSUME NEW s \in Streams PROVE kept[s] = taken[s] /\ Drained(s)
  <2>1. Drained(s)
    BY <1>1, <1>2 DEF Balanced
  <2>2. \A i \in 1..Len(queue) : queue[i] # Chunk(s)
    BY <1>1, <1>2 DEF Balanced
  <2>3. Count(queue, Chunk(s)) = 0
    BY <2>2, CountNat DEF TypesOK
  <2>4. kept[s] \in Nat /\ kept[s] + 0 + 0 = taken[s]
    BY <1>2, <2>3 DEF Exact, Seen, InHand, TypesOK
  <2> QED
    BY <2>1, <2>4
<1> QED
  BY <1>2, <1>3 DEF Settled

\* Taking the oldest event from the channel keeps the account of the streams
\* when a chunk is kept and the end of a reader is counted.
LEMMA ReceivesEvent ==
    ASSUME TypesOK, Balanced, Exact, queue # <<>>, queue' = Tail(queue),
           UNCHANGED <<tree, written, reader, taken>>,
           \/ /\ Head(queue) = Done /\ done' = done + 1 /\ UNCHANGED kept
           \/ /\ UNCHANGED done
              /\ \E s \in Streams : Head(queue) = Chunk(s) /\ kept' = [kept EXCEPT ![s] = @ + 1]
    PROVE  Balanced' /\ Exact'
<1>1. /\ queue \in Seq(Events) /\ queue' \in Seq(Events) /\ Len(queue) \in Nat \ {0}
      /\ Len(queue') = Len(queue) - 1 /\ Head(queue) = queue[1]
      /\ \A i \in 1..Len(queue') : queue'[i] = queue[i + 1]
  BY DEF TypesOK
<1>2. /\ \A e : Count(queue, e) = Count(queue', e) + (IF Head(queue) = e THEN 1 ELSE 0)
      /\ \A e : Count(queue', e) \in Nat
  BY <1>1, CountTail, CountNat
<1>3. Head(queue) # Failed
  BY EventsDiffer
<1>4. done' + Count(queue', Done) + Count(queue', Failed) = Over("stdout")' + Over("stderr")'
  <2>1. done + Count(queue, Done) + Count(queue, Failed) = Over("stdout") + Over("stderr")
    BY DEF Balanced
  <2>2. done' + Count(queue', Done) = done + Count(queue, Done) /\ done \in Nat
    BY <1>2, EventsDiffer DEF TypesOK
  <2>3. Over("stdout")' = Over("stdout") /\ Over("stderr")' = Over("stderr")
    BY DEF Over
  <2>4. Count(queue', Failed) = Count(queue, Failed)
    BY <1>2, <1>3
  <2> QED
    BY <1>2, <2>1, <2>2, <2>3, <2>4
<1>5. ASSUME NEW s \in Streams, reader'[s] = "ended"
      PROVE  /\ Drained(s)' \/ \E i \in 1..Len(queue') : queue'[i] = Failed
             /\ \A i \in 1..Len(queue') : queue'[i] = Chunk(s) =>
                  \E j \in 1..Len(queue') : j > i /\ queue'[j] \in {Done, Failed}
  <2>1. /\ Drained(s) \/ \E i \in 1..Len(queue) : queue[i] = Failed
        /\ \A i \in 1..Len(queue) : queue[i] = Chunk(s) =>
             \E j \in 1..Len(queue) : j > i /\ queue[j] \in {Done, Failed}
    BY <1>5 DEF Balanced
  <2>2. ASSUME NEW i \in 1..Len(queue), queue[i] = Failed
        PROVE  \E j \in 1..Len(queue') : queue'[j] = Failed
    <3>1. i # 1
      BY <1>1, <1>3, <2>2
    <3>2. i - 1 \in 1..Len(queue') /\ queue'[i - 1] = Failed
      BY <1>1, <2>2, <3>1
    <3> QED
      BY <3>2
  <2>3. ASSUME NEW i \in 1..Len(queue'), queue'[i] = Chunk(s)
        PROVE  \E j \in 1..Len(queue') : j > i /\ queue'[j] \in {Done, Failed}
    <3>1. i + 1 \in 1..Len(queue) /\ queue[i + 1] = Chunk(s)
      BY <1>1, <2>3
    <3>2. PICK j \in 1..Len(queue) : j > i + 1 /\ queue[j] \in {Done, Failed}
      BY <2>1, <3>1
    <3>3. j - 1 \in 1..Len(queue') /\ j - 1 > i /\ queue'[j - 1] \in {Done, Failed}
      BY <1>1, <3>2
    <3> QED
      BY <3>3
  <2>4. Drained(s) => Drained(s)'
    BY TreeKept
  <2> QED
    BY <2>1, <2>2, <2>3, <2>4
<1>6. Exact'
  <2> SUFFICES ASSUME NEW s \in Streams PROVE Seen(s)' = taken'[s]
    BY DEF Exact
  <2>1. kept'[s] + Count(queue', Chunk(s)) = kept[s] + Count(queue, Chunk(s))
    <3>1. kept \in [Streams -> Nat]
      BY DEF TypesOK
    <3>2. CASE Head(queue) = Done /\ UNCHANGED kept
      BY <1>2, <3>1, <3>2, EventsDiffer
    <3>3. CASE \E t \in Streams : Head(queue) = Chunk(t) /\ kept' = [kept EXCEPT ![t] = @ + 1]
      <4>1. PICK t \in Streams : Head(queue) = Chunk(t) /\ kept' = [kept EXCEPT ![t] = @ + 1]
        BY <3>3
      <4>2. Head(queue) = Chunk(s) <=> s = t
        BY <4>1, EventsDiffer
      <4>3. kept'[s] = kept[s] + (IF s = t THEN 1 ELSE 0) /\ kept[s] \in Nat
        BY <3>1, <4>1
      <4>4. Count(queue, Chunk(s)) = Count(queue', Chunk(s)) + (IF s = t THEN 1 ELSE 0)
        BY <1>2, <4>2
      <4> QED
        BY <1>2, <4>3, <4>4
    <3> QED
      BY <3>2, <3>3
  <2> QED
    BY <2>1 DEF Exact, Seen, InHand
<1> QED
  BY <1>4, <1>5, <1>6 DEF Balanced

\* The loop goes on, or ends because the leader is reaped and both readers are
\* counted out.
LEMMA LoopOrDrained ==
    ASSUME IInv, pc = "receive", queue' \in Seq(Events), Len(queue') <= Depth,
           done' \in Nat, kept' \in [Streams -> Nat],
           \A s \in Streams : kept'[s] <= MaxOutput[s],
           Balanced', Exact', GoesOn(done'),
           UNCHANGED <<tree, written, cancelled, expired, status>>,
           UNCHANGED <<receiver, stop, reader, taken, writer, result, strays>>
    PROVE  IInv'
<1>1. /\ result = "none" /\ after = "none" /\ leader # "unborn"
      /\ ~failed /\ override = "none" /\ receiver /\ stop = "none"
      /\ ~(leader = "reaped" /\ members)
  BY InTheLoop DEF Collecting
<1>2. /\ UNCHANGED <<after, override, failed>>
      /\ pc' \in {"reap", "teardown"}
      /\ pc' = "teardown" => status # "none" /\ done' >= 2
  BY DEF GoesOn, LoopEnds, EndsOnDrain
<1>3. pc' \notin BeforeSpawn \cup Terminating \cup {"setup", "returned", "join_writer"}
  BY <1>2 DEF BeforeSpawn, Terminating
<1>4. TypesOK'
  <2>1. pc' \in Collecting \cup Ending
    BY <1>2 DEF Collecting, Ending
  <2> QED
    BY <1>2, <2>1 DEF IInv, TypesOK, tree, ids
<1>5. GroupState'
  BY DEF IInv, GroupState, tree, ids
<1>6. PhaseState'
  BY <1>1, <1>2, <1>3 DEF PhaseState, tree, ids
<1>7. VerdictState' /\ LoopState'
  BY <1>1, <1>2, <1>3 DEF VerdictState, LoopState, Undecided, Terminals, Exits, Ending
<1>8. \A s \in Streams : Drained(s) => Drained(s)'
  BY TreeKept
<1>9. FlowState'
  <2> SUFFICES ASSUME NEW s \in Streams
               PROVE  /\ taken'[s] <= written'[s] /\ Seen(s)' <= taken'[s]
                      /\ reader'[s] = "done" => Drained(s)'
    BY DEF FlowState
  <2>1. taken[s] <= written[s] /\ taken[s] \in Nat /\ (reader[s] = "done" => Drained(s))
    BY DEF IInv, FlowState, TypesOK
  <2> QED
    BY <1>8, <2>1 DEF Exact
<1>10. EndState'
  <2>1. Over("stdout")' \in 0..1 /\ Over("stderr")' \in 0..1
    BY DEF Over
  <2>2. Count(queue', Done) \in Nat /\ Count(queue', Failed) \in Nat
    BY CountNat
  <2> QED
    BY <2>1, <2>2 DEF EndState, Balanced
<1>11. ExitState'
  <2>1. CASE pc' = "reap"
    BY <1>1, <2>1 DEF ExitState, Ending
  <2>2. CASE pc' = "teardown"
    <3>1. (TypesOK /\ Balanced /\ Exact /\ done >= 2 => Settled)'
      BY AllRead, PTL
    <3> QED
      BY <1>2, <1>4, <2>2, <3>1 DEF ExitState
  <2> QED
    BY <1>2, <2>1, <2>2
<1> QED
  BY <1>4, <1>5, <1>6, <1>7, <1>9, <1>10, <1>11 DEF IInv

\* The loop takes an event from the channel, or waits in vain.
LEMMA ReceiveStep ==
    ASSUME IInv, Receive,
           UNCHANGED <<written, clocks, stop, reader, taken, writer, strays>>
    PROVE  IInv'
<1>1. /\ pc = "receive" /\ pc \in Collecting
      /\ UNCHANGED <<tree, status, cancelled, expired, receiver, result>>
  BY DEF Receive, Collecting, clocks, StillOpen
<1>2. /\ ~failed /\ override = "none" /\ TypesOK /\ Balanced /\ Exact
      /\ \A s \in Streams : kept[s] <= MaxOutput[s]
  BY <1>1, InTheLoop DEF IInv, FlowState, EndState
<1>3. /\ queue \in Seq(Events) /\ Len(queue) \in Nat /\ Len(queue) <= Depth /\ Depth \in Nat
      /\ done \in Nat /\ kept \in [Streams -> Nat] /\ MaxOutput \in [Streams -> Nat]
  BY <1>2, ExecutionAssumption, Bounds DEF TypesOK
<1>4. queue # <<>> => Tail(queue) \in Seq(Events) /\ Len(Tail(queue)) <= Depth
  BY <1>3
<1>5. ASSUME NEW s \in Streams, queue # <<>>, Head(queue) = Chunk(s), HasRoom(s),
             kept' = [kept EXCEPT ![s] = @ + 1], GoesOn(done), queue' = Tail(queue), UNCHANGED done
      PROVE  IInv'
  <2>1. Balanced' /\ Exact'
    BY <1>1, <1>2, <1>5, ReceivesEvent
  <2>2. kept' \in [Streams -> Nat] /\ \A t \in Streams : kept'[t] <= MaxOutput[t]
    BY <1>2, <1>3, <1>5 DEF HasRoom
  <2> QED
    BY <1>1, <1>3, <1>4, <1>5, <2>1, <2>2, LoopOrDrained
<1>6. ASSUME queue # <<>>, Head(queue) = Done, done' = done + 1, GoesOn(done + 1),
             queue' = Tail(queue), UNCHANGED kept
      PROVE  IInv'
  <2>1. Balanced' /\ Exact'
    BY <1>1, <1>2, <1>6, ReceivesEvent
  <2> QED
    BY <1>1, <1>2, <1>3, <1>4, <1>6, <2>1, LoopOrDrained
<1>7. ASSUME queue # <<>>, queue' = Tail(queue), pc' = "sigterm", after' = "teardown",
             UNCHANGED <<done, kept>>,
             \/ override' = "output_limit" /\ UNCHANGED failed
             \/ failed' = TRUE /\ UNCHANGED override
      PROVE  IInv'
  <2>1. /\ failed' \in BOOLEAN /\ override' \in Terminals \cup {"none"}
        /\ failed' \/ override' # "none"
        /\ override' \notin {"cancelled", "timed_out", "limit"}
    BY <1>2, <1>7 DEF Terminals, TypesOK
  <2> QED
    BY <1>1, <1>7, <2>1, LoopIsLeft
<1>8. ASSUME GoesOn(done), UNCHANGED <<done, kept, queue>>
      PROVE  IInv'
  <2>1. \A s \in Streams : Drained(s) => Drained(s)'
    BY <1>1, TreeKept
  <2>2. Balanced' /\ Exact'
    BY <1>2, <1>8, <2>1 DEF Balanced, Exact, Seen, InHand, Over
  <2> QED
    BY <1>1, <1>2, <1>3, <1>8, <2>2, LoopOrDrained
<1>9. ASSUME failed' = TRUE, pc' = "teardown", UNCHANGED <<after, override, done, kept, queue>>
      PROVE  IInv'
  BY <1>1, <1>2, <1>9, LoopIsLeft DEF Terminals
<1> QED
  BY <1>5, <1>6, <1>7, <1>8, <1>9 DEF Receive, Overrides, Terminates

-----------------------------------------------------------------------------
(* The guard, and the end of collect.                                      *)

\* The guard signals the group and reaps the leader.
LEMMA TerminateStep ==
    ASSUME IInv, Terminate
    PROVE  IInv'
<1>1. /\ UNCHANGED <<escaped, closed, written, cancelled, expired, status, override, failed>>
      /\ UNCHANGED <<receiver, stop, result, done, kept, queue, reader, taken, writer>>
      /\ pc \in Terminating
  BY DEF Terminate, Sigterm, Sigkill, tree, ids, clocks, verdict, streams, ThreadsIdle, Terminating
<1>2. /\ after \in {"teardown", "returned"} /\ leader # "unborn"
      /\ pc \notin BeforeSpawn \cup Collecting \cup Ending \cup {"setup", "returned"}
      /\ result # "none" <=> after = "returned"
      /\ after = "teardown" => ~Undecided
      /\ leader = "reaped" /\ members => after = "returned"
      /\ result # "none" => ~receiver
  <2>1. pc \notin BeforeSpawn \cup Collecting \cup Ending \cup {"setup", "returned"}
    BY <1>1 DEF Terminating, BeforeSpawn, Collecting, Ending
  <2> QED
    BY <1>1, <2>1 DEF IInv, TypesOK, PhaseState, VerdictState
<1>3. \/ /\ pc = "sigterm" /\ group = "free"
         /\ pc' = after /\ after' = "none" /\ UNCHANGED <<leader, code, members, group>>
      \/ pc' = "sigkill" /\ UNCHANGED <<leader, code, members, group, after>>
      \/ /\ pc' = after /\ after' = "none"
         /\ leader' = "reaped" /\ members' = FALSE
         /\ code' = IF leader = "running" THEN "signal" ELSE code
         /\ group' = IF group = "stranger" THEN group ELSE "free"
  BY DEF Terminate, Sigterm, Sigkill, tree, ids
<1>4. strays' \in BOOLEAN
  BY DEF Terminate, Sigterm, Sigkill, IInv, TypesOK
<1>5. /\ leader' # "unborn" /\ GroupState'
      /\ leader' \in {"running", "exited", "reaped"} /\ members' \in BOOLEAN
      /\ code' \in {"none", "exit", "signal"} /\ group' \in {"ours", "free", "stranger"}
  <2>1. CASE UNCHANGED <<leader, code, members, group>>
    BY <1>2, <2>1 DEF IInv, TypesOK, GroupState
  <2>2. CASE /\ leader' = "reaped" /\ members' = FALSE
             /\ code' = IF leader = "running" THEN "signal" ELSE code
             /\ group' = IF group = "stranger" THEN group ELSE "free"
    <3>1. code' \in {"exit", "signal"}
      BY <1>2, <2>2 DEF IInv, TypesOK, GroupState
    <3>2. group' \in {"free", "stranger"}
      BY <2>2
    <3> QED
      BY <2>2, <3>1, <3>2 DEF GroupState
  <2> QED
    BY <1>3, <2>1, <2>2
<1>6. \/ pc' = "sigkill" /\ UNCHANGED <<leader, members, after>>
      \/ pc' = after /\ after' = "none" /\ leader' = "reaped" /\ ~members'
  BY <1>2, <1>3 DEF IInv, TypesOK, GroupState
<1>7. /\ pc' \in {"sigkill", "teardown", "returned"}
      /\ pc' \notin BeforeSpawn \cup Collecting \cup {"setup", "join_writer"}
      /\ pc' \in Terminating <=> pc' = "sigkill"
      /\ pc' \in Ending => after = "teardown"
  BY <1>2, <1>6 DEF BeforeSpawn, Collecting, Terminating, Ending
<1>8. TypesOK'
  <2>1. pc' \in Terminating \cup Ending \cup {"returned"} /\ after' \in {"none", "teardown", "returned"}
    BY <1>2, <1>6 DEF Terminating, Ending
  <2> QED
    BY <1>1, <1>4, <1>5, <2>1 DEF IInv, TypesOK
<1>9. PhaseState'
  <2>1. /\ result # "none" => Quiet \/ (Unanswered /\ stop = "none")
        /\ Quiet' = Quiet /\ Unanswered' = Unanswered
    BY <1>1 DEF IInv, PhaseState, Quiet, AllEnded, Unanswered
  <2>2. result' # "none" => Quiet' \/ (Unanswered' /\ stop' = "none")
    BY <1>1, <2>1
  <2>3. leader' = "reaped" /\ members' => pc' \in Terminating /\ after' = "returned"
    BY <1>2, <1>6, <1>7
  <2>4. pc' \in {"join_readers", "join_writer"} => FALSE
    BY <1>7
  <2>5. leader' = "unborn" \/ pc' \in {"join_readers", "join_writer"} \/ result' # "none" => ~receiver'
    BY <1>1, <1>2, <1>5, <2>4
  <2> QED
    <3>1. pc' # "join_writer" /\ leader' # "unborn" /\ pc' # "setup"
      BY <1>5, <1>7
    <3>2. pc' \notin BeforeSpawn /\ result' \notin {"not_dispatched", "refused"}
      BY <1>1, <1>2, <1>7 DEF IInv, PhaseState
    <3>3. pc' \in Terminating <=> after' # "none"
      BY <1>2, <1>6, <1>7
    <3>4. result' # "none" <=> pc' = "returned" \/ after' = "returned"
      BY <1>1, <1>2, <1>6
    <3>5. pc' = "returned" => leader' = "reaped"
      BY <1>2, <1>6
    <3> QED
      BY <1>7, <2>2, <2>3, <2>5, <3>1, <3>2, <3>3, <3>4, <3>5 DEF PhaseState
<1>10. VerdictState' /\ LoopState'
  BY <1>1, <1>2, <1>6, <1>7 DEF IInv, VerdictState, LoopState, Undecided, Verdict
<1>11. Calm
  <2>1. \A s \in Streams : Drained(s) => Drained(s)'
    BY <1>1, <1>3, TreeShrinks DEF IInv, TypesOK
  <2> QED
    BY <1>1, <2>1 DEF Calm, IInv, TypesOK
<1>12. FlowState' /\ EndState' /\ (Settled => Settled')
  BY <1>7, <1>8, <1>11, StreamsKept
<1>13. ExitState'
  BY <1>1, <1>2, <1>7, <1>12 DEF IInv, ExitState, Undecided
<1> QED
  BY <1>5, <1>8, <1>9, <1>10, <1>12, <1>13 DEF IInv

\* A verdict is one of the terminals or an error.
LEMMA VerdictType ==
    ASSUME TypesOK
    PROVE  Verdict \in {"error"} \cup Terminals \cup Exits
BY DEF TypesOK, Verdict, TerminalOf, Terminals, Exits

\* The end of collect: teardown, the joined threads, and the result.
LEMMA FinishStep ==
    ASSUME IInv, Finish
    PROVE  IInv'
<1>1. /\ UNCHANGED <<leader, code, members, escaped, group, closed, written, cancelled, expired>>
      /\ UNCHANGED <<status, override, failed, done, kept, queue, reader, taken, writer, strays>>
      /\ pc \in Ending
  BY DEF Finish, Teardown, JoinReaders, JoinWriter, Ending, tree, ids, clocks, verdict, streams,
     ThreadsIdle
<1>2. /\ pc \notin BeforeSpawn \cup Collecting \cup Terminating \cup {"setup", "returned"}
      /\ after = "none" /\ result = "none" /\ leader # "unborn"
      /\ ~(leader = "reaped" /\ members)
      /\ pc \in {"join_readers", "join_writer"} => ~receiver
  <2>1. pc \notin BeforeSpawn \cup Collecting \cup Terminating \cup {"setup", "returned"}
    BY <1>1 DEF Terminating, BeforeSpawn, Collecting, Ending
  <2> QED
    BY <1>1, <2>1 DEF IInv, TypesOK, PhaseState
<1>3. \/ /\ pc' = "join_readers" /\ stop' = "readers" /\ receiver' = FALSE
         /\ UNCHANGED <<after, result>>
      \/ /\ pc = "join_readers" /\ pc' = "join_writer" /\ AllEnded /\ stop' = "all"
         /\ UNCHANGED <<after, receiver, result>>
      \/ /\ pc = "join_writer" /\ writer # "writing" /\ result' = Verdict
         /\ UNCHANGED <<receiver, stop>>
         /\ \/ leader = "reaped" /\ pc' = "returned" /\ UNCHANGED after
            \/ pc' = "sigterm" /\ after' = "returned"
  BY DEF Finish, Teardown, JoinReaders, JoinWriter, ReceiverAfter, DropsReceiver, Terminates
<1>4. /\ pc' \in {"join_readers", "join_writer", "returned", "sigterm"}
      /\ pc' \notin BeforeSpawn \cup Collecting \cup {"setup"}
      /\ pc' \in Terminating <=> pc' = "sigterm"
      /\ pc' \in Ending => pc' # "returned" /\ pc' # "sigterm"
  BY <1>3 DEF BeforeSpawn, Collecting, Terminating, Ending
<1>5. Verdict \in {"error"} \cup Terminals \cup Exits /\ Verdict \notin {"none", "not_dispatched", "refused"}
  BY VerdictType DEF IInv, Terminals, Exits
<1>6. TypesOK'
  <2>1. pc' \in Terminating \cup Ending \cup {"returned"} /\ after' \in {"none", "returned"}
    BY <1>2, <1>3 DEF Terminating, Ending
  <2>2. result' \in {"none", "error"} \cup Terminals \cup Exits
    BY <1>2, <1>3, <1>5
  <2>3. receiver' \in BOOLEAN /\ stop' \in {"none", "readers", "all"}
    BY <1>3 DEF IInv, TypesOK
  <2> QED
    BY <1>1, <2>1, <2>2, <2>3 DEF IInv, TypesOK
<1>7. GroupState'
  BY <1>1 DEF IInv, GroupState
<1>8. PhaseState'
  <2>1. pc = "join_writer" => AllEnded
    BY DEF IInv, PhaseState
  <2>2. pc' = "join_writer" => AllEnded'
    BY <1>1, <1>3 DEF AllEnded
  <2>3. result' # "none" => Quiet'
    BY <1>1, <1>2, <1>3, <2>1 DEF Quiet, AllEnded
  <2>4. ~receiver'
    BY <1>2, <1>3
  <2> QED
    BY <1>1, <1>2, <1>3, <1>4, <1>5, <2>2, <2>3, <2>4 DEF PhaseState
<1>9. Verdict' = Verdict
  BY <1>1 DEF Verdict
<1>10. VerdictState'
  BY <1>1, <1>2, <1>3, <1>4, <1>9 DEF IInv, VerdictState, Undecided, Terminals, Exits
<1>11. LoopState'
  BY <1>1 DEF IInv, LoopState, Undecided
<1>12. Calm
  BY <1>1, TreeKept DEF Calm, tree, ids, IInv, TypesOK
<1>13. FlowState' /\ EndState' /\ (Settled => Settled')
  BY <1>4, <1>6, <1>12, StreamsKept
<1>14. ExitState'
  BY <1>1, <1>13 DEF IInv, ExitState, Undecided
<1> QED
  BY <1>6, <1>7, <1>8, <1>10, <1>11, <1>13, <1>14 DEF IInv

-----------------------------------------------------------------------------
(* The readers.                                                            *)

\* While a reader is at work the call is between its set-up and its result, or was
\* left when a wait failed, and no exit has been settled.
LEMMA ReaderAtWork ==
    ASSUME IInv, NEW s \in Streams, reader[s] \notin Ended
    PROVE  /\ leader # "unborn" /\ pc # "setup" /\ pc # "join_writer"
           /\ result # "none" => Unanswered /\ stop = "none"
           /\ ~((pc \in Ending \/ result # "none") /\ Undecided /\ status # "none")
<1>1. reader[s] # "none" /\ reader[s] # "ended"
  BY DEF Ended
<1>2. ~Unused /\ ~AllEnded /\ ~Settled
  BY <1>1 DEF Unused, AllEnded, Settled, Ended
<1> QED
  BY <1>2 DEF IInv, PhaseState, Quiet, ExitState

\* What a step of one reader has to keep.
LEMMA ReaderKeeps ==
    ASSUME IInv, NEW s \in Streams, reader[s] \notin Ended, ReaderOnly, TypesOK',
           \A t \in Streams : taken'[t] <= written[t] /\ Seen(t)' <= taken'[t],
           reader'[s] = "done" => taken'[s] = written[s] /\ ~HoldsOpen(s),
           \A t \in Streams \ {s} : reader'[t] = reader[t] /\ taken'[t] = taken[t],
           pc \in Collecting => Balanced' /\ Exact'
    PROVE  IInv'
<1>1. /\ UNCHANGED <<leader, code, members, escaped, group, closed, written, pc, after, done, kept>>
      /\ UNCHANGED <<status, override, failed, receiver, stop, writer, result, strays>>
  BY DEF ReaderOnly, tree, ids, verdict
<1>2. /\ leader # "unborn" /\ pc # "setup" /\ pc # "join_writer"
      /\ result # "none" => Unanswered /\ stop = "none"
      /\ ~((pc \in Ending \/ result # "none") /\ Undecided /\ status # "none")
  BY ReaderAtWork
<1>6. PhaseState'
  BY <1>1, <1>2 DEF IInv, PhaseState, Unanswered
<1>3. GroupState' /\ VerdictState' /\ LoopState' /\ ExitState'
  BY <1>1, <1>2 DEF IInv, GroupState, VerdictState, LoopState, ExitState, Undecided, Verdict
<1>4. FlowState'
  <2> SUFFICES ASSUME NEW t \in Streams
               PROVE  kept'[t] <= MaxOutput[t] /\ (reader'[t] = "done" => Drained(t)')
    BY <1>1 DEF FlowState
  <2>1. kept'[t] <= MaxOutput[t]
    BY <1>1 DEF IInv, FlowState
  <2>2. reader'[t] = "done" => Drained(t)'
    BY <1>1 DEF IInv, FlowState, Drained, HoldsOpen
  <2> QED
    BY <2>1, <2>2
<1>5. EndState'
  BY <1>1 DEF IInv, EndState
<1> QED
  BY <1>3, <1>4, <1>5, <1>6 DEF IInv

\* Neither reader has gone further, nor has anything been received, but by a step
\* of reader s that is still to be counted.
LEMMA SameAccount ==
    ASSUME IInv, NEW s \in Streams, reader[s] \notin Ended, reader'[s] # "ended",
           ReaderOnly, UNCHANGED queue,
           \A t \in Streams \ {s} : reader'[t] = reader[t] /\ taken'[t] = taken[t]
    PROVE  pc \in Collecting => Balanced'
<1>1. UNCHANGED <<leader, members, escaped, closed, written, done>>
  BY DEF ReaderOnly, tree, ids
<1>2. \A t \in Streams : Over(t)' = Over(t)
  BY DEF Over, Ended
<1>3. \A t \in Streams : reader'[t] = "ended" => reader[t] = "ended" /\ (Drained(t) => Drained(t)')
  BY <1>1 DEF Drained, HoldsOpen
<1> SUFFICES ASSUME pc \in Collecting PROVE Balanced'
  OBVIOUS
<1>4. Balanced
  BY DEF IInv, EndState
<1> QED
  BY <1>1, <1>2, <1>3, <1>4 DEF Balanced, Streams

\* A reader takes a chunk, or the end of its stream.
LEMMA ReadStep ==
    ASSUME IInv, NEW s \in Streams, Read(s), ReaderOnly
    PROVE  IInv'
<1>1. /\ reader[s] = "polling" /\ reader[s] \notin Ended /\ UNCHANGED queue
      /\ \/ /\ taken[s] < written[s] /\ taken' = [taken EXCEPT ![s] = @ + 1]
            /\ reader' = [reader EXCEPT ![s] = "chunk"]
         \/ /\ taken[s] = written[s] /\ ~HoldsOpen(s) /\ taken' = taken
            /\ reader' = [reader EXCEPT ![s] = "done"]
  BY DEF Read, ReaderGoes, Ended
<1>2. /\ UNCHANGED <<leader, code, members, escaped, group, closed, written, pc, after, done, kept>>
      /\ UNCHANGED <<cancelled, expired, status, override, failed, receiver, stop, writer, result, strays>>
  BY DEF ReaderOnly, tree, ids, clocks, verdict
<1>3. /\ reader \in [Streams -> {"none", "polling", "chunk", "done", "failed", "ended"}]
      /\ taken \in [Streams -> Nat] /\ written \in [Streams -> Nat] /\ kept \in [Streams -> Nat]
      /\ \A t \in Streams : Count(queue, Chunk(t)) \in Nat
      /\ \A t \in Streams : taken[t] <= written[t] /\ Seen(t) <= taken[t]
      /\ pc \in Collecting => Exact
  BY CountNat DEF IInv, TypesOK, FlowState
<1>4. TypesOK'
  <2>1. reader' \in [Streams -> {"none", "polling", "chunk", "done", "failed", "ended"}]
    BY <1>1, <1>3
  <2>2. taken' \in [Streams -> Nat]
    BY <1>1, <1>3
  <2> QED
    BY <1>1, <1>2, <2>1, <2>2 DEF IInv, TypesOK
<1>5. \A t \in Streams : Seen(t)' - Seen(t) = taken'[t] - taken[t]
  BY <1>1, <1>2, <1>3 DEF Seen, InHand
<1>6. \A t \in Streams : taken'[t] <= written[t] /\ Seen(t)' <= taken'[t]
  BY <1>1, <1>2, <1>3, <1>5 DEF Seen, InHand
<1>7. pc \in Collecting => Exact'
  BY <1>1, <1>2, <1>3 DEF Exact, Seen, InHand
<1>8. pc \in Collecting => Balanced'
  <2>1. reader'[s] # "ended" /\ \A t \in Streams \ {s} : reader'[t] = reader[t] /\ taken'[t] = taken[t]
    BY <1>1, <1>3
  <2> QED
    BY <1>1, <2>1, SameAccount
<1>9. /\ reader'[s] = "done" => taken'[s] = written[s] /\ ~HoldsOpen(s)
      /\ \A t \in Streams \ {s} : reader'[t] = reader[t] /\ taken'[t] = taken[t]
  BY <1>1, <1>3
<1> QED
  BY <1>1, <1>4, <1>6, <1>7, <1>8, <1>9, ReaderKeeps

\* A read fails.
LEMMA ReadFailsStep ==
    ASSUME IInv, NEW s \in Streams, ReadFails(s), ReaderOnly
    PROVE  IInv'
<1>1. /\ reader[s] = "polling" /\ reader[s] \notin Ended /\ UNCHANGED <<queue, taken>>
      /\ reader' = [reader EXCEPT ![s] = "failed"]
  BY DEF ReadFails, ReaderGoes, Ended
<1>2. /\ UNCHANGED <<leader, code, members, escaped, group, closed, written, pc, after, done, kept>>
      /\ UNCHANGED <<cancelled, expired, status, override, failed, receiver, stop, writer, result, strays>>
  BY DEF ReaderOnly, tree, ids, clocks, verdict
<1>3. /\ reader \in [Streams -> {"none", "polling", "chunk", "done", "failed", "ended"}]
      /\ \A t \in Streams : taken[t] <= written[t] /\ Seen(t) <= taken[t]
      /\ pc \in Collecting => Exact
  BY DEF IInv, TypesOK, FlowState
<1>4. TypesOK'
  <2>1. reader' \in [Streams -> {"none", "polling", "chunk", "done", "failed", "ended"}]
    BY <1>1, <1>3
  <2> QED
    BY <1>1, <1>2, <2>1 DEF IInv, TypesOK
<1>5. \A t \in Streams : Seen(t)' = Seen(t)
  BY <1>1, <1>2, <1>3 DEF Seen, InHand
<1>6. \A t \in Streams : taken'[t] <= written[t] /\ Seen(t)' <= taken'[t]
  BY <1>1, <1>3, <1>5
<1>7. pc \in Collecting => Exact'
  BY <1>1, <1>3, <1>5 DEF Exact
<1>8. /\ reader'[s] = "failed"
      /\ \A t \in Streams \ {s} : reader'[t] = reader[t] /\ taken'[t] = taken[t]
  BY <1>1, <1>3
<1>9. pc \in Collecting => Balanced'
  BY <1>1, <1>8, SameAccount
<1> QED
  BY <1>1, <1>4, <1>6, <1>7, <1>8, <1>9, ReaderKeeps

\* A reader that ends without an event: it was told to, or nobody receives.
LEMMA ReaderEnds ==
    ASSUME IInv, NEW s \in Streams, reader[s] \notin Ended, ReaderOnly, UNCHANGED <<queue, taken>>,
           reader' = [reader EXCEPT ![s] = "ended"], stop # "none" \/ ~receiver
    PROVE  IInv'
<1>1. pc \notin Collecting
  BY DEF IInv, PhaseState
<1>2. /\ UNCHANGED <<leader, code, members, escaped, group, closed, written, pc, after, done, kept>>
      /\ UNCHANGED <<cancelled, expired, status, override, failed, receiver, stop, writer, result, strays>>
  BY DEF ReaderOnly, tree, ids, clocks, verdict
<1>3. /\ reader \in [Streams -> {"none", "polling", "chunk", "done", "failed", "ended"}]
      /\ kept \in [Streams -> Nat] /\ taken \in [Streams -> Nat]
      /\ \A t \in Streams : Count(queue, Chunk(t)) \in Nat
      /\ \A t \in Streams : taken[t] <= written[t] /\ Seen(t) <= taken[t]
  BY CountNat DEF IInv, TypesOK, FlowState
<1>4. TypesOK'
  <2>1. reader' \in [Streams -> {"none", "polling", "chunk", "done", "failed", "ended"}]
    BY <1>3
  <2> QED
    BY <1>2, <2>1 DEF IInv, TypesOK
<1>5. \A t \in Streams : taken'[t] <= written[t] /\ Seen(t)' <= taken'[t]
  BY <1>2, <1>3 DEF Seen, InHand
<1>6. /\ reader'[s] = "ended"
      /\ \A t \in Streams \ {s} : reader'[t] = reader[t] /\ taken'[t] = taken[t]
  BY <1>3
<1> QED
  BY <1>1, <1>4, <1>5, <1>6, ReaderKeeps

\* An event goes into the channel.
LEMMA SendsEvent ==
    ASSUME IInv, NEW s \in Streams, reader[s] \in {"chunk", "done", "failed"}, Len(queue) < Depth,
           queue' = Append(queue, Event(s)), UNCHANGED taken, ReaderOnly,
           reader' = [reader EXCEPT ![s] = IF reader[s] = "chunk" THEN "polling" ELSE "ended"]
    PROVE  IInv'
<1>1. /\ UNCHANGED <<leader, code, members, escaped, group, closed, written, pc, after, done, kept>>
      /\ UNCHANGED <<cancelled, expired, status, override, failed, receiver, stop, writer, result, strays>>
  BY DEF ReaderOnly, tree, ids, clocks, verdict
<1>2. /\ reader \in [Streams -> {"none", "polling", "chunk", "done", "failed", "ended"}]
      /\ queue \in Seq(Events) /\ Len(queue) \in Nat /\ Depth \in Nat
      /\ kept \in [Streams -> Nat] /\ taken \in [Streams -> Nat]
      /\ \A t \in Streams : taken[t] <= written[t] /\ Seen(t) <= taken[t]
      /\ reader[s] = "done" => Drained(s)
      /\ pc \in Collecting => Exact /\ Balanced
  BY ExecutionAssumption DEF IInv, TypesOK, FlowState, EndState
<1>3. /\ reader[s] = "chunk" => Event(s) = Chunk(s)
      /\ reader[s] = "done" => Event(s) = Done
      /\ reader[s] = "failed" => Event(s) = Failed
  BY DEF Event
<1>4. Event(s) \in Events
  BY <1>3 DEF Events
<1>5. /\ queue' \in Seq(Events) /\ Len(queue') = Len(queue) + 1 /\ queue'[Len(queue')] = Event(s)
      /\ \A i \in 1..Len(queue) : queue'[i] = queue[i]
  BY <1>2, <1>4
<1>6. /\ \A e : Count(queue', e) = Count(queue, e) + (IF Event(s) = e THEN 1 ELSE 0)
      /\ \A e : Count(queue, e) \in Nat /\ Count(queue', e) \in Nat
  <2>1. \A e : Count(queue', e) = Count(queue, e) + (IF Event(s) = e THEN 1 ELSE 0)
    BY <1>2, <1>4, CountAppend
  <2>2. \A e : Count(queue, e) \in Nat /\ Count(queue', e) \in Nat
    BY <1>2, <1>5, CountNat
  <2> QED
    BY <2>1, <2>2
<1>7. /\ \A t \in Streams \ {s} : reader'[t] = reader[t]
      /\ reader'[s] = IF reader[s] = "chunk" THEN "polling" ELSE "ended"
      /\ reader' \in [Streams -> {"none", "polling", "chunk", "done", "failed", "ended"}]
  BY <1>2
<1>8. TypesOK'
  BY <1>1, <1>2, <1>5, <1>7 DEF IInv, TypesOK
<1>9. \A t \in Streams : Seen(t)' = Seen(t)
  <2> SUFFICES ASSUME NEW t \in Streams PROVE Seen(t)' = Seen(t)
    OBVIOUS
  <2>1. Event(s) = Chunk(t) <=> t = s /\ reader[s] = "chunk"
    BY <1>3, EventsDiffer
  <2>2. kept[t] \in Nat
    BY <1>2
  <2> QED
    BY <1>1, <1>6, <1>7, <2>1, <2>2 DEF Seen, InHand
<1>10. ASSUME pc \in Collecting PROVE Balanced' /\ Exact'
  <2>1. done + Count(queue, Done) + Count(queue, Failed) = Over("stdout") + Over("stderr")
    BY <1>2, <1>10 DEF Balanced
  <2>2. done \in Nat
    BY DEF IInv, TypesOK
  <2>3. done' + Count(queue', Done) + Count(queue', Failed) = Over("stdout")' + Over("stderr")'
    <3>1. CASE reader[s] = "chunk"
      <4>1. Event(s) # Done /\ Event(s) # Failed
        BY <1>3, <3>1, EventsDiffer
      <4>2. \A t \in Streams : Over(t)' = Over(t)
        BY <1>7, <3>1 DEF Over
      <4> QED
        BY <1>1, <1>6, <2>1, <2>2, <4>1, <4>2 DEF Streams
    <3>2. CASE reader[s] # "chunk"
      <4>1. \/ Event(s) = Done /\ Event(s) # Failed
            \/ Event(s) = Failed /\ Event(s) # Done
        BY <1>3, <3>2, EventsDiffer
      <4>2. /\ Over(s) = 0 /\ Over(s)' = 1
            /\ \A t \in Streams \ {s} : Over(t)' = Over(t) /\ Over(t) \in Nat
        BY <1>7, <3>2 DEF Over
      <4>3. Over("stdout")' + Over("stderr")' = Over("stdout") + Over("stderr") + 1
        BY <4>2 DEF Streams
      <4>4. Over("stdout") \in Nat /\ Over("stderr") \in Nat
        BY DEF Over
      <4> QED
        BY <1>1, <1>6, <2>1, <2>2, <4>1, <4>3, <4>4
    <3> QED
      BY <3>1, <3>2
  <2>4. ASSUME NEW t \in Streams, reader'[t] = "ended"
        PROVE  /\ Drained(t)' \/ \E i \in 1..Len(queue') : queue'[i] = Failed
               /\ \A i \in 1..Len(queue') : queue'[i] = Chunk(t) =>
                    \E j \in 1..Len(queue') : j > i /\ queue'[j] \in {Done, Failed}
    <3>1. Drained(t)' <=> Drained(t)
      BY <1>1 DEF Drained, HoldsOpen
    <3>2. CASE t = s
      <4>1. /\ (Event(s) = Done /\ Drained(s)) \/ Event(s) = Failed
            /\ \A u \in Streams : Event(s) # Chunk(u)
        BY <1>2, <1>3, <1>7, <2>4, <3>2, EventsDiffer
      <4>2. Len(queue') \in 1..Len(queue') /\ queue'[Len(queue')] \in {Done, Failed}
        BY <1>2, <1>5, <4>1
      <4>3. \A i \in 1..Len(queue') : queue'[i] = Chunk(t) => Len(queue') > i
        BY <1>2, <1>5, <4>1
      <4> QED
        BY <1>5, <3>1, <3>2, <4>1, <4>2, <4>3
    <3>3. CASE t # s
      <4>1. /\ Drained(t) \/ \E i \in 1..Len(queue) : queue[i] = Failed
            /\ \A i \in 1..Len(queue) : queue[i] = Chunk(t) =>
                 \E j \in 1..Len(queue) : j > i /\ queue[j] \in {Done, Failed}
        BY <1>2, <1>7, <1>10, <2>4, <3>3 DEF Balanced
      <4>2. Event(s) # Chunk(t)
        BY <1>3, <3>3, EventsDiffer
      <4>3. 1..Len(queue') = 1..Len(queue) \cup {Len(queue')}
        BY <1>2, <1>5
      <4> QED
        BY <1>5, <3>1, <4>1, <4>2, <4>3
    <3> QED
      BY <3>2, <3>3
  <2>5. Exact'
    BY <1>2, <1>9, <1>10 DEF Exact
  <2> QED
    BY <2>3, <2>4, <2>5 DEF Balanced
<1>11. reader[s] \notin Ended /\ reader'[s] # "done"
  BY <1>7 DEF Ended
<1> QED
  BY <1>2, <1>7, <1>8, <1>9, <1>10, <1>11, ReaderKeeps

\* One step of a reader.
LEMMA ReaderStep ==
    ASSUME IInv, NEW s \in Streams, Reader(s)
    PROVE  IInv'
<1>1. CASE Read(s)
  BY <1>1, ReadStep DEF Reader
<1>2. CASE StopReader(s)
  BY <1>2, ReaderEnds DEF Reader, StopReader, ReaderGoes, Ended
<1>3. CASE Send(s)
  <2>1. CASE receiver /\ queue' = Append(queue, Event(s))
    BY <1>3, <2>1, SendsEvent DEF Reader, Send, ReaderGoes
  <2>2. CASE ~receiver
    BY <1>3, <2>2, ReaderEnds DEF Reader, Send, ReaderGoes, Ended
  <2> QED
    BY <1>3, <2>1, <2>2 DEF Send
<1> QED
  BY <1>1, <1>2, <1>3 DEF Reader

-----------------------------------------------------------------------------
\* The invariant holds of every reachable state.
THEOREM Invariant == Spec => []IInv
<1>1. Init => IInv
  <2> SUFFICES ASSUME Init PROVE IInv
    OBVIOUS
  <2>1. pc \in BeforeSpawn /\ pc \notin Collecting \cup Terminating \cup Ending \cup {"setup", "returned"}
    BY DEF Init, BeforeSpawn, Collecting, Terminating, Ending
  <2>2. TypesOK
    <3>1. queue \in Seq(Events) /\ Len(queue) <= Depth
      BY ExecutionAssumption DEF Init
    <3> QED
      BY <2>1, <3>1 DEF Init, TypesOK
  <2>3. Unused
    BY DEF Init, Unused
  <2>4. GroupState /\ PhaseState
    BY <2>1, <2>3 DEF Init, GroupState, PhaseState
  <2>5. VerdictState /\ LoopState /\ ExitState /\ EndState
    BY <2>1 DEF Init, VerdictState, LoopState, ExitState, EndState, Terminals, Exits
  <2>6. FlowState
    BY <2>1, <2>3, NoneSeen, Bounds DEF Init, FlowState, Unused
  <2> QED
    BY <2>2, <2>4, <2>5, <2>6 DEF IInv
<1>2. IInv /\ [Next]_vars => IInv'
  <2> SUFFICES ASSUME IInv, [Next]_vars PROVE IInv'
    OBVIOUS
  <2>1. CASE ProcessTree
    BY <2>1, ProcessTreeStep
  <2>2. CASE World
    BY <2>2, WorldStep
  <2>3. CASE Admit \/ Prepare \/ Launch
    BY <2>3, UnstartedStep DEF Admit, Prepare, Launch, BeforeSpawn
  <2>4. CASE Spawn
    BY <2>4, SpawnStep
  <2>5. CASE Setup
    BY <2>5, SetupStep
  <2>6. CASE Collect
    BY <2>6, ReapStep, CheckBoundsStep, ReceiveStep DEF Collect
  <2>7. CASE Terminate
    BY <2>7, TerminateStep
  <2>8. CASE Finish
    BY <2>8, FinishStep
  <2>9. ASSUME NEW s \in Streams, Reader(s) \/ BrokenPipe(s) PROVE IInv'
    BY <2>9, ReaderStep, ReadFailsStep DEF BrokenPipe
  <2>10. CASE Writer
    BY <2>10, WriterStep
  <2>11. CASE UNCHANGED vars
    <3>1. /\ UNCHANGED <<leader, code, members, escaped, group, closed, written, pc, after, done, kept>>
          /\ UNCHANGED <<status, override, failed, receiver, stop, queue, reader, taken, writer>>
          /\ UNCHANGED <<result, strays, cancelled, expired>>
      BY <2>11 DEF vars, tree, ids, clocks, verdict, streams
    <3>2. TypesOK'
      BY <3>1 DEF IInv, TypesOK
    <3>3. GroupState' /\ PhaseState' /\ VerdictState' /\ LoopState'
      BY <3>1 DEF IInv, GroupState, PhaseState, Unused, Quiet, AllEnded, Unanswered, VerdictState,
         LoopState, Undecided, Verdict
    <3>4. Calm
      BY <3>1, TreeKept DEF Calm, tree, ids, IInv, TypesOK
    <3>5. FlowState' /\ EndState' /\ (Settled => Settled')
      BY <3>1, <3>2, <3>4, StreamsKept
    <3>6. ExitState'
      BY <3>1, <3>5 DEF IInv, ExitState, Undecided
    <3> QED
      BY <3>2, <3>3, <3>5, <3>6 DEF IInv
  <2> QED
    BY <2>1, <2>2, <2>3, <2>4, <2>5, <2>6, <2>7, <2>8, <2>9, <2>10, <2>11 DEF Next, Collector
<1> QED
  BY <1>1, <1>2, PTL DEF Spec

\* Every variable keeps its type, the channel its depth, and neither stream is
\* kept beyond its bound or ahead of what was read and written.
THEOREM TypeCorrect == Spec => []TypeOK
<1>1. IInv => TypeOK
  <2> SUFFICES ASSUME IInv PROVE TypeOK
    OBVIOUS
  <2>1. pc \in {"admit", "prepared", "launching", "spawn", "setup", "reap", "check", "receive",
                "sigterm", "sigkill", "teardown", "join_readers", "join_writer", "returned"}
    BY DEF IInv, TypesOK, BeforeSpawn, Collecting, Terminating, Ending
  <2>2. done \in 0..2
    BY DEF IInv, TypesOK, EndState
  <2>3. ASSUME NEW s \in Streams
        PROVE  kept[s] <= MaxOutput[s] /\ kept[s] <= taken[s] /\ taken[s] <= written[s]
    <3>1. kept[s] \in Nat /\ Count(queue, Chunk(s)) \in Nat /\ InHand(s) \in Nat /\ taken[s] \in Nat
      BY CountNat DEF IInv, TypesOK, InHand
    <3> QED
      BY <3>1 DEF IInv, FlowState, Seen
  <2> QED
    BY <2>1, <2>2, <2>3 DEF IInv, TypesOK, TypeOK
<1> QED
  BY <1>1, Invariant, PTL

\* A call that returned left no process behind, whatever failed and whoever
\* cancelled, and no thread either, unless it was a wait for the leader that
\* failed (try_wait, terminate_and_reap, stop_and_join_readers).
THEOREM NothingIsLeft == Spec => []NothingSurvives
<1>1. IInv => NothingSurvives
  <2> SUFFICES ASSUME IInv, pc = "returned" PROVE NothingSurvives
    BY DEF NothingSurvives
  <2>1. /\ pc \notin Terminating
        /\ result # "none" /\ ~receiver
        /\ leader \in {"unborn", "reaped"}
        /\ Quiet \/ (Unanswered /\ stop = "none")
    BY DEF IInv, PhaseState, Terminating
  <2>2. ~members
    BY <2>1 DEF IInv, PhaseState, GroupState
  <2> QED
    BY <2>1, <2>2 DEF NothingSurvives, Quiet
<1> QED
  BY <1>1, Invariant, PTL

\* An exit is reported with all the output of the process tree, for every number
\* of writes, every bound on them and every depth of the channel.
THEOREM ExitIsComplete == Spec => []ExitCarriesAllOutput
<1>1. IInv => ExitCarriesAllOutput
  <2> SUFFICES ASSUME IInv, pc = "returned", result \in Exits PROVE kept = written
    BY DEF ExitCarriesAllOutput
  <2>1. result = Verdict /\ override \in Terminals \cup {"none"} /\ status \in {"none", "exit", "signal"}
    BY DEF IInv, VerdictState, TypesOK
  <2>2. ~failed /\ override = "none" /\ status # "none"
    BY <2>1 DEF Verdict, Exits, Terminals
  <2>3. leader # "unborn" /\ result # "none"
    BY DEF IInv, PhaseState, Exits, BeforeSpawn
  <2>4. Settled
    BY <2>2, <2>3 DEF IInv, ExitState, Undecided
  <2>5. kept \in [Streams -> Nat] /\ written \in [Streams -> Nat]
    BY DEF IInv, TypesOK
  <2> QED
    BY <2>4, <2>5 DEF Settled, Drained
<1> QED
  BY <1>1, Invariant, PTL

\* No exit that was reaped is reported as a cancellation, a timeout or a limit.
THEOREM ExitStands == Spec => []ExitIsAuthoritative
<1>1. IInv => ExitIsAuthoritative
  <2> SUFFICES ASSUME IInv, result \in {"cancelled", "timed_out", "limit"} PROVE status = "none"
    BY DEF ExitIsAuthoritative
  <2>1. result = Verdict
    BY DEF IInv, VerdictState, Terminals
  <2>2. override = result
    BY <2>1 DEF Verdict, TerminalOf
  <2> QED
    BY <2>2 DEF IInv, VerdictState
<1> QED
  BY <1>1, Invariant, PTL

-----------------------------------------------------------------------------
(* The jail of a command, what it says of itself, and what it launches.    *)

\* Paths: sequences of names, the one that is not installed anywhere (HostPaths) among them.
JailNames == STRING \cup {"any"}
JailPaths == Seq(JailNames)

\* A path is under another when it begins with its names.
LEMMA JailUnder ==
    ASSUME NEW p \in JailPaths, NEW q \in JailPaths
    PROVE  Jail!Under(p, q) <=> Len(q) <= Len(p) /\ \A k \in 1..Len(q) : q[k] = p[k]
<1> USE DEF JailPaths
<1>1. Jail!Under(p, q) <=> Len(q) <= Len(p) /\ SubSeq(q, 1, Len(q)) = SubSeq(p, 1, Len(q))
  BY Zenon DEF Jail!Under, Jail!IsPrefix
<1>2. ASSUME Len(q) <= Len(p), SubSeq(q, 1, Len(q)) = SubSeq(p, 1, Len(q)) PROVE \A k \in 1..Len(q) : q[k] = p[k]
  <2> TAKE k \in 1..Len(q)
  <2>1. SubSeq(q, 1, Len(q))[k] = q[k]
    OBVIOUS
  <2>2. SubSeq(p, 1, Len(q))[k] = p[k]
    BY <1>2
  <2> QED
    BY <1>2, <2>1, <2>2
<1>3. ASSUME Len(q) <= Len(p), \A k \in 1..Len(q) : q[k] = p[k] PROVE SubSeq(q, 1, Len(q)) = SubSeq(p, 1, Len(q))
  BY <1>3
<1> QED
  BY <1>1, <1>2, <1>3

\* What is behind a prefix, put behind it again.
LEMMA JailRest ==
    ASSUME NEW p \in JailPaths, NEW q \in JailPaths, Jail!Under(p, q)
    PROVE  q \o SubSeq(p, Len(q) + 1, Len(p)) = p
<1>1. Len(q) <= Len(p) /\ \A k \in 1..Len(q) : q[k] = p[k]
  BY JailUnder
<1> USE DEF JailPaths
<1> DEFINE rest == SubSeq(p, Len(q) + 1, Len(p))
<1>2. rest \in Seq(JailNames) /\ Len(rest) = Len(p) - Len(q)
      /\ \A k \in 1..Len(rest) : rest[k] = p[Len(q) + k]
  BY <1>1
<1> HIDE DEF rest
<1>3. Len(q \o rest) = Len(p) /\ q \o rest \in Seq(JailNames)
  BY <1>2
<1>6. Len(q) \in Nat /\ Len(p) \in Nat
  OBVIOUS
<1>4. ASSUME NEW k \in 1..Len(p) PROVE (q \o rest)[k] = p[k]
  <2>1. CASE k <= Len(q)
    BY <1>1, <1>2, <2>1
  <2>2. CASE k > Len(q)
    <3>1. k - Len(q) \in 1..Len(rest) /\ (q \o rest)[k] = rest[k - Len(q)]
      BY <1>2, <2>2
    <3> QED
      BY <1>2, <3>1
  <2>3. k <= Len(q) \/ k > Len(q)
    BY <1>6
  <2> QED
    BY <2>1, <2>2, <2>3, Zenon
<1>5. q \o rest = p
  BY <1>3, <1>4, SeqEqual
<1> QED
  BY <1>5 DEF rest

\* Two prefixes of a path overlap.
LEMMA JailOverlaps ==
    ASSUME NEW p \in JailPaths, NEW q \in JailPaths, NEW o \in JailPaths, Jail!Under(p, q), Jail!Under(p, o)
    PROVE  Jail!Overlap(q, o)
<1>1. /\ Len(q) <= Len(p) /\ \A k \in 1..Len(q) : q[k] = p[k]
      /\ Len(o) <= Len(p) /\ \A k \in 1..Len(o) : o[k] = p[k]
  BY JailUnder
<1>2. Len(q) \in Nat /\ Len(o) \in Nat
  BY DEF JailPaths
<1>3. CASE Len(q) <= Len(o)
  <2>1. Jail!Under(o, q)
    BY <1>1, <1>2, <1>3, JailUnder
  <2> QED
    BY <2>1, Zenon DEF Jail!Overlap
<1>4. CASE Len(o) <= Len(q)
  <2>1. Jail!Under(q, o)
    BY <1>1, <1>2, <1>4, JailUnder
  <2> QED
    BY <2>1, Zenon DEF Jail!Overlap
<1> QED
  BY <1>2, <1>3, <1>4

\* What is under an extension of a path is under the path: below what is excluded
\* from a root is below the root.
LEMMA JailUnderParts ==
    ASSUME NEW p \in JailPaths, NEW q \in JailPaths, NEW x \in JailPaths, Jail!Under(p, q \o x)
    PROVE  Jail!Under(p, q)
<1> USE DEF JailPaths
<1>1. q \o x \in Seq(JailNames) /\ Len(q \o x) = Len(q) + Len(x) /\ \A k \in 1..Len(q) : (q \o x)[k] = q[k]
  OBVIOUS
<1>2. Len(q \o x) <= Len(p) /\ \A k \in 1..Len(q \o x) : (q \o x)[k] = p[k]
  BY <1>1, JailUnder
<1>3. Len(q) \in Nat /\ Len(x) \in Nat
  OBVIOUS
<1> HIDE DEF JailPaths
<1> QED
  BY <1>1, <1>2, <1>3, JailUnder

\* A path is under itself.
LEMMA JailUnderItself ==
    ASSUME NEW p \in JailPaths
    PROVE  Jail!Under(p, p)
<1> Len(p) \in Nat
  BY DEF JailPaths
<1> QED
  BY JailUnder

\* A path is under its parent.
LEMMA JailParent ==
    ASSUME NEW p \in JailPaths, p # <<>>
    PROVE  Jail!Parent(p) \in JailPaths /\ Jail!Under(p, Jail!Parent(p))
<1> USE DEF JailPaths
<1>1. Len(p) \in Nat /\ Len(p) >= 1
  OBVIOUS
<1>2. /\ SubSeq(p, 1, Len(p) - 1) \in Seq(JailNames) /\ Len(SubSeq(p, 1, Len(p) - 1)) = Len(p) - 1
      /\ \A k \in 1..Len(p) - 1 : SubSeq(p, 1, Len(p) - 1)[k] = p[k]
  <2> DEFINE n == Len(p) - 1
  <2>1. n \in Nat /\ n <= Len(p)
    BY <1>1
  <2> HIDE DEF n
  <2>2. SubSeq(p, 1, n) \in Seq(JailNames) /\ Len(SubSeq(p, 1, n)) = n /\ \A k \in 1..n : SubSeq(p, 1, n)[k] = p[k]
    BY <2>1
  <2> QED
    BY <2>2 DEF n
<1>3. Jail!Parent(p) = SubSeq(p, 1, Len(p) - 1)
  BY Zenon DEF Jail!Parent, Jail!Front
<1> HIDE DEF JailPaths
<1>4. Jail!Parent(p) \in JailPaths /\ Len(Jail!Parent(p)) = Len(p) - 1 /\
    \A k \in 1..Len(p) - 1 : Jail!Parent(p)[k] = p[k]
  BY <1>2, <1>3, Zenon DEF JailPaths
<1> QED
  BY <1>1, <1>4, JailUnder

\* A path is one of the paths that lead to it.
LEMMA JailSpelling ==
    ASSUME NEW p \in JailPaths
    PROVE  p \in Jail!Spelling(p)
<1> USE DEF JailPaths
<1>1. Len(p) \in 0..Len(p) /\ p = SubSeq(p, 1, Len(p))
  OBVIOUS
<1> QED
  BY <1>1, Zenon DEF Jail!Spelling

\* What is assumed of the host, with paths by their name.
LEMMA JailAssumed ==
    /\ pj_HardLimits \subseteq Nat
    /\ \A h \in pj_Hosts : h.platform \in {"macos", "linux"} /\ h.hard \in Nat
    /\ \A p \in Jail!Places :
        /\ p \in JailPaths /\ p # Jail!Nowhere
        /\ (\E node \in Jail!NodesAt(p) : node.kind \in {"file", "socket"}) =>
            \A q \in Jail!Places : Jail!Under(q, p) => q = p
    /\ \A p \in Jail!Places : \A m, n \in Jail!NodesAt(p) :
        m.kind = "file" /\ n.kind = "file" /\ m.id = n.id => m.bytes = n.bytes
    /\ pj_Snapshot \in JailPaths /\ pj_Snapshot # <<>>
    /\ \E q \in Jail!Spelling(pj_Snapshot) : \A node \in Jail!NodesAt(q) : ~Jail!RootOnly(node)
    /\ pj_Work \in JailPaths
    /\ {"files", "file_bytes", "total_bytes", "tasks"} \subseteq DOMAIN pj_Ceilings
    /\ \A f \in DOMAIN pj_Ceilings : pj_Ceilings[f] \in Nat
    /\ \A b \in pj_Brokers :
        /\ b.kind \in {"none", "unix_socket", "loopback_tcp"} /\ b.at \in JailPaths
        /\ b = [kind |-> b.kind, at |-> b.at, bundle |-> b.bundle]
    /\ \A d \in pj_Declarations : \A r \in Jail!RootsOf(d) : r.path \in JailPaths /\ r.excluded \subseteq JailPaths
    /\ \A i \in pj_Inputs : i.length \in Nat /\ i.name # "none"
<1>1. ASSUME NEW S, NEW T, S \subseteq T PROVE Seq(S) \subseteq Seq(T)
  BY <1>1
<1>2. STRING \subseteq JailNames
  BY Zenon DEF JailNames
<1>3. \A p : p \in Seq(STRING) => p \in JailPaths
  BY <1>1, <1>2, Zenon DEF JailPaths
<1>4. \A P : P \subseteq Seq(STRING) => P \subseteq JailPaths
  BY <1>3, Zenon
<1> QED
  BY <1>3, <1>4, ComponentAssumption, Zenon DEF Jail!JailAssumption, Jail!RootsOf

\* A node is one that may be there.
LEMMA JailNodes ==
    ASSUME pj_changed \subseteq pj_Changes, NEW p,
           p \in DOMAIN Jail!Files \/ Jail!At(Jail!Files, p).kind # "none"
    PROVE  p \in Jail!Places /\ p \in DOMAIN Jail!Files /\ Jail!At(Jail!Files, p) \in Jail!NodesAt(p)
<1> DEFINE there == DOMAIN pj_Installed \cup {c.at : c \in pj_changed}
<1>1. /\ DOMAIN Jail!Files = there
      /\ \A o \in there : Jail!Files[o] =
            IF \E c \in pj_changed : c.at = o THEN (CHOOSE c \in pj_changed : c.at = o).node ELSE pj_Installed[o]
  BY Zenon DEF Jail!Files, Jail!After
<1>2. p \in DOMAIN Jail!Files /\ Jail!At(Jail!Files, p) = Jail!Files[p]
  <2>1. p \notin DOMAIN Jail!Files => Jail!At(Jail!Files, p) = Jail!Absent
    BY Zenon DEF Jail!At
  <2>2. p \in DOMAIN Jail!Files => Jail!At(Jail!Files, p) = Jail!Files[p]
    BY Zenon DEF Jail!At
  <2> QED
    BY <2>1, <2>2 DEF Jail!Absent
<1>3. p \in Jail!Places
  <2>1. there \subseteq Jail!Places
    BY DEF Jail!Places
  <2> QED
    BY <1>1, <1>2, <2>1
<1>4. Jail!Files[p] \in Jail!NodesAt(p)
  <2>1. CASE \E c \in pj_changed : c.at = p
    <3>1. (CHOOSE c \in pj_changed : c.at = p) \in {d \in pj_Changes : d.at = p}
      BY <2>1
    <3>2. Jail!Files[p] = (CHOOSE c \in pj_changed : c.at = p).node
      BY <1>1, <1>2, <2>1, Zenon
    <3> QED
      BY <3>1, <3>2, Zenon DEF Jail!NodesAt
  <2>2. CASE ~ \E c \in pj_changed : c.at = p
    <3>1. Jail!Files[p] = pj_Installed[p] /\ p \in DOMAIN pj_Installed \cap {p}
      BY <1>1, <1>2, <2>2
    <3> QED
      BY <3>1, Zenon DEF Jail!NodesAt
  <2> QED
    BY <2>1, <2>2
<1> QED
  BY <1>2, <1>3, <1>4

\* Below a file, or a socket, there is nothing.
LEMMA JailLeaves ==
    ASSUME pj_changed \subseteq pj_Changes, NEW p \in DOMAIN pj_Installed, NEW q,
           Jail!At(Jail!Files, q).kind \in {"file", "socket"}, Jail!Under(p, q)
    PROVE  p = q
<1>1. q \in Jail!Places /\ Jail!At(Jail!Files, q) \in Jail!NodesAt(q)
  BY JailNodes
<1>2. p \in Jail!Places
  BY Zenon DEF Jail!Places
<1> QED
  BY <1>1, <1>2, JailAssumed

\* A launcher's file is root's, and so is all that leads to it.
LEMMA JailTrusted ==
    ASSUME pj_changed \subseteq pj_Changes, NEW p, Jail!TrustedLauncher(Jail!Files, p)
    PROVE  /\ p \in JailPaths /\ p # Jail!Nowhere /\ Jail!At(Jail!Files, p).kind = "file"
           /\ Jail!TrustedTreeEntry(Jail!Files[p]) /\ p # pj_Snapshot
<1>1. Jail!At(Jail!Files, p).kind = "file" /\ \A q \in Jail!Spelling(p) : Jail!RootOnly(Jail!At(Jail!Files, q))
  BY Zenon DEF Jail!TrustedLauncher, Jail!RealFile
<1>2. p \in Jail!Places /\ p \in DOMAIN Jail!Files
  BY <1>1, JailNodes
<1>3. p \in JailPaths /\ p # Jail!Nowhere
  BY <1>2, JailAssumed
<1>4. Jail!RootOnly(Jail!Files[p])
  <2>1. Jail!RootOnly(Jail!At(Jail!Files, p))
    BY <1>1, <1>3, JailSpelling
  <2> QED
    BY <1>2, <2>1, Zenon DEF Jail!At
<1>5. Jail!TrustedTreeEntry(Jail!Files[p])
  BY <1>4, Zenon DEF Jail!RootOnly, Jail!TrustedTreeEntry
<1>6. p # pj_Snapshot
  <2> SUFFICES ASSUME p = pj_Snapshot PROVE FALSE
    OBVIOUS
  <2>1. PICK q \in Jail!Spelling(pj_Snapshot) : \A node \in Jail!NodesAt(q) : ~Jail!RootOnly(node)
    BY JailAssumed
  <2>2. Jail!RootOnly(Jail!At(Jail!Files, q))
    BY <1>1, <2>1
  <2>3. q \in DOMAIN Jail!Files
    <3> SUFFICES ASSUME q \notin DOMAIN Jail!Files PROVE FALSE
      OBVIOUS
    <3>1. Jail!At(Jail!Files, q) = Jail!Absent
      BY Zenon DEF Jail!At
    <3> QED
      BY <2>2, <3>1 DEF Jail!Absent, Jail!RootOnly
  <2> QED
    BY <2>1, <2>2, <2>3, JailNodes
<1> QED
  BY <1>1, <1>3, <1>5, <1>6

\* The bytes of the staged files, each a pair of its name and its place.
JailHeld(w) == UNION {{n} \X (1..w[n]) : n \in DOMAIN w}

\* An interpreter that was found (python3_for_host) is one for its host; what is
\* denied below its libraries is denied on macOS only.
JailFound(i, host) ==
    /\ i = [platform |-> i.platform, version |-> i.version, executable |-> i.executable, images |-> i.images,
            libraries |-> i.libraries, denied |-> i.denied, digest |-> i.digest]
    /\ i # Jail!NoInterpreter => i.platform = host
    /\ host = "linux" => i.denied = {}

\* Declared directories do not overlap the directory of the jail (with_exec_roots).
JailRoots(d) ==
    d # Jail!NoRoots =>
        d \in pj_Declarations /\ \A r \in Jail!RootsOf(d) : ~Jail!Overlap(pj_Work, r.path)

\* The jail of a host, built: limits that are numbers, and a helper on Linux only.
JailBuilt(j, host) ==
    /\ j = [platform |-> host, limits |-> j.limits, broker |-> j.broker, interpreter |-> j.interpreter,
            roots |-> j.roots, launcher |-> j.launcher, helper |-> j.helper]
    /\ \A f \in {"files", "file_bytes", "total_bytes", "tasks"} : j.limits[f] \in Nat
    /\ j.broker = [kind |-> j.broker.kind, at |-> j.broker.at, bundle |-> j.broker.bundle]
    /\ JailFound(j.interpreter, host) /\ JailRoots(j.roots)
    /\ j.helper = [path |-> j.helper.path, digest |-> j.helper.digest, seen |-> j.helper.seen, id |-> j.helper.id,
                   exact |-> j.helper.exact]
    /\ host = "macos" => j.helper = Jail!NoHelper

\* The helper of a jail was a file of its path when it was digested (trusted_egress_forwarder).
JailDigested(h, host) ==
    host = "linux" =>
        \E node \in Jail!NodesAt(h.path) : node.kind = "file" /\ node.id = h.seen /\ node.bytes = h.digest

\* The inductive invariant: of the jail, that its parts are of its host, ...
JailShapes ==
    /\ pj_platform \in {"macos", "linux"} /\ pj_hard \in Nat /\ pj_changed \subseteq pj_Changes
    /\ JailFound(pj_found, pj_platform)
    /\ pj_declared # Jail!NoRoots => pj_declared \in pj_Declarations
    /\ pj_reading # Jail!NoJail => JailBuilt(pj_reading, pj_platform) /\ pj_jail = Jail!NoJail
    /\ pj_jail # Jail!NoJail => JailBuilt(pj_jail, pj_platform)
    /\ pj_reading # Jail!NoJail => JailDigested(pj_reading.helper, pj_platform)
    /\ pj_jail # Jail!NoJail => JailDigested(pj_jail.helper, pj_platform)

\* ... of its directory, that one thread at a time stages a file, which still fits by
\* what it has checked (stage_input_file), ...
JailStaged ==
    /\ IsFiniteSet(DOMAIN pj_work) /\ IsFiniteSet(JailHeld(pj_work))
    /\ \A n \in DOMAIN pj_work : pj_work[n] \in Nat
    /\ pj_stage \in [pj_Stagers -> pj_Inputs \cup {Jail!Idle}]
    /\ pj_jail = Jail!NoJail => ~pj_folder /\ DOMAIN pj_work = {} /\ \A t \in pj_Stagers : pj_stage[t] = Jail!Idle
    /\ Jail!StagedInputsFit
    /\ \A t \in pj_Stagers : pj_stage[t] # Jail!Idle =>
        /\ \A u \in pj_Stagers : u # t => pj_stage[u] = Jail!Idle
        /\ pj_stage[t].length <= pj_jail.limits.file_bytes
        /\ Cardinality(DOMAIN pj_work) + 1 <= pj_jail.limits.files
        /\ Jail!Bytes(pj_work) + pj_stage[t].length <= pj_jail.limits.total_bytes

\* ... and of the launch, that it was one that the jail allowed, as the host then was.
JailLaunched ==
    pj_launched # Jail!Nothing =>
        \E program \in pj_Programs : Jail!MayLaunch(program) /\ pj_launched = Jail!Launched(program)

\* All three.
JailInv == JailShapes /\ JailStaged /\ JailLaunched

\* The module of the jail counts as this one does.
LEMMA JailCounts == \A S : Jail!Cardinality(S) = Cardinality(S)
BY Zenon DEF Cardinality, IsFiniteSet, Jail!Cardinality, Jail!IsFiniteSet

\* The bytes of the staged files are counted.
LEMMA JailBytes == \A w : Jail!Bytes(w) = Cardinality(JailHeld(w))
BY JailCounts, Zenon DEF Jail!Bytes, JailHeld

\* A built jail is one; no interpreter is an interpreter of every host.
LEMMA JailIsSomething ==
    /\ \A j, host : JailBuilt(j, host) /\ host \in {"macos", "linux"} => j # Jail!NoJail
    /\ \A host : JailFound(Jail!NoInterpreter, host)
<1>1. ASSUME NEW j, NEW host, JailBuilt(j, host), host \in {"macos", "linux"} PROVE j # Jail!NoJail
  <2>1. j.platform = host
    BY <1>1 DEF JailBuilt
  <2>2. Jail!NoJail.platform = "none"
    BY DEF Jail!NoJail
  <2> QED
    BY <1>1, <2>1, <2>2
<1>2. \A host : JailFound(Jail!NoInterpreter, host)
  BY DEF JailFound, Jail!NoInterpreter
<1> QED
  BY <1>1, <1>2

\* A jail is built when its parts are.
LEMMA JailOf ==
    ASSUME NEW host, NEW l, NEW e, NEW i, NEW d, NEW m, NEW h,
           \A f \in {"files", "file_bytes", "total_bytes", "tasks"} : l[f] \in Nat,
           e = [kind |-> e.kind, at |-> e.at, bundle |-> e.bundle],
           JailFound(i, host), JailRoots(d),
           h = [path |-> h.path, digest |-> h.digest, seen |-> h.seen, id |-> h.id, exact |-> h.exact],
           host = "macos" => h = Jail!NoHelper
    PROVE  JailBuilt([platform |-> host, limits |-> l, broker |-> e, interpreter |-> i, roots |-> d,
                      launcher |-> m, helper |-> h], host)
<1> DEFINE j == [platform |-> host, limits |-> l, broker |-> e, interpreter |-> i, roots |-> d, launcher |-> m,
    helper |-> h]
<1>1. /\ j.limits = l /\ j.broker = e /\ j.interpreter = i /\ j.roots = d /\ j.launcher = m /\ j.helper = h
      /\ j = [platform |-> host, limits |-> j.limits, broker |-> j.broker, interpreter |-> j.interpreter,
              roots |-> j.roots, launcher |-> j.launcher, helper |-> j.helper]
  OBVIOUS
<1> HIDE DEF j
<1>2. JailBuilt(j, host)
  BY <1>1, Zenon DEF JailBuilt
<1> QED
  BY <1>2 DEF j

\* A jail of which one part is replaced.
LEMMA JailWith ==
    ASSUME NEW j, NEW host, JailBuilt(j, host), NEW v
    PROVE  /\ [j EXCEPT !.interpreter = v] =
                 [platform |-> host, limits |-> j.limits, broker |-> j.broker, interpreter |-> v,
                  roots |-> j.roots, launcher |-> j.launcher, helper |-> j.helper]
           /\ [j EXCEPT !.roots = v] =
                 [platform |-> host, limits |-> j.limits, broker |-> j.broker, interpreter |-> j.interpreter,
                  roots |-> v, launcher |-> j.launcher, helper |-> j.helper]
<1>1. j = [platform |-> host, limits |-> j.limits, broker |-> j.broker, interpreter |-> j.interpreter,
            roots |-> j.roots, launcher |-> j.launcher, helper |-> j.helper]
  BY DEF JailBuilt
<1> DEFINE l == j.limits  e == j.broker  i == j.interpreter  d == j.roots  m == j.launcher  h == j.helper
<1>2. j = [platform |-> host, limits |-> l, broker |-> e, interpreter |-> i, roots |-> d, launcher |-> m, helper |-> h]
  BY <1>1
<1> HIDE DEF l, e, i, d, m, h
<1>3. /\ [j EXCEPT !.interpreter = v] =
            [platform |-> host, limits |-> l, broker |-> e, interpreter |-> v, roots |-> d, launcher |-> m,
                helper |-> h]
      /\ [j EXCEPT !.roots = v] =
            [platform |-> host, limits |-> l, broker |-> e, interpreter |-> i, roots |-> v, launcher |-> m,
                helper |-> h]
  BY <1>2
<1> QED
  BY <1>3 DEF l, e, i, d, m, h

\* The helper of a jail that is given by its parts.
LEMMA JailHelperOf ==
    ASSUME NEW host, NEW l, NEW e, NEW i, NEW d, NEW m, NEW o, NEW g, NEW r, NEW v, NEW x, NEW k,
           k = [platform |-> host, limits |-> l, broker |-> e, interpreter |-> i, roots |-> d, launcher |-> m,
                helper |-> [path |-> o, digest |-> g, seen |-> r, id |-> v, exact |-> x]]
    PROVE  k.helper.path = o /\ k.helper.digest = g /\ k.helper.seen = r
OBVIOUS

\* A jail of which the helper was looked at once more (build).
JailLookedAt(k, host, j, v, x) ==
    k = [platform |-> host, limits |-> j.limits, broker |-> j.broker, interpreter |-> j.interpreter,
         roots |-> j.roots, launcher |-> j.launcher,
         helper |-> [path |-> j.helper.path, digest |-> j.helper.digest, seen |-> j.helper.seen,
                     id |-> v, exact |-> x]]
LEMMA JailHelped ==
    ASSUME NEW j, NEW host, JailBuilt(j, host), NEW v, NEW x, NEW k,
           k = [j EXCEPT !.helper.id = v, !.helper.exact = x]
    PROVE  (JailBuilt(k, host) \/ host = "macos") /\ JailLookedAt(k, host, j, v, x)
<1>1. j = [platform |-> host, limits |-> j.limits, broker |-> j.broker, interpreter |-> j.interpreter,
            roots |-> j.roots, launcher |-> j.launcher, helper |-> j.helper]
  BY DEF JailBuilt
<1>2. j.helper = [path |-> j.helper.path, digest |-> j.helper.digest, seen |-> j.helper.seen, id |-> j.helper.id,
                  exact |-> j.helper.exact]
  BY DEF JailBuilt
<1> DEFINE l == j.limits  e == j.broker  i == j.interpreter  d == j.roots  m == j.launcher  h == j.helper
           o == h.path  g == h.digest  r == h.seen  y == h.id  z == h.exact
           w == [path |-> o, digest |-> g, seen |-> r, id |-> v, exact |-> x]
<1>3. j = [platform |-> host, limits |-> l, broker |-> e, interpreter |-> i, roots |-> d, launcher |-> m, helper |-> h]
  BY <1>1
<1>4. h = [path |-> o, digest |-> g, seen |-> r, id |-> y, exact |-> z]
  BY <1>2
<1>5. w = [path |-> w.path, digest |-> w.digest, seen |-> w.seen, id |-> w.id, exact |-> w.exact]
  OBVIOUS
<1>6. /\ \A f \in {"files", "file_bytes", "total_bytes", "tasks"} : l[f] \in Nat
      /\ e = [kind |-> e.kind, at |-> e.at, bundle |-> e.bundle]
      /\ JailFound(i, host) /\ JailRoots(d)
  BY Zenon DEF JailBuilt
<1> HIDE DEF l, e, i, d, m, h, o, g, r, y, z
<1>7. k = [platform |-> host, limits |-> l, broker |-> e, interpreter |-> i, roots |-> d, launcher |-> m, helper |-> w]
  <2>1. [[h EXCEPT !.id = v] EXCEPT !.exact = x] = w
    <3>1. [h EXCEPT !.id = v] = [path |-> o, digest |-> g, seen |-> r, id |-> v, exact |-> z]
      BY <1>4
    <3>2. [[path |-> o, digest |-> g, seen |-> r, id |-> v, exact |-> z] EXCEPT !.exact = x] = w
      OBVIOUS
    <3> QED
      BY <3>1, <3>2, Zenon
  <2>2. k = [j EXCEPT !.helper = [[h EXCEPT !.id = v] EXCEPT !.exact = x]]
    BY <1>3
  <2> QED
    BY <1>3, <2>1, <2>2
<1> HIDE DEF w
<1>8. ASSUME host # "macos"
      PROVE  JailBuilt([platform |-> host, limits |-> l, broker |-> e, interpreter |-> i, roots |-> d,
                        launcher |-> m, helper |-> w], host)
  BY <1>5, <1>6, <1>8, JailOf
<1>9. JailBuilt(k, host) \/ host = "macos"
  BY <1>7, <1>8, Zenon
<1> QED
  BY <1>7, <1>9, Zenon DEF JailLookedAt, l, e, i, d, m, h, o, g, r, w

\* Nothing is built, staged or launched in the beginning.
LEMMA JailStarts == Jail!Init => JailInv
<1> SUFFICES ASSUME Jail!Init PROVE JailInv
  OBVIOUS
<1>1. JailShapes
  BY JailAssumed, JailIsSomething DEF Jail!Init, JailShapes
<1>2. JailStaged
  <2>1. /\ pj_work = <<>> /\ pj_stage = [t \in pj_Stagers |-> Jail!Idle] /\ pj_jail = Jail!NoJail
        /\ pj_folder = FALSE
    BY DEF Jail!Init
  <2>2. DOMAIN pj_work = {}
    BY <2>1
  <2>3. JailHeld(pj_work) = {}
    BY <2>2 DEF JailHeld
  <2>4. IsFiniteSet({})
    BY FS_EmptySet
  <2>5. Jail!StagedInputsFit
    BY <2>1, Zenon DEF Jail!StagedInputsFit
  <2> QED
    BY <2>1, <2>2, <2>3, <2>4, <2>5 DEF JailStaged
<1>3. JailLaunched
  BY DEF Jail!Init, JailLaunched
<1> QED
  BY <1>1, <1>2, <1>3 DEF JailInv

\* A step that leaves these alone keeps what was staged.
LEMMA JailKeepsStaged ==
    JailStaged /\ UNCHANGED <<pj_jail, pj_work, pj_folder, pj_stage>> => JailStaged'
<1> SUFFICES ASSUME JailStaged, pj_jail' = pj_jail, pj_work' = pj_work, pj_folder' = pj_folder, pj_stage' = pj_stage
             PROVE  JailStaged'
  OBVIOUS
<1>1. Jail!StagedInputsFit'
  BY DEF JailStaged, Jail!StagedInputsFit, Jail!WithinLimits
<1> QED
  BY <1>1, Zenon DEF JailStaged

\* Where nothing was launched and nothing is.
LEMMA JailStillIdle ==
    pj_launched = Jail!Nothing /\ pj_launched' = pj_launched => JailLaunched'
BY Zenon DEF JailLaunched

\* The helper that is chosen, if there is one, passes.
LEMMA JailChosen ==
    ASSUME Jail!Helper # Jail!Nowhere
    PROVE  Jail!TrustedLauncher(Jail!Files, Jail!Helper)
<1> DEFINE first == {i \in DOMAIN pj_Helpers :
                        /\ Jail!TrustedLauncher(Jail!Files, pj_Helpers[i])
                        /\ \A k \in 1..(i - 1) : ~Jail!TrustedLauncher(Jail!Files, pj_Helpers[k])}
           chosen == CHOOSE i \in first : TRUE
<1>1. Jail!Helper = IF first = {} THEN Jail!Nowhere ELSE pj_Helpers[chosen]
  BY Zenon DEF Jail!Helper, Jail!First
<1>2. first # {} /\ Jail!Helper = pj_Helpers[chosen]
  BY <1>1
<1>3. chosen \in first
  BY <1>2
<1> QED
  BY <1>2, <1>3

\* build, up to the bytes of the helper.
LEMMA ReadHelperStep ==
    ASSUME JailInv, pj_launched = Jail!Nothing, NEW l \in pj_Limits, NEW b \in pj_Brokers, Jail!Read(l, b)
    PROVE  JailInv'
<1>1. /\ pj_jail = Jail!NoJail /\ Jail!ValidLimits(l)
      /\ pj_reading' = [platform |-> pj_platform, limits |-> l, broker |-> Jail!Bound(b),
           interpreter |-> Jail!NoInterpreter,
                        roots |-> Jail!NoRoots, launcher |-> Jail!Launcher,
                        helper |-> IF pj_platform = "macos" THEN Jail!NoHelper
                                   ELSE [Jail!NoHelper EXCEPT !.path = Jail!Helper,
                                           !.digest = Jail!Files[Jail!Helper].bytes,
                                           !.seen = Jail!Files[Jail!Helper].id]]
      /\ pj_platform = "linux" => Jail!Helper # Jail!Nowhere
      /\ UNCHANGED <<pj_platform, pj_facts, pj_changed, pj_hard, pj_jail, pj_found, pj_declared, pj_work, pj_folder,
                     pj_stage, pj_launched>>
  BY DEF Jail!Read
<1>5. JailDigested(pj_reading'.helper, pj_platform)
  <2> SUFFICES ASSUME pj_platform = "linux"
               PROVE  \E node \in Jail!NodesAt(pj_reading'.helper.path) :
                         /\ node.kind = "file" /\ node.id = pj_reading'.helper.seen
                         /\ node.bytes = pj_reading'.helper.digest
    BY Zenon DEF JailDigested
  <2> DEFINE o == Jail!Helper
             w == [Jail!NoHelper EXCEPT !.path = o, !.digest = Jail!Files[o].bytes, !.seen = Jail!Files[o].id]
  <2>1. pj_reading'.helper = w
    BY <1>1
  <2>2. w.path = o /\ w.digest = Jail!Files[o].bytes /\ w.seen = Jail!Files[o].id
    BY DEF Jail!NoHelper
  <2>3. Jail!TrustedLauncher(Jail!Files, o)
    BY <1>1, JailChosen
  <2> HIDE DEF o, w
  <2>4. Jail!At(Jail!Files, o).kind = "file"
    BY <2>3, Zenon DEF Jail!TrustedLauncher, Jail!RealFile
  <2>5. Jail!At(Jail!Files, o) \in Jail!NodesAt(o) /\ o \in DOMAIN Jail!Files
    BY <2>4, JailNodes DEF JailInv, JailShapes
  <2>6. Jail!At(Jail!Files, o) = Jail!Files[o]
    BY <2>5, Zenon DEF Jail!At
  <2> QED
    BY <2>1, <2>2, <2>4, <2>5, <2>6, Zenon
<1>2. JailBuilt(pj_reading', pj_platform)
  <2> DEFINE h == IF pj_platform = "macos" THEN Jail!NoHelper
                  ELSE [Jail!NoHelper EXCEPT !.path = Jail!Helper, !.digest = Jail!Files[Jail!Helper].bytes,
                                             !.seen = Jail!Files[Jail!Helper].id]
  <2>1. /\ h = [path |-> h.path, digest |-> h.digest, seen |-> h.seen, id |-> h.id, exact |-> h.exact]
        /\ pj_platform = "macos" => h = Jail!NoHelper
    BY DEF Jail!NoHelper
  <2> DEFINE e == Jail!Bound(b)
  <2>2. e = [kind |-> e.kind, at |-> e.at, bundle |-> e.bundle]
    BY JailAssumed DEF Jail!Bound, Jail!NoBroker
  <2>3. \A f \in {"files", "file_bytes", "total_bytes", "tasks"} : l[f] \in Nat
    <3> SUFFICES ASSUME NEW f \in {"files", "file_bytes", "total_bytes", "tasks"} PROVE l[f] \in Nat
      OBVIOUS
    <3>1. f \in DOMAIN pj_Ceilings /\ pj_Ceilings[f] \in Nat
      BY JailAssumed, Zenon
    <3>2. l[f] \in 1..pj_Ceilings[f]
      BY <1>1, <3>1, Zenon DEF Jail!ValidLimits
    <3> QED
      BY <3>1, <3>2
  <2>4. JailFound(Jail!NoInterpreter, pj_platform)
    BY JailIsSomething
  <2> DEFINE m == Jail!Launcher
  <2>5. pj_reading' = [platform |-> pj_platform, limits |-> l, broker |-> e, interpreter |-> Jail!NoInterpreter,
                       roots |-> Jail!NoRoots, launcher |-> m, helper |-> h]
    BY <1>1, Zenon
  <2>6. JailRoots(Jail!NoRoots)
    BY DEF JailRoots
  <2> HIDE DEF h, e, m
  <2> QED
    BY <2>1, <2>2, <2>3, <2>4, <2>5, <2>6, JailOf
<1>3. JailShapes'
  BY <1>1, <1>2, <1>5, Zenon DEF JailInv, JailShapes
<1>4. JailStaged'
  BY <1>1, JailKeepsStaged DEF JailInv
<1> QED
  BY <1>1, <1>3, <1>4, JailStillIdle DEF JailInv

\* The rest of build.
LEMMA BuildJailStep ==
    ASSUME JailInv, pj_launched = Jail!Nothing, Jail!Build
    PROVE  JailInv'
<1>1. /\ pj_reading # Jail!NoJail /\ pj_reading' = Jail!NoJail
      /\ pj_jail' = IF pj_platform = "macos" THEN pj_reading
               ELSE [pj_reading EXCEPT !.helper.id = Jail!At(Jail!Files, pj_reading.helper.path).id,
                                    !.helper.exact = /\ Jail!ExactTaskCeiling
                                                     /\ pj_hard >= pj_reading.limits.tasks + Jail!HelperTasks(pj_reading)]
      /\ UNCHANGED <<pj_platform, pj_facts, pj_changed, pj_hard, pj_found, pj_declared, pj_work, pj_folder,
                     pj_stage, pj_launched>>
  BY Zenon DEF Jail!Build
<1>2. JailBuilt(pj_reading, pj_platform) /\ pj_jail = Jail!NoJail
  BY <1>1 DEF JailInv, JailShapes
<1>3. JailDigested(pj_reading.helper, pj_platform) /\ pj_platform \in {"macos", "linux"}
  BY <1>1 DEF JailInv, JailShapes
<1>4. JailBuilt(pj_jail', pj_platform) /\ JailDigested(pj_jail'.helper, pj_platform)
  <2>1. CASE pj_platform # "macos"
    <3> DEFINE id == Jail!At(Jail!Files, pj_reading.helper.path).id
               exact == Jail!ExactTaskCeiling /\ pj_hard >= pj_reading.limits.tasks + Jail!HelperTasks(pj_reading)
    <3>1. pj_jail' = [pj_reading EXCEPT !.helper.id = id, !.helper.exact = exact]
      BY <1>1, <2>1, Zenon
    <3> HIDE DEF id, exact
    <3>2. /\ JailBuilt(pj_jail', pj_platform) /\ pj_jail'.helper.path = pj_reading.helper.path
          /\ pj_jail'.helper.digest = pj_reading.helper.digest /\ pj_jail'.helper.seen = pj_reading.helper.seen
      <4>1. /\ JailBuilt(pj_jail', pj_platform) \/ pj_platform = "macos"
            /\ JailLookedAt(pj_jail', pj_platform, pj_reading, id, exact)
        BY <1>2, <3>1, JailHelped, Zenon
      <4>2. /\ pj_jail'.helper.path = pj_reading.helper.path
            /\ pj_jail'.helper.digest = pj_reading.helper.digest /\ pj_jail'.helper.seen = pj_reading.helper.seen
        BY <4>1, JailHelperOf, Zenon DEF JailLookedAt
      <4> QED
        BY <2>1, <4>1, <4>2, Zenon
    <3> QED
      BY <1>3, <3>2, Zenon DEF JailDigested
  <2>2. CASE pj_platform = "macos"
    BY <1>1, <1>2, <2>2, Zenon DEF JailDigested
  <2> QED
    BY <2>1, <2>2
<1>5. JailShapes'
  BY <1>1, <1>4, Zenon DEF JailInv, JailShapes
<1>6. pj_jail' # Jail!NoJail
  BY <1>4, JailIsSomething DEF JailInv, JailShapes
<1>7. JailStaged'
  <2>1. /\ DOMAIN pj_work = {} /\ pj_work' = pj_work /\ pj_stage' = pj_stage /\ ~pj_folder'
        /\ \A t \in pj_Stagers : pj_stage[t] = Jail!Idle
    BY <1>1, <1>2 DEF JailInv, JailStaged
  <2>2. Cardinality({}) = 0
    BY FS_EmptySet
  <2>3. Jail!Bytes(pj_work) = 0 /\ Jail!Cardinality(DOMAIN pj_work) = 0
    <3>1. JailHeld(pj_work) = {}
      BY <2>1 DEF JailHeld
    <3> QED
      BY <2>1, <2>2, <3>1, JailCounts, JailBytes
  <2>4. pj_jail'.limits.files \in Nat /\ pj_jail'.limits.total_bytes \in Nat
    BY <1>4 DEF JailBuilt
  <2>5. Jail!StagedInputsFit'
    <3>1. (Jail!Cardinality(DOMAIN pj_work))' = 0 /\ Jail!Bytes(pj_work)' = 0 /\ DOMAIN pj_work' = {}
      BY <2>1, <2>3
    <3> QED
      BY <2>1, <2>4, <3>1 DEF Jail!StagedInputsFit, Jail!WithinLimits
  <2> QED
    BY <1>6, <2>1, <2>5 DEF JailInv, JailStaged
<1> QED
  BY <1>1, <1>5, <1>7, JailStillIdle DEF JailInv

\* An interpreter is found.
LEMMA DiscoverStep ==
    ASSUME JailInv, pj_launched = Jail!Nothing, Jail!Discover
    PROVE  JailInv'
<1>1. /\ pj_found' = Jail!Python3(Jail!Files, pj_platform, pj_Candidates[pj_platform], pj_Needed)
      /\ pj_found' # Jail!NoInterpreter
      /\ UNCHANGED <<pj_platform, pj_facts, pj_changed, pj_hard, pj_reading, pj_jail, pj_declared, pj_work,
                     pj_folder, pj_stage, pj_launched>>
  BY DEF Jail!Discover
<1>2. ASSUME NEW files, NEW candidate, NEW needed
      PROVE  JailFound(Jail!Python3Candidate(files, pj_platform, candidate, needed), pj_platform)
  <2> DEFINE real == Jail!Canonical(files, candidate)
             layout == IF pj_platform = "macos" THEN Jail!MacosLayout(files, real) ELSE Jail!LinuxLayout(files,
                 real, needed)
             digest == Jail!Digest(files, <<layout.executable>> \o layout.images)
             version == pj_Version[Jail!Last(real)]
             held == [platform |-> pj_platform, version |-> version, executable |-> layout.executable,
                      images |-> layout.images, libraries |-> layout.libraries, denied |-> layout.denied,
                      digest |-> digest]
  <2>1. \/ Jail!Python3Candidate(files, pj_platform, candidate, needed) = Jail!NoInterpreter
        \/ Jail!Python3Candidate(files, pj_platform, candidate, needed) = held
    BY Zenon DEF Jail!Python3Candidate, Jail!Pinned
  <2>2. pj_platform = "linux" => layout.denied = {}
    BY DEF Jail!LinuxLayout, Jail!NoLayout
  <2> HIDE DEF real, layout, digest, version
  <2>3. JailFound(held, pj_platform)
    BY <2>2 DEF JailFound
  <2> HIDE DEF held
  <2> QED
    BY <2>1, <2>3, JailIsSomething
<1>3. JailFound(Jail!Python3(Jail!Files, pj_platform, pj_Candidates[pj_platform], pj_Needed), pj_platform)
  BY <1>2, JailIsSomething, Zenon DEF Jail!Python3
<1>4. JailShapes'
  BY <1>1, <1>3, Zenon DEF JailInv, JailShapes
<1>5. JailStaged'
  BY <1>1, JailKeepsStaged DEF JailInv
<1> QED
  BY <1>1, <1>4, <1>5, JailStillIdle DEF JailInv

\* A jail with the limits it had.
LEMMA JailKeepsLimits ==
    ASSUME JailStaged, pj_jail # Jail!NoJail, pj_jail' # Jail!NoJail, pj_jail'.limits = pj_jail.limits,
           pj_jail'.roots = pj_jail.roots \/ pj_jail'.roots # Jail!NoRoots,
           pj_work' = pj_work, pj_folder' = pj_folder, pj_stage' = pj_stage
    PROVE  JailStaged'
<1>1. Jail!StagedInputsFit'
  <2>1. pj_folder' => pj_jail'.roots # Jail!NoRoots
    BY Zenon DEF JailStaged, Jail!StagedInputsFit
  <2> QED
    BY <2>1 DEF JailStaged, Jail!StagedInputsFit, Jail!WithinLimits
<1> QED
  BY <1>1, Zenon DEF JailStaged

\* with_interpreter.
LEMMA WithInterpreterStep ==
    ASSUME JailInv, pj_launched = Jail!Nothing, Jail!WithInterpreter
    PROVE  JailInv'
<1>1. /\ pj_jail # Jail!NoJail /\ pj_jail' = [pj_jail EXCEPT !.interpreter = pj_found]
      /\ UNCHANGED <<pj_platform, pj_facts, pj_changed, pj_hard, pj_reading, pj_found, pj_declared, pj_work,
                     pj_folder, pj_stage, pj_launched>>
  BY DEF Jail!WithInterpreter
<1>2. JailBuilt(pj_jail, pj_platform) /\ JailFound(pj_found, pj_platform) /\ pj_reading = Jail!NoJail
  BY <1>1 DEF JailInv, JailShapes
<1>3. pj_jail' = [platform |-> pj_platform, limits |-> pj_jail.limits, broker |-> pj_jail.broker,
    interpreter |-> pj_found,
                  roots |-> pj_jail.roots, launcher |-> pj_jail.launcher, helper |-> pj_jail.helper]
  BY <1>1, <1>2, JailWith
<1>4. /\ JailBuilt(pj_jail', pj_platform) /\ pj_jail'.limits = pj_jail.limits
      /\ pj_jail'.roots = pj_jail.roots /\ pj_jail'.helper = pj_jail.helper
  <2>1. JailBuilt([platform |-> pj_platform, limits |-> pj_jail.limits, broker |-> pj_jail.broker,
      interpreter |-> pj_found,
                  roots |-> pj_jail.roots, launcher |-> pj_jail.launcher, helper |-> pj_jail.helper], pj_platform)
    BY <1>2, JailOf, Zenon DEF JailBuilt
  <2> QED
    BY <1>3, <2>1
<1>5. pj_jail' # Jail!NoJail
  BY <1>4, JailIsSomething DEF JailInv, JailShapes
<1>8. JailDigested(pj_jail'.helper, pj_platform)
  BY <1>1, <1>4 DEF JailInv, JailShapes
<1>6. JailShapes'
  BY <1>1, <1>2, <1>4, <1>8, Zenon DEF JailInv, JailShapes
<1>7. JailStaged'
  BY <1>1, <1>4, <1>5, JailKeepsLimits DEF JailInv
<1> QED
  BY <1>1, <1>6, <1>7, JailStillIdle DEF JailInv

\* Directories to run programs from are accepted.
LEMMA DeclareStep ==
    ASSUME JailInv, pj_launched = Jail!Nothing, NEW d \in pj_Declarations, Jail!Declare(d)
    PROVE  JailInv'
<1>1. /\ pj_declared' = d
      /\ UNCHANGED <<pj_platform, pj_facts, pj_changed, pj_hard, pj_reading, pj_jail, pj_found, pj_work, pj_folder,
                     pj_stage, pj_launched>>
  BY DEF Jail!Declare
<1>2. JailShapes'
  BY <1>1, Zenon DEF JailInv, JailShapes
<1>3. JailStaged'
  BY <1>1, JailKeepsStaged DEF JailInv
<1> QED
  BY <1>1, <1>2, <1>3, JailStillIdle DEF JailInv

\* with_exec_roots: they do not overlap the directory of the jail.
LEMMA WithExecRootsStep ==
    ASSUME JailInv, pj_launched = Jail!Nothing, Jail!WithExecRoots
    PROVE  JailInv'
<1>1. /\ pj_jail # Jail!NoJail /\ pj_jail' = [pj_jail EXCEPT !.roots = pj_declared] /\ pj_declared # Jail!NoRoots
      /\ \A r \in Jail!RootsOf(pj_declared) : ~Jail!Overlap(pj_Work, r.path)
      /\ UNCHANGED <<pj_platform, pj_facts, pj_changed, pj_hard, pj_reading, pj_found, pj_declared, pj_work,
                     pj_folder, pj_stage, pj_launched>>
  BY DEF Jail!WithExecRoots
<1>2. JailBuilt(pj_jail, pj_platform) /\ JailRoots(pj_declared) /\ pj_reading = Jail!NoJail
  BY <1>1 DEF JailInv, JailShapes, JailRoots
<1>3. pj_jail' = [platform |-> pj_platform, limits |-> pj_jail.limits, broker |-> pj_jail.broker,
                  interpreter |-> pj_jail.interpreter, roots |-> pj_declared, launcher |-> pj_jail.launcher,
                  helper |-> pj_jail.helper]
  BY <1>1, <1>2, JailWith
<1>4. /\ JailBuilt(pj_jail', pj_platform) /\ pj_jail'.limits = pj_jail.limits
      /\ pj_jail'.roots # Jail!NoRoots /\ pj_jail'.helper = pj_jail.helper
  <2>1. JailBuilt([platform |-> pj_platform, limits |-> pj_jail.limits, broker |-> pj_jail.broker,
                  interpreter |-> pj_jail.interpreter, roots |-> pj_declared, launcher |-> pj_jail.launcher,
                  helper |-> pj_jail.helper], pj_platform)
    BY <1>2, JailOf, Zenon DEF JailBuilt
  <2> QED
    BY <1>1, <1>3, <2>1
<1>5. pj_jail' # Jail!NoJail
  BY <1>4, JailIsSomething DEF JailInv, JailShapes
<1>8. JailDigested(pj_jail'.helper, pj_platform)
  BY <1>1, <1>4 DEF JailInv, JailShapes
<1>6. JailShapes'
  BY <1>1, <1>2, <1>4, <1>8, Zenon DEF JailInv, JailShapes
<1>7. JailStaged'
  BY <1>1, <1>4, <1>5, JailKeepsLimits DEF JailInv
<1> QED
  BY <1>1, <1>6, <1>7, JailStillIdle DEF JailInv

\* stage_input_file up to its check: no other thread is between its check and its write.
LEMMA AdmitFileStep ==
    ASSUME JailInv, pj_launched = Jail!Nothing, NEW t \in pj_Stagers, NEW i \in pj_Inputs, Jail!Admit(t, i)
    PROVE  JailInv'
<1>1. /\ pj_jail # Jail!NoJail /\ \A u \in pj_Stagers : pj_stage[u] = Jail!Idle
      /\ i.length <= pj_jail.limits.file_bytes
      /\ Jail!Entries + 1 <= pj_jail.limits.files
      /\ Jail!Bytes(pj_work) + i.length <= pj_jail.limits.total_bytes
      /\ pj_stage' = [pj_stage EXCEPT ![t] = i]
      /\ UNCHANGED <<pj_platform, pj_facts, pj_changed, pj_hard, pj_reading, pj_jail, pj_found, pj_declared,
                     pj_work, pj_folder, pj_launched>>
  BY DEF Jail!Admit, Jail!TakesLock
<1>2. JailShapes'
  BY <1>1, Zenon DEF JailInv, JailShapes
<1>3. Cardinality(DOMAIN pj_work) + 1 <= pj_jail.limits.files
  <2>1. Jail!Entries = Cardinality(DOMAIN pj_work) + (IF pj_folder THEN 1 ELSE 0)
    BY JailCounts, Zenon DEF Jail!Entries
  <2>2. Cardinality(DOMAIN pj_work) \in Nat
    BY FS_CardinalityType DEF JailInv, JailStaged
  <2>3. pj_jail.limits.files \in Nat
    <3>1. pj_jail.limits["files"] \in Nat
      BY <1>1, Zenon DEF JailInv, JailShapes, JailBuilt
    <3> QED
      BY <3>1
  <2> QED
    BY <1>1, <2>1, <2>2, <2>3
<1>4. JailStaged'
  <2>1. pj_stage' \in [pj_Stagers -> pj_Inputs \cup {Jail!Idle}] /\ pj_stage'[t] = i
        /\ \A u \in pj_Stagers : u # t => pj_stage'[u] = Jail!Idle
    BY <1>1 DEF JailInv, JailStaged
  <2>2. Jail!StagedInputsFit'
    BY <1>1 DEF JailInv, JailStaged, Jail!StagedInputsFit, Jail!WithinLimits
  <2>3. Jail!Bytes(pj_work)' = Jail!Bytes(pj_work)
    BY <1>1
  <2>4. \A u \in pj_Stagers : pj_stage'[u] # Jail!Idle =>
            /\ \A v \in pj_Stagers : v # u => pj_stage'[v] = Jail!Idle
            /\ pj_stage'[u].length <= pj_jail'.limits.file_bytes
            /\ Cardinality(DOMAIN pj_work') + 1 <= pj_jail'.limits.files
            /\ Jail!Bytes(pj_work)' + pj_stage'[u].length <= pj_jail'.limits.total_bytes
    BY <1>1, <1>3, <2>1, <2>3
  <2> QED
    BY <1>1, <2>1, <2>2, <2>4, Zenon DEF JailInv, JailStaged
<1> QED
  BY <1>1, <1>2, <1>4, JailStillIdle DEF JailInv

\* A file's bytes are those of the others and its own.
LEMMA JailHeldMore ==
    ASSUME NEW w, IsFiniteSet(DOMAIN w), IsFiniteSet(JailHeld(w)), NEW n, n \notin DOMAIN w, NEW l \in Nat, NEW v,
           v = [o \in DOMAIN w \cup {n} |-> IF o \in DOMAIN w THEN w[o] ELSE l]
    PROVE  /\ IsFiniteSet(DOMAIN v) /\ Cardinality(DOMAIN v) = Cardinality(DOMAIN w) + 1
           /\ IsFiniteSet(JailHeld(v)) /\ Cardinality(JailHeld(v)) = Cardinality(JailHeld(w)) + l
<1>1. IsFiniteSet(DOMAIN v) /\ Cardinality(DOMAIN v) = Cardinality(DOMAIN w) + 1
  <2>1. DOMAIN v = DOMAIN w \cup {n}
    OBVIOUS
  <2> QED
    BY <2>1, FS_AddElement
<1> DEFINE more == {n} \X (1..l)
<1>2. IsFiniteSet(more) /\ Cardinality(more) = l
  <2>1. IsFiniteSet(1..l) /\ Cardinality(1..l) = l
    BY FS_Interval
  <2>2. IsFiniteSet({n}) /\ Cardinality({n}) = 1
    BY FS_Singleton
  <2>3. IsFiniteSet(more) /\ Cardinality(more) = Cardinality({n}) * Cardinality(1..l)
    BY <2>1, <2>2, FS_Product, Zenon
  <2> HIDE DEF more
  <2> QED
    BY <2>1, <2>2, <2>3
<1>3. JailHeld(v) = JailHeld(w) \cup more
  <2>1. \A o \in DOMAIN w : v[o] = w[o] /\ o # n
    OBVIOUS
  <2>2. v[n] = l /\ DOMAIN v = DOMAIN w \cup {n}
    OBVIOUS
  <2>3. \A x : x \in JailHeld(v) <=> \E o \in DOMAIN v : x \in {o} \X (1..v[o])
    BY Zenon DEF JailHeld
  <2>4. \A x : x \in JailHeld(w) <=> \E o \in DOMAIN w : x \in {o} \X (1..w[o])
    BY Zenon DEF JailHeld
  <2> QED
    BY <2>1, <2>2, <2>3, <2>4, Zenon
<1>4. JailHeld(w) \cap more = {}
  <2>1. \A x \in JailHeld(w) : x[1] \in DOMAIN w
    BY DEF JailHeld
  <2>2. \A x \in more : x[1] = n
    OBVIOUS
  <2> QED
    BY <2>1, <2>2
<1> HIDE DEF more
<1>5. IsFiniteSet(JailHeld(v)) /\ Cardinality(JailHeld(v)) =
    Cardinality(JailHeld(w)) + Cardinality(more) - Cardinality({})
  <2>1. /\ IsFiniteSet(JailHeld(w) \cup more)
        /\ Cardinality(JailHeld(w) \cup more) =
              Cardinality(JailHeld(w)) + Cardinality(more) - Cardinality(JailHeld(w) \cap more)
    BY <1>2, FS_Union
  <2> QED
    BY <1>3, <1>4, <2>1, Zenon
<1>6. Cardinality({}) = 0 /\ Cardinality(JailHeld(w)) \in Nat
  BY FS_EmptySet, FS_CardinalityType
<1> QED
  BY <1>1, <1>2, <1>5, <1>6

\* The rest of stage_input_file: what was checked is still so, and the file fits.
LEMMA WriteJailStep ==
    ASSUME JailInv, pj_launched = Jail!Nothing, NEW t \in pj_Stagers, NEW made \in BOOLEAN, Jail!Write(t, made)
    PROVE  JailInv'
<1> DEFINE n == pj_stage[t].name
           l == pj_stage[t].length
           v == [o \in DOMAIN pj_work \cup {n} |-> IF o \in DOMAIN pj_work THEN pj_work[o] ELSE l]
<1>1. /\ pj_stage[t] # Jail!Idle
      /\ pj_work' = IF made THEN v ELSE pj_work
      /\ pj_stage' = [pj_stage EXCEPT ![t] = Jail!Idle]
      /\ UNCHANGED <<pj_platform, pj_facts, pj_changed, pj_hard, pj_reading, pj_jail, pj_found, pj_declared,
                     pj_launched>>
      /\ pj_folder' = (pj_folder \/ pj_jail.roots # Jail!NoRoots)
  BY Zenon DEF Jail!Write
<1>2. /\ pj_jail # Jail!NoJail /\ l \in Nat
      /\ \A u \in pj_Stagers : u # t => pj_stage[u] = Jail!Idle
      /\ l <= pj_jail.limits.file_bytes
      /\ Cardinality(DOMAIN pj_work) + 1 <= pj_jail.limits.files
      /\ Jail!Bytes(pj_work) + l <= pj_jail.limits.total_bytes
  BY <1>1, JailAssumed DEF JailInv, JailStaged
<1>3. JailShapes'
  BY <1>1, Zenon DEF JailInv, JailShapes
<1>4. Jail!StagedInputsFit /\ IsFiniteSet(DOMAIN pj_work) /\ IsFiniteSet(JailHeld(pj_work))
      /\ \A o \in DOMAIN pj_work : pj_work[o] \in Nat
  BY DEF JailInv, JailStaged
<1>5. /\ Cardinality(DOMAIN pj_work) <= pj_jail.limits.files
      /\ \A o \in DOMAIN pj_work : pj_work[o] <= pj_jail.limits.file_bytes
      /\ Cardinality(JailHeld(pj_work)) <= pj_jail.limits.total_bytes
      /\ Cardinality(JailHeld(pj_work)) + l <= pj_jail.limits.total_bytes
  BY <1>2, <1>4, JailCounts, JailBytes DEF Jail!StagedInputsFit, Jail!WithinLimits
<1> HIDE DEF l, n
<1>6. /\ IsFiniteSet(DOMAIN pj_work') /\ IsFiniteSet(JailHeld(pj_work'))
      /\ \A o \in DOMAIN pj_work' : pj_work'[o] \in Nat /\ pj_work'[o] <= pj_jail.limits.file_bytes
      /\ Cardinality(DOMAIN pj_work') <= pj_jail.limits.files
      /\ Cardinality(JailHeld(pj_work')) <= pj_jail.limits.total_bytes
  <2>1. CASE pj_work' = pj_work
    BY <1>4, <1>5, <2>1
  <2>2. CASE pj_work' = v /\ n \in DOMAIN pj_work
    <3>1. DOMAIN v = DOMAIN pj_work /\ \A o \in DOMAIN pj_work : v[o] = pj_work[o]
      BY <2>2
    <3>2. JailHeld(v) = JailHeld(pj_work)
      BY <3>1 DEF JailHeld
    <3> QED
      BY <1>4, <1>5, <2>2, <3>1, <3>2
  <2>3. CASE pj_work' = v /\ n \notin DOMAIN pj_work
    <3>1. /\ IsFiniteSet(DOMAIN v) /\ Cardinality(DOMAIN v) = Cardinality(DOMAIN pj_work) + 1
          /\ IsFiniteSet(JailHeld(v)) /\ Cardinality(JailHeld(v)) = Cardinality(JailHeld(pj_work)) + l
      BY <1>2, <1>4, <2>3, JailHeldMore
    <3>2. \A o \in DOMAIN v : v[o] \in Nat /\ v[o] <= pj_jail.limits.file_bytes
      BY <1>2, <1>4, <1>5
    <3> HIDE DEF v
    <3> QED
      BY <1>2, <1>5, <2>3, <3>1, <3>2
  <2> QED
    BY <1>1, <2>1, <2>2, <2>3, Zenon
<1>7. JailStaged'
  <2>1. pj_stage' \in [pj_Stagers -> pj_Inputs \cup {Jail!Idle}] /\ \A u \in pj_Stagers : pj_stage'[u] = Jail!Idle
    BY <1>1, <1>2 DEF JailInv, JailStaged
  <2>2. Jail!StagedInputsFit'
    <3>1. Jail!Bytes(pj_work)' = Cardinality(JailHeld(pj_work')) /\ Jail!Cardinality(DOMAIN pj_work)' =
        Cardinality(DOMAIN pj_work')
      BY JailCounts, JailBytes
    <3>2. pj_folder' => pj_jail'.roots # Jail!NoRoots
      BY <1>1, <1>2, <1>4, Zenon DEF Jail!StagedInputsFit
    <3> QED
      BY <1>1, <1>6, <3>1, <3>2 DEF Jail!StagedInputsFit, Jail!WithinLimits
  <2> QED
    BY <1>1, <1>2, <1>6, <2>1, <2>2, Zenon DEF JailStaged
<1> QED
  BY <1>1, <1>3, <1>7, JailStillIdle DEF JailInv

\* A file of the host is changed.
LEMMA ChangeStep ==
    ASSUME JailInv, pj_launched = Jail!Nothing, NEW c \in pj_Changes, Jail!Change(c)
    PROVE  JailInv'
<1>1. /\ pj_changed' = pj_changed \cup {c}
      /\ UNCHANGED <<pj_platform, pj_facts, pj_hard, pj_reading, pj_jail, pj_found, pj_declared, pj_work, pj_folder,
                     pj_stage, pj_launched>>
  BY DEF Jail!Change
<1>2. pj_changed' \subseteq pj_Changes
  BY <1>1 DEF JailInv, JailShapes
<1>3. JailShapes'
  BY <1>1, <1>2, Zenon DEF JailInv, JailShapes
<1>4. JailStaged'
  BY <1>1, JailKeepsStaged DEF JailInv
<1> QED
  BY <1>1, <1>3, <1>4, JailStillIdle DEF JailInv

\* The process is left with fewer tasks.
LEMMA LowerHardLimitStep ==
    ASSUME JailInv, pj_launched = Jail!Nothing, NEW h \in pj_HardLimits, Jail!LowerHardLimit(h)
    PROVE  JailInv'
<1>1. /\ pj_hard' = h
      /\ UNCHANGED <<pj_platform, pj_facts, pj_changed, pj_reading, pj_jail, pj_found, pj_declared, pj_work,
                     pj_folder, pj_stage, pj_launched>>
  BY DEF Jail!LowerHardLimit
<1>2. pj_hard' \in Nat
  BY <1>1, JailAssumed
<1>3. JailShapes'
  BY <1>1, <1>2, Zenon DEF JailInv, JailShapes
<1>4. JailStaged'
  BY <1>1, JailKeepsStaged DEF JailInv
<1> QED
  BY <1>1, <1>3, <1>4, JailStillIdle DEF JailInv

\* Rules and mounts depend on the jail, the program and the directories of programs only.
LEMMA JailSame ==
    ASSUME Jail!Programmes' = Jail!Programmes
    PROVE  \A j, s : Jail!Profile(j, s)' = Jail!Profile(j, s) /\ Jail!Mounts(j, s)' = Jail!Mounts(j, s)
<1>1. \A j : Jail!Granted(j)' = Jail!Granted(j)
  BY Zenon DEF Jail!Granted, Jail!OnlyIf
<1>2. \A j : Jail!ProgrammesRun(j)' = Jail!ProgrammesRun(j)
  BY <1>1, Zenon DEF Jail!ProgrammesRun
<1>3. \A j, s : Jail!Profile(j, s)' = Jail!Profile(j, s)
  BY <1>2, Zenon DEF Jail!Profile
<1>4. \A j, s : Jail!Mounts(j, s)' = Jail!Mounts(j, s)
  BY <1>1, Zenon DEF Jail!Mounts
<1> QED
  BY <1>3, <1>4, Zenon

\* The command is launched, as the host is.
LEMMA LaunchJailStep ==
    ASSUME JailInv, NEW program \in pj_Programs, Jail!Launch(program)
    PROVE  JailInv'
<1>1. /\ Jail!MayLaunch(program) /\ pj_launched' = Jail!Launched(program)
      /\ UNCHANGED <<pj_platform, pj_facts, pj_changed, pj_hard, pj_reading, pj_jail, pj_found, pj_declared,
                     pj_work, pj_folder, pj_stage>>
  BY Zenon DEF Jail!Launch
<1>2. JailShapes'
  BY <1>1, Zenon DEF JailInv, JailShapes
<1>3. JailStaged'
  BY <1>1, JailKeepsStaged DEF JailInv
<1>4. Jail!Files' = Jail!Files /\ Jail!Programmes' = Jail!Programmes
  BY <1>1, Zenon DEF Jail!Files, Jail!Programmes
<1>5. Jail!MayLaunch(program)'
  BY <1>1, <1>4, Zenon DEF Jail!MayLaunch, Jail!HelperStands, Jail!RootsStand
<1>6. \A j, s : Jail!Profile(j, s)' = Jail!Profile(j, s) /\ Jail!Mounts(j, s)' = Jail!Mounts(j, s)
  BY <1>4, JailSame
<1>7. Jail!Launched(program)' = Jail!Launched(program)
  BY <1>1, <1>6, Zenon DEF Jail!Launched
<1> QED
  BY <1>1, <1>2, <1>3, <1>5, <1>7, Zenon DEF JailInv, JailLaunched

\* Every step keeps the invariant.
LEMMA JailStep == JailInv /\ [Jail!Next]_Jail!vars => JailInv'
<1> SUFFICES ASSUME JailInv, [Jail!Next]_Jail!vars PROVE JailInv'
  OBVIOUS
<1>1. CASE Jail!Next
  <2>1. pj_launched = Jail!Nothing
    BY <1>1 DEF Jail!Next
  <2>2. CASE \E l \in pj_Limits, b \in pj_Brokers : Jail!Read(l, b)
    BY <2>1, <2>2, ReadHelperStep
  <2>3. CASE Jail!Build
    BY <2>1, <2>3, BuildJailStep
  <2>4. CASE Jail!Discover
    BY <2>1, <2>4, DiscoverStep
  <2>5. CASE Jail!WithInterpreter
    BY <2>1, <2>5, WithInterpreterStep
  <2>6. CASE \E d \in pj_Declarations : Jail!Declare(d)
    BY <2>1, <2>6, DeclareStep
  <2>7. CASE Jail!WithExecRoots
    BY <2>1, <2>7, WithExecRootsStep
  <2>8. CASE \E t \in pj_Stagers, i \in pj_Inputs : Jail!Admit(t, i)
    BY <2>1, <2>8, AdmitFileStep
  <2>9. CASE \E t \in pj_Stagers, made \in BOOLEAN : Jail!Write(t, made)
    BY <2>1, <2>9, WriteJailStep
  <2>10. CASE \E program \in pj_Programs : Jail!Launch(program)
    BY <2>10, LaunchJailStep
  <2>11. CASE \E c \in pj_Changes : Jail!Change(c)
    BY <2>1, <2>11, ChangeStep
  <2>12. CASE \E h \in pj_HardLimits : Jail!LowerHardLimit(h)
    BY <2>1, <2>12, LowerHardLimitStep
  <2> QED
    BY <1>1, <2>2, <2>3, <2>4, <2>5, <2>6, <2>7, <2>8, <2>9, <2>10, <2>11, <2>12 DEF Jail!Next
<1>2. CASE UNCHANGED Jail!vars
  <2>1. UNCHANGED <<pj_platform, pj_facts, pj_changed, pj_hard, pj_reading, pj_jail, pj_found, pj_declared, pj_work,
                    pj_folder, pj_stage, pj_launched>>
    BY <1>2 DEF Jail!vars
  <2>2. JailShapes'
    BY <2>1, Zenon DEF JailInv, JailShapes
  <2>3. JailStaged'
    BY <2>1, JailKeepsStaged DEF JailInv
  <2>4. JailLaunched'
    <3>1. Jail!Files' = Jail!Files /\ Jail!Programmes' = Jail!Programmes
      BY <2>1, Zenon DEF Jail!Files, Jail!Programmes
    <3>2. \A program : Jail!MayLaunch(program) => Jail!MayLaunch(program)'
      BY <2>1, <3>1, Zenon DEF Jail!MayLaunch, Jail!HelperStands, Jail!RootsStand
    <3>3. \A j, s : Jail!Profile(j, s)' = Jail!Profile(j, s) /\ Jail!Mounts(j, s)' = Jail!Mounts(j, s)
      BY <3>1, JailSame
    <3>4. \A program : Jail!Launched(program)' = Jail!Launched(program)
      BY <2>1, <3>3, Zenon DEF Jail!Launched
    <3> QED
      BY <2>1, <3>2, <3>4, Zenon DEF JailInv, JailLaunched
  <2> QED
    BY <2>2, <2>3, <2>4 DEF JailInv
<1> QED
  BY <1>1, <1>2

\* When a rule applies.
LEMMA JailApplies ==
    ASSUME NEW ops, NEW paths, NEW op, NEW p
    PROVE  /\ Jail!Allow(ops, paths).allow /\ Jail!AllowBelow(ops, paths).allow /\ ~Jail!DenyBelow(ops, paths).allow
           /\ Jail!Applies(Jail!Allow(ops, paths), op, p) <=> op \in ops /\ p \in paths
           /\ Jail!Applies(Jail!AllowBelow(ops, paths), op, p) <=> op \in ops /\ \E q \in paths : Jail!Under(p, q)
           /\ Jail!Applies(Jail!DenyBelow(ops, paths), op, p) <=> op \in ops /\ \E q \in paths : Jail!Under(p, q)
BY DEF Jail!Allow, Jail!AllowBelow, Jail!DenyBelow, Jail!Rule, Jail!Applies

\* Below one of some paths.
JailBelow(p, paths) == \E q \in paths : Jail!Under(p, q)

\* What a profile lets a command do: by which of its rules, and behind which denials.
JailAllowed(j, op, p, e) ==
    \/ op = "read" /\ JailBelow(p, Jail!BundleDirectory(j.broker))
    \/ op = "connect"
    \/ /\ op \in {"read", "exec", "write", "fork", "map"}
       /\ op \in {"read", "exec", "map"} => ~JailBelow(p, Jail!AllExcluded(j.roots))
       /\ op = "read" => ~JailBelow(p, j.interpreter.denied)
       /\ \/ op \in {"exec", "read"} /\ p = e
          \/ op = "read" /\ JailBelow(p, pj_System.macos \cup Jail!OnlyIf(j.roots = Jail!NoRoots,
               {Jail!Parent(pj_Snapshot)}))
          \/ op \in {"read", "write"} /\ JailBelow(p, {pj_Work})
          \/ op = "read" /\ p \in Jail!OnlyIf(j.roots = Jail!NoRoots /\ j.interpreter # Jail!NoInterpreter,
               {pj_Snapshot})
          \/ op = "read" /\ p \in Jail!Range(j.interpreter.images)
          \/ op = "read" /\ JailBelow(p, j.interpreter.libraries)
          \/ op = "fork"
          \/ op \in {"read", "exec"} /\ JailBelow(p, Jail!Granted(j))
          \/ op \in {"read", "exec", "map"} /\ JailBelow(p, {r.path : r \in Jail!RootsOf(j.roots)})

\* A profile lets a command do no more: the last rule that applies decides.
LEMMA JailProfile ==
    ASSUME NEW j, NEW s, NEW op, NEW p, Jail!Decides(Jail!Profile(j, s), op, p),
           NEW e, e = Jail!Executable(j, s)
    PROVE  JailAllowed(j, op, p, e)
<1> DEFINE R == Jail!Profile(j, s)
<1>1. /\ R[1] = Jail!NoForks /\ R[2] = Jail!Runs(e) /\ R[3] = Jail!SystemRead(j) /\ R[4] = Jail!WorkWritten
      /\ R[5] = Jail!WorkUnmapped /\ R[6] = Jail!ScriptRead(j) /\ R[7] = Jail!ImagesRead(j.interpreter)
      /\ R[8] = Jail!LibrariesRead(j.interpreter) /\ R[9] = Jail!RootForks(j) /\ R[10] = Jail!ProgrammesRun(j)
      /\ R[11] = Jail!RootsRun(j.roots) /\ R[12] = Jail!ExcludedDenied(j.roots) /\ R[13] =
           Jail!SiteDenied(j.interpreter)
      /\ R[14] = Jail!BundleRead(j.broker) /\ R[15] = Jail!BrokerReached(j.broker)
      /\ DOMAIN R = 1..15
  BY DEF Jail!Profile
<1>2. PICK i \in DOMAIN R :
        R[i].allow /\ Jail!Applies(R[i], op, p) /\ \A k \in DOMAIN R : k > i => ~Jail!Applies(R[k], op, p)
  BY Zenon DEF Jail!Decides
<1> HIDE DEF R
<1>3. /\ ~Jail!NoForks.allow /\ ~Jail!WorkUnmapped.allow
      /\ ~Jail!ExcludedDenied(j.roots).allow /\ ~Jail!SiteDenied(j.interpreter).allow
  BY JailApplies, Zenon DEF Jail!NoForks, Jail!WorkUnmapped, Jail!ExcludedDenied, Jail!SiteDenied
<1>4. /\ Jail!Applies(Jail!Runs(e), op, p) <=> op \in {"exec", "read"} /\ p \in {e}
      /\ Jail!Applies(Jail!SystemRead(j), op, p) <=>
            op \in {"read"} /\ JailBelow(p, pj_System.macos \cup Jail!OnlyIf(j.roots = Jail!NoRoots,
                {Jail!Parent(pj_Snapshot)}))
      /\ Jail!Applies(Jail!WorkWritten, op, p) <=> op \in {"read", "write"} /\ JailBelow(p, {pj_Work})
      /\ Jail!Applies(Jail!ScriptRead(j), op, p) <=>
            op \in {"read"} /\ p \in Jail!OnlyIf(j.roots = Jail!NoRoots /\ j.interpreter # Jail!NoInterpreter,
                {pj_Snapshot})
      /\ Jail!Applies(Jail!ImagesRead(j.interpreter), op, p) <=> op \in {"read"} /\
           p \in Jail!Range(j.interpreter.images)
      /\ Jail!Applies(Jail!LibrariesRead(j.interpreter), op, p) <=> op \in {"read"} /\ JailBelow(p,
           j.interpreter.libraries)
  <2>1. Jail!Applies(Jail!Runs(e), op, p) <=> op \in {"exec", "read"} /\ p \in {e}
    BY JailApplies, Zenon DEF Jail!Runs
  <2>2. Jail!Applies(Jail!SystemRead(j), op, p) <=>
            op \in {"read"} /\ JailBelow(p, pj_System.macos \cup Jail!OnlyIf(j.roots = Jail!NoRoots,
                {Jail!Parent(pj_Snapshot)}))
    <3> DEFINE paths == pj_System.macos \cup Jail!OnlyIf(j.roots = Jail!NoRoots, {Jail!Parent(pj_Snapshot)})  ops ==
        {"read"}
    <3>1. Jail!SystemRead(j) = Jail!AllowBelow(ops, paths)
      BY Zenon DEF Jail!SystemRead
    <3> HIDE DEF paths
    <3>2. Jail!Applies(Jail!AllowBelow(ops, paths), op, p) <=> op \in ops /\ JailBelow(p, paths)
      BY JailApplies, Zenon DEF JailBelow
    <3> QED
      BY <3>1, <3>2, Zenon DEF paths
  <2>3. Jail!Applies(Jail!WorkWritten, op, p) <=> op \in {"read", "write"} /\ JailBelow(p, {pj_Work})
    <3> DEFINE paths == {pj_Work}  ops == {"read", "write"}
    <3>1. Jail!WorkWritten = Jail!AllowBelow(ops, paths)
      BY Zenon DEF Jail!WorkWritten
    <3> HIDE DEF paths
    <3>2. Jail!Applies(Jail!AllowBelow(ops, paths), op, p) <=> op \in ops /\ JailBelow(p, paths)
      BY JailApplies, Zenon DEF JailBelow
    <3> QED
      BY <3>1, <3>2, Zenon DEF paths
  <2>4. Jail!Applies(Jail!ScriptRead(j), op, p) <=>
            op \in {"read"} /\ p \in Jail!OnlyIf(j.roots = Jail!NoRoots /\ j.interpreter # Jail!NoInterpreter,
                {pj_Snapshot})
    <3> DEFINE paths == Jail!OnlyIf(j.roots = Jail!NoRoots /\ j.interpreter # Jail!NoInterpreter,
        {pj_Snapshot})  ops == {"read"}
    <3>1. Jail!ScriptRead(j) = Jail!Allow(ops, paths)
      BY Zenon DEF Jail!ScriptRead
    <3> HIDE DEF paths
    <3>2. Jail!Applies(Jail!Allow(ops, paths), op, p) <=> op \in ops /\ p \in paths
      BY JailApplies, Zenon
    <3> QED
      BY <3>1, <3>2, Zenon DEF paths
  <2>5. Jail!Applies(Jail!ImagesRead(j.interpreter), op, p) <=> op \in {"read"} /\
      p \in Jail!Range(j.interpreter.images)
    BY JailApplies, Zenon DEF Jail!ImagesRead
  <2>6. Jail!Applies(Jail!LibrariesRead(j.interpreter), op, p) <=> op \in {"read"} /\ JailBelow(p,
      j.interpreter.libraries)
    BY JailApplies, Zenon DEF Jail!LibrariesRead, JailBelow
  <2> QED
    BY <2>1, <2>2, <2>3, <2>4, <2>5, <2>6, Zenon
<1>5. /\ Jail!Applies(Jail!RootForks(j), op, p) => op \in {"fork"}
      /\ Jail!Applies(Jail!ProgrammesRun(j), op, p) <=> op \in {"read", "exec"} /\ JailBelow(p, Jail!Granted(j))
      /\ Jail!Applies(Jail!RootsRun(j.roots), op, p) <=>
            op \in {"read", "exec", "map"} /\ JailBelow(p, {r.path : r \in Jail!RootsOf(j.roots)})
      /\ Jail!Applies(Jail!ExcludedDenied(j.roots), op, p) <=>
            op \in {"read", "exec", "map"} /\ JailBelow(p, Jail!AllExcluded(j.roots))
      /\ Jail!Applies(Jail!SiteDenied(j.interpreter), op, p) <=> op \in {"read"} /\ JailBelow(p, j.interpreter.denied)
      /\ Jail!Applies(Jail!BundleRead(j.broker), op, p) <=> op \in {"read"} /\ JailBelow(p,
           Jail!BundleDirectory(j.broker))
      /\ Jail!Applies(Jail!BrokerReached(j.broker), op, p) => op \in {"connect"}
  <2>1. Jail!Applies(Jail!RootForks(j), op, p) => op \in {"fork"}
    BY JailApplies, Zenon DEF Jail!RootForks
  <2>2. Jail!Applies(Jail!ProgrammesRun(j), op, p) <=> op \in {"read", "exec"} /\ JailBelow(p, Jail!Granted(j))
    BY JailApplies, Zenon DEF Jail!ProgrammesRun, JailBelow
  <2>3. Jail!Applies(Jail!RootsRun(j.roots), op, p) <=>
            op \in {"read", "exec", "map"} /\ JailBelow(p, {r.path : r \in Jail!RootsOf(j.roots)})
    BY JailApplies, Zenon DEF Jail!RootsRun, JailBelow
  <2>4. Jail!Applies(Jail!ExcludedDenied(j.roots), op, p) <=>
            op \in {"read", "exec", "map"} /\ JailBelow(p, Jail!AllExcluded(j.roots))
    BY JailApplies, Zenon DEF Jail!ExcludedDenied, JailBelow
  <2>5. Jail!Applies(Jail!SiteDenied(j.interpreter), op, p) <=> op \in {"read"} /\ JailBelow(p, j.interpreter.denied)
    BY JailApplies, Zenon DEF Jail!SiteDenied, JailBelow
  <2>6. Jail!Applies(Jail!BundleRead(j.broker), op, p) <=> op \in {"read"} /\ JailBelow(p,
      Jail!BundleDirectory(j.broker))
    BY JailApplies, Zenon DEF Jail!BundleRead, JailBelow
  <2>7. Jail!Applies(Jail!BrokerReached(j.broker), op, p) => op \in {"connect"}
    BY JailApplies, Zenon DEF Jail!BrokerReached
  <2> QED
    BY <2>1, <2>2, <2>3, <2>4, <2>5, <2>6, <2>7, Zenon
<1> USE DEF JailAllowed
<1>6. CASE i \in {14, 15}
  BY <1>1, <1>2, <1>5, <1>6
<1>7. CASE i \in 1..13
  <2>1. i \notin {1, 5, 12, 13}
    BY <1>1, <1>2, <1>3
  <2>2. ~Jail!Applies(R[12], op, p) /\ ~Jail!Applies(R[13], op, p)
    BY <1>1, <1>2, <1>7, <2>1
  <2>3. /\ op \in {"read", "exec", "map"} => ~JailBelow(p, Jail!AllExcluded(j.roots))
        /\ op = "read" => ~JailBelow(p, j.interpreter.denied)
    BY <1>1, <1>5, <2>2
  <2>4. i \in {2, 3, 4, 6, 7, 8, 9, 10, 11}
    BY <1>7, <2>1
  <2>5. CASE i \in {2, 3, 4}
    BY <1>1, <1>2, <1>4, <2>3, <2>5
  <2>6. CASE i \in {6, 7, 8}
    BY <1>1, <1>2, <1>4, <2>3, <2>6
  <2>7. CASE i \in {9, 10, 11}
    BY <1>1, <1>2, <1>5, <2>3, <2>7
  <2> QED
    BY <2>4, <2>5, <2>6, <2>7
<1> QED
  BY <1>1, <1>6, <1>7

\* A mount of a jail by which a path is seen: what of the host it puts where.
JailMounted(j, there, p, i, a, b) ==
    /\ b # Jail!Nowhere /\ Jail!Under(p, b)
    /\ i \in {2, 4, 5} => a = b /\ (a \o SubSeq(p, Len(b) + 1, Len(p)) = p => ~JailBelow(p, Jail!AllExcluded(j.roots)))
    /\ i \in {2, 4} => b \in there
    /\ Jail!Mounts(j, there)[i].writable => i = 7
    /\ \/ i = 2 /\ b \in pj_System.linux
       \/ i = 3 /\ j.roots = Jail!NoRoots /\ b = Jail!Parent(pj_Snapshot)
       \/ i = 4 /\ b \in Jail!Granted(j)
       \/ i = 5 /\ b \in {r.path : r \in Jail!RootsOf(j.roots)}
       \/ i = 7 /\ b = pj_Work
       \/ i = 8 /\ b = j.helper.path
       \/ i = 9 /\ j.broker # Jail!NoBroker /\ b = j.broker.at
       \/ i = 10 /\ j.broker.bundle # Jail!Nowhere /\ b = j.broker.bundle
       \/ i = 11 /\ b \in Jail!InterpreterGrants(j.interpreter)

\* The mounts of a jail, one by one: what of the host is put where.
LEMMA JailMounts ==
    ASSUME NEW j, NEW there, NEW p, NEW i \in Jail!SeenBy(Jail!Mounts(j, there), p)
    PROVE  \E a, b : JailMounted(j, there, p, i, a, b)
<1> DEFINE M == Jail!Mounts(j, there)
           Put(k) == M[k].pairs
<1>1. /\ DOMAIN M = 1..11
      /\ M[1] = Jail!Masked({<<>>}) /\ M[2] = Jail!ReadOnly(pj_System.linux \cap there)
      /\ M[3] = Jail!Put(<<"app">>, Jail!OnlyIf(j.roots = Jail!NoRoots, {Jail!Parent(pj_Snapshot)}))
      /\ M[4] = Jail!ReadOnly(Jail!Granted(j) \cap there)
      /\ M[5] = Jail!ReadOnly({r.path : r \in Jail!RootsOf(j.roots)}) /\ M[6] = Jail!Masked(Jail!AllExcluded(j.roots))
      /\ M[7] = Jail!Mount({<<<<"work">>, pj_Work>>}, TRUE)
      /\ M[8] = Jail!Put(<<"run", "magicrun", "jail-helper">>, {j.helper.path})
      /\ M[9] = Jail!Put(<<"run", "magicrun", "egress.sock">>, Jail!OnlyIf(j.broker # Jail!NoBroker, {j.broker.at}))
      /\ M[10] = Jail!Put(<<"etc", "ssl", "certs">>, Jail!OnlyIf(j.broker.bundle # Jail!Nowhere, {j.broker.bundle}))
      /\ M[11] = Jail!ReadOnly(Jail!InterpreterGrants(j.interpreter))
  BY DEF Jail!Mounts
<1>2. PICK m \in M[i].pairs :
          /\ m[2] # Jail!Nowhere /\ Jail!Under(p, m[2])
          /\ \A k \in DOMAIN M : k > i => ~Jail!Covers(M[k], m[1] \o SubSeq(p, Len(m[2]) + 1, Len(p)))
      /\ i \in DOMAIN M
  BY Zenon DEF Jail!SeenBy
<1> HIDE DEF M
<1>3. /\ \A paths : \A n \in Jail!ReadOnly(paths).pairs : n[1] = n[2] /\ n[2] \in paths
      /\ \A paths : \A n \in Jail!Masked(paths).pairs : n[2] = Jail!Nowhere
      /\ \A o, paths : \A n \in Jail!Put(o, paths).pairs : n[2] \in paths
      /\ \A pairs, w : Jail!Mount(pairs, w).pairs = pairs
  BY DEF Jail!ReadOnly, Jail!Masked, Jail!Put, Jail!Mount
<1>4. \A paths, q : JailBelow(q, paths) => Jail!Covers(Jail!Masked(paths), q)
  <2> TAKE paths, q
  <2> HAVE JailBelow(q, paths)
  <2>1. PICK x \in paths : Jail!Under(q, x)
    BY Zenon DEF JailBelow
  <2>2. <<x, Jail!Nowhere>> \in Jail!Masked(paths).pairs
    BY DEF Jail!Masked, Jail!Mount
  <2>3. <<x, Jail!Nowhere>>[1] = x
    OBVIOUS
  <2> QED
    BY <2>1, <2>2, <2>3, Zenon DEF Jail!Covers
<1>5. i \in {2, 4, 5} => m[1] = m[2] /\ (m[1] \o SubSeq(p, Len(m[2]) + 1, Len(p)) = p => ~JailBelow(p,
    Jail!AllExcluded(j.roots)))
  <2> SUFFICES ASSUME i \in {2, 4, 5} PROVE m[1] = m[2] /\ (m[1] \o SubSeq(p, Len(m[2]) + 1, Len(p)) = p =>
      ~JailBelow(p, Jail!AllExcluded(j.roots)))
    OBVIOUS
  <2>1. m[1] = m[2]
    BY <1>1, <1>2, <1>3
  <2>2. 6 \in DOMAIN M /\ 6 > i
    BY <1>1
  <2>3. ~Jail!Covers(M[6], m[1] \o SubSeq(p, Len(m[2]) + 1, Len(p)))
    BY <1>2, <2>2, Zenon
  <2> QED
    BY <1>1, <1>4, <2>1, <2>3, Zenon
<1>6. \/ i = 2 /\ m[2] \in pj_System.linux
      \/ i = 3 /\ j.roots = Jail!NoRoots /\ m[2] = Jail!Parent(pj_Snapshot)
      \/ i = 4 /\ m[2] \in Jail!Granted(j)
      \/ i = 5 /\ m[2] \in {r.path : r \in Jail!RootsOf(j.roots)}
      \/ i = 7 /\ m[2] = pj_Work
      \/ i = 8 /\ m[2] = j.helper.path
      \/ i = 9 /\ j.broker # Jail!NoBroker /\ m[2] = j.broker.at
      \/ i = 10 /\ j.broker.bundle # Jail!Nowhere /\ m[2] = j.broker.bundle
      \/ i = 11 /\ m[2] \in Jail!InterpreterGrants(j.interpreter)
  <2>1. i \in 1..11
    BY <1>1, <1>2
  <2>2. CASE i \in {1, 6}
    BY <1>1, <1>2, <1>3, <2>2
  <2>3. CASE i \in {2, 4}
    BY <1>1, <1>2, <1>3, <2>3
  <2>4. CASE i \in {3, 8, 9, 10}
    BY <1>1, <1>2, <1>3, <2>4 DEF Jail!OnlyIf
  <2>5. CASE i \in {5, 11}
    <3>1. CASE i = 5
      BY <1>1, <1>2, <1>3, <3>1, Zenon
    <3>2. CASE i = 11
      BY <1>1, <1>2, <1>3, <3>2, Zenon
    <3> QED
      BY <2>5, <3>1, <3>2
  <2>6. CASE i = 7
    <3> DEFINE w == Jail!Mount({<<<<"work">>, pj_Work>>}, TRUE)
    <3>3. w.pairs = {<<<<"work">>, pj_Work>>}
      BY <1>3, Zenon
    <3>4. M[7] = w
      BY <1>1, Zenon
    <3> HIDE DEF w
    <3>1. M[7].pairs = {<<<<"work">>, pj_Work>>}
      BY <3>3, <3>4, Zenon
    <3>2. m = <<<<"work">>, pj_Work>>
      BY <1>2, <2>6, <3>1
    <3> QED
      BY <2>6, <3>2
  <2> QED
    BY <2>1, <2>2, <2>3, <2>4, <2>5, <2>6
<1>7. i \in {2, 4} => m[2] \in there
  BY <1>1, <1>2, <1>3
<1>8. M[i].writable => i = 7
  <2>1. /\ \A paths : ~Jail!ReadOnly(paths).writable /\ ~Jail!Masked(paths).writable
        /\ \A o, paths : ~Jail!Put(o, paths).writable
    BY DEF Jail!ReadOnly, Jail!Masked, Jail!Put, Jail!Mount
  <2>2. i \in 1..11
    BY <1>1, <1>2
  <2>3. ASSUME NEW paths, M[i] = Jail!ReadOnly(paths) PROVE ~M[i].writable
    BY <2>1, <2>3, Zenon
  <2>4. ASSUME NEW paths, M[i] = Jail!Masked(paths) PROVE ~M[i].writable
    BY <2>1, <2>4, Zenon
  <2>5. ASSUME NEW o, NEW paths, M[i] = Jail!Put(o, paths) PROVE ~M[i].writable
    BY <2>1, <2>5, Zenon
  <2>6. i \in {1, 6} => ~M[i].writable
    BY <1>1, <2>4
  <2>7. i \in {2, 4, 5, 11} => ~M[i].writable
    BY <1>1, <2>3
  <2>8. i \in {3, 8, 9, 10} => ~M[i].writable
    BY <1>1, <2>5
  <2> QED
    BY <2>2, <2>6, <2>7, <2>8
<1> QED
  BY <1>2, <1>5, <1>6, <1>7, <1>8, Zenon DEF M, JailMounted

\* A jail that may be launched, and a program for which it may.
JailReady(program) ==
    /\ pj_platform \in {"macos", "linux"} /\ pj_changed \subseteq pj_Changes
    /\ JailBuilt(pj_jail, pj_platform) /\ Jail!MayLaunch(program)

\* What is read, written and executed is asked of paths, and what is installed is a file
\* of the host.
LEMMA JailPlaces ==
    /\ Jail!HostPaths \subseteq JailPaths /\ DOMAIN pj_Installed \subseteq JailPaths
    /\ DOMAIN pj_Installed \subseteq DOMAIN Jail!Files
<1>1. ASSUME NEW p \in DOMAIN pj_Installed PROVE p \in JailPaths
  <2>1. p \in Jail!Places
    BY Zenon DEF Jail!Places
  <2> QED
    BY <2>1, JailAssumed
<1>2. ASSUME NEW q \in JailPaths PROVE q \o <<"any">> \in JailPaths
  <2>1. "any" \in JailNames
    BY Zenon DEF JailNames
  <2>2. ASSUME NEW n \in JailNames PROVE q \o <<n>> \in JailPaths
    BY DEF JailPaths
  <2> QED
    BY <2>1, <2>2, Zenon
<1>3. Jail!HostPaths \subseteq JailPaths
  BY <1>1, <1>2, Zenon DEF Jail!HostPaths
<1>4. DOMAIN pj_Installed \subseteq DOMAIN Jail!Files
  BY Zenon DEF Jail!Files, Jail!After
<1> QED
  BY <1>1, <1>3, <1>4, Zenon

\* Declared directories, their paths and what is excluded from them.
LEMMA JailRootParts ==
    ASSUME NEW d, JailRoots(d)
    PROVE  /\ \A r \in Jail!RootsOf(d) : r.path \in JailPaths /\ r.excluded \subseteq JailPaths /\
                ~Jail!Overlap(pj_Work, r.path)
           /\ d = Jail!NoRoots => Jail!RootsOf(d) = {} /\ Jail!AllExcluded(d) = {}
<1>1. d # Jail!NoRoots => \A r \in Jail!RootsOf(d) : r.path \in JailPaths /\ r.excluded \subseteq JailPaths /\
    ~Jail!Overlap(pj_Work, r.path)
  BY JailAssumed, Zenon DEF JailRoots
<1>2. Jail!RootsOf(Jail!NoRoots) = {}
  BY DEF Jail!RootsOf, Jail!NoRoots, Jail!Range
<1>3. Jail!AllExcluded(Jail!NoRoots) = {}
  BY <1>2 DEF Jail!AllExcluded
<1> QED
  BY <1>1, <1>2, <1>3, Zenon

\* In a root, and below nothing that is excluded.
LEMMA JailInsideRoot ==
    ASSUME NEW d, NEW p, NEW r \in Jail!RootsOf(d), Jail!Under(p, r.path), ~JailBelow(p, Jail!AllExcluded(d))
    PROVE  Jail!Inside(d, p)
<1>1. \A x \in Jail!Excluded(r) : ~Jail!Under(p, x)
  BY Zenon DEF Jail!AllExcluded, JailBelow
<1> QED
  BY <1>1, Zenon DEF Jail!Inside

\* What the launched command is told.
LEMMA JailTells ==
    ASSUME NEW program, pj_launched = Jail!Launched(program)
    PROVE  /\ pj_launched.platform = pj_platform /\ pj_launched.arguments = Jail!Arguments(pj_jail, program)
           /\ pj_launched.environment = Jail!Environment(pj_jail)
           /\ pj_launched.rules = IF pj_platform = "macos" THEN Jail!Profile(pj_jail, program) ELSE <<>>
           /\ pj_launched.mounts = IF pj_platform = "linux" THEN Jail!Mounts(pj_jail, DOMAIN pj_Installed) ELSE <<>>
           /\ pj_launched.ceiling = IF pj_jail.helper.exact THEN pj_jail.limits.tasks + Jail!HelperTasks(pj_jail) ELSE 0
           /\ pj_launched.hard = pj_hard /\ Jail!Then(pj_launched) = Jail!Files
<1>1. pj_launched =
        [platform |-> pj_platform, arguments |-> Jail!Arguments(pj_jail, program),
            environment |-> Jail!Environment(pj_jail),
         rules |-> IF pj_platform = "macos" THEN Jail!Profile(pj_jail, program) ELSE <<>>,
         mounts |-> IF pj_platform = "linux" THEN Jail!Mounts(pj_jail, DOMAIN pj_Installed) ELSE <<>>,
         ceiling |-> IF pj_jail.helper.exact THEN pj_jail.limits.tasks + Jail!HelperTasks(pj_jail) ELSE 0,
         hard |-> pj_hard, files |-> pj_changed]
  BY Zenon DEF Jail!Launched
<1>2. pj_launched.files = pj_changed
  BY <1>1
<1>3. Jail!Then(pj_launched) = Jail!Files
  BY <1>2, Zenon DEF Jail!Then, Jail!Files
<1> QED
  BY <1>1, <1>3

\* What it runs is the first of its arguments.
LEMMA JailRunsFirst ==
    ASSUME NEW j, NEW program
    PROVE  Jail!Arguments(j, program)[1] = Jail!Executable(j, program)
<1>1. CASE j.interpreter = Jail!NoInterpreter
  BY <1>1 DEF Jail!Arguments, Jail!Executable
<1>2. CASE j.interpreter # Jail!NoInterpreter
  <2> DEFINE e == j.interpreter.executable  o == Jail!Program(j, program)
  <2>1. Jail!Arguments(j, program) = <<e>> \o Jail!Flags(j) \o <<o>> /\ Jail!Executable(j, program) = e
    BY <1>2, Zenon DEF Jail!Arguments, Jail!Executable
  <2>2. Jail!Flags(j) = <<"-I", "-S", "-B">> \/ Jail!Flags(j) = <<"-s", "-B">>
    BY Zenon DEF Jail!Flags
  <2> HIDE DEF e, o
  <2>3. (<<e>> \o <<"-I", "-S", "-B">> \o <<o>>)[1] = e /\ (<<e>> \o <<"-s", "-B">> \o <<o>>)[1] = e
    OBVIOUS
  <2>4. (<<e>> \o Jail!Flags(j) \o <<o>>)[1] = e
    BY <2>2, <2>3, Zenon
  <2> QED
    BY <2>1, <2>4, Zenon
<1> QED
  BY <1>1, <1>2

\* A pinned interpreter is root's: what runs, its images and its libraries.
LEMMA JailPinnedIsRoots ==
    ASSUME NEW program, JailReady(program), NEW i, i = pj_jail.interpreter, i # Jail!NoInterpreter
    PROVE  /\ Jail!TrustedLauncher(Jail!Files, i.executable)
           /\ \A o \in Jail!Range(i.images) : Jail!TrustedLauncher(Jail!Files, o)
           /\ \A o \in i.libraries : Jail!TrustedTree(Jail!Files, o, i.denied)
           /\ Jail!Digest(Jail!Files, <<i.executable>> \o i.images) = i.digest
<1>1. Jail!Revalidated(Jail!Files, i)
  BY Zenon DEF JailReady, Jail!MayLaunch
<1>2. \A o \in Jail!Range(i.images) : \E k \in DOMAIN i.images : o = i.images[k]
  BY Zenon DEF Jail!Range
<1> QED
  BY <1>1, <1>2, Zenon DEF Jail!Revalidated

\* Of a tree that is root's, what is met and not denied is root's.
LEMMA JailTree ==
    ASSUME pj_changed \subseteq pj_Changes, NEW o, NEW denied, Jail!TrustedTree(Jail!Files, o, denied),
           NEW p \in DOMAIN Jail!Files, Jail!Under(p, o), ~JailBelow(p, denied)
    PROVE  Jail!TrustedTreeEntry(Jail!Files[p])
<1>1. CASE p = o
  <2>1. p \in Jail!Places
    BY JailNodes
  <2>2. p \in JailPaths
    BY <2>1, JailAssumed
  <2>3. Jail!RootOnly(Jail!At(Jail!Files, p))
    BY <1>1, <2>2, JailSpelling, Zenon DEF Jail!TrustedTree
  <2>4. Jail!At(Jail!Files, p) = Jail!Files[p]
    BY Zenon DEF Jail!At
  <2> QED
    BY <2>3, <2>4, Zenon DEF Jail!RootOnly, Jail!TrustedTreeEntry
<1>2. CASE p # o
  <2>1. p \in Jail!Walked(Jail!Files, o, denied)
    BY <1>2, Zenon DEF Jail!Walked, Jail!Below, JailBelow
  <2> QED
    BY <2>1, Zenon DEF Jail!TrustedTree
<1> QED
  BY <1>1, <1>2

\* Nothing is written but the directory of the jail.
LEMMA JailWritesItsOwn ==
    ASSUME NEW program, JailReady(program), pj_launched = Jail!Launched(program), NEW p, Jail!Writes(pj_launched, p)
    PROVE  Jail!Under(p, pj_Work)
<1>1. CASE pj_platform = "macos"
  <2>1. Jail!Decides(Jail!Profile(pj_jail, program), "write", p)
    BY <1>1, JailTells, Zenon DEF Jail!Writes
  <2>3. JailAllowed(pj_jail, "write", p, Jail!Executable(pj_jail, program))
    BY <2>1, JailProfile, Zenon
  <2>2. JailBelow(p, {pj_Work})
    BY <2>3 DEF JailAllowed
  <2> QED
    BY <2>2, Zenon DEF JailBelow
<1>2. CASE pj_platform = "linux"
  <2>1. pj_launched.mounts = Jail!Mounts(pj_jail, DOMAIN pj_Installed) /\ pj_launched.platform = "linux"
    BY <1>2, JailTells
  <2>2. PICK i \in Jail!SeenBy(Jail!Mounts(pj_jail, DOMAIN pj_Installed), p) :
          Jail!Mounts(pj_jail, DOMAIN pj_Installed)[i].writable
    BY <2>1 DEF Jail!Writes
  <2>3. PICK a, b : JailMounted(pj_jail, DOMAIN pj_Installed, p, i, a, b)
    BY <2>2, JailMounts, Zenon
  <2> QED
    BY <2>2, <2>3 DEF JailMounted
<1> QED
  BY <1>1, <1>2 DEF JailReady

\* Where what is read on macOS is from.
LEMMA JailReadsByRules ==
    ASSUME NEW program, JailReady(program), pj_launched = Jail!Launched(program), pj_platform = "macos",
           NEW p, Jail!Reads(pj_launched, p)
    PROVE  JailAllowed(pj_jail, "read", p, Jail!Executable(pj_jail, program))
<1>1. Jail!Decides(Jail!Profile(pj_jail, program), "read", p)
  BY JailTells, Zenon DEF Jail!Reads
<1> QED
  BY <1>1, JailProfile, Zenon

\* What is run on macOS.
LEMMA JailRunsByRules ==
    ASSUME NEW program, JailReady(program), pj_launched = Jail!Launched(program),
           NEW p, Jail!Executes(pj_launched, p)
    PROVE  /\ pj_platform = "macos" /\ ~JailBelow(p, Jail!AllExcluded(pj_jail.roots))
           /\ pj_jail.roots = Jail!NoRoots => p = Jail!Executable(pj_jail, program)
<1>1. pj_platform = "macos"
  BY JailTells, Zenon DEF Jail!Executes
<1>2. Jail!Decides(Jail!Profile(pj_jail, program), "exec", p)
  BY <1>1, JailTells, Zenon DEF Jail!Executes
<1>6. JailAllowed(pj_jail, "exec", p, Jail!Executable(pj_jail, program))
  BY <1>2, JailProfile, Zenon
<1>3. /\ ~JailBelow(p, Jail!AllExcluded(pj_jail.roots))
      /\ \/ p = Jail!Executable(pj_jail, program)
         \/ JailBelow(p, Jail!Granted(pj_jail))
         \/ JailBelow(p, {r.path : r \in Jail!RootsOf(pj_jail.roots)})
  BY <1>6 DEF JailAllowed
<1>4. ASSUME pj_jail.roots = Jail!NoRoots PROVE Jail!Granted(pj_jail) = {} /\
    {r.path : r \in Jail!RootsOf(pj_jail.roots)} = {}
  <2>1. Jail!Granted(pj_jail) = {}
    BY <1>4, Zenon DEF Jail!Granted, Jail!OnlyIf
  <2>2. JailRoots(pj_jail.roots)
    BY Zenon DEF JailReady, JailBuilt
  <2>3. Jail!RootsOf(pj_jail.roots) = {}
    BY <1>4, <2>2, JailRootParts
  <2> QED
    BY <2>1, <2>3
<1>5. ~JailBelow(p, {})
  BY DEF JailBelow
<1> QED
  BY <1>1, <1>3, <1>4, <1>5

\* What is excluded, and what is denied, is read only where the jail grants it.
LEMMA JailHides ==
    ASSUME NEW program, JailReady(program), pj_launched = Jail!Launched(program),
           NEW p \in JailPaths, Jail!Reads(pj_launched, p),
           JailBelow(p, Jail!AllExcluded(pj_jail.roots)) \/ JailBelow(p, pj_jail.interpreter.denied)
    PROVE  \E q \in Jail!OwnGrants : Jail!Under(p, q)
<1>1. CASE pj_platform = "macos"
  <2>1. JailBelow(p, Jail!BundleDirectory(pj_jail.broker))
    BY <1>1, JailReadsByRules DEF JailAllowed
  <2> QED
    BY <1>1, <2>1, Zenon DEF Jail!OwnGrants, JailBelow
<1>2. CASE pj_platform = "linux"
  <2>1. Jail!SeenBy(Jail!Mounts(pj_jail, DOMAIN pj_Installed), p) # {}
    <3>1. pj_launched.mounts = Jail!Mounts(pj_jail, DOMAIN pj_Installed) /\ pj_launched.platform # "macos"
      BY <1>2, JailTells
    <3> QED
      BY <3>1, Zenon DEF Jail!Reads
  <2>2. JailRoots(pj_jail.roots) /\ pj_jail.interpreter.denied = {}
    BY <1>2, Zenon DEF JailReady, JailBuilt, JailFound
  <2>3. JailBelow(p, Jail!AllExcluded(pj_jail.roots))
    BY <2>2, Zenon DEF JailBelow
  <2>4. PICK i \in Jail!SeenBy(Jail!Mounts(pj_jail, DOMAIN pj_Installed), p) : TRUE
    BY <2>1
  <2>5. PICK a, b : JailMounted(pj_jail, DOMAIN pj_Installed, p, i, a, b)
    BY <2>4, JailMounts, Zenon
  <2> USE DEF JailMounted
  <2>6. i \notin {2, 4, 5}
    <3> SUFFICES ASSUME i \in {2, 4, 5} PROVE FALSE
      OBVIOUS
    <3>1. b \in JailPaths
      BY <2>2, <2>5, JailPlaces, JailRootParts
    <3>2. b \o SubSeq(p, Len(b) + 1, Len(p)) = p
      BY <2>5, <3>1, JailRest
    <3> QED
      BY <2>3, <2>5, <3>2
  <2>7. i # 3
    <3>1. Jail!AllExcluded(pj_jail.roots) # {}
      BY <2>3, Zenon DEF JailBelow
    <3>2. pj_jail.roots # Jail!NoRoots
      BY <2>2, <3>1, JailRootParts, Zenon
    <3> QED
      BY <2>5, <3>2
  <2>8. i # 7
    <3> SUFFICES ASSUME b = pj_Work PROVE FALSE
      BY <2>5
    <3>4. PICK r \in Jail!RootsOf(pj_jail.roots) : \E x \in r.excluded : Jail!Under(p, r.path \o x)
      BY <2>3, Zenon DEF JailBelow, Jail!AllExcluded, Jail!Excluded
    <3>1. PICK x \in r.excluded : Jail!Under(p, r.path \o x)
      BY <3>4
    <3>2. r.path \in JailPaths /\ x \in JailPaths /\ ~Jail!Overlap(pj_Work, r.path)
      BY <2>2, <3>1, JailRootParts
    <3>3. Jail!Under(p, r.path)
      BY <3>1, <3>2, JailUnderParts
    <3> QED
      BY <2>5, <3>2, <3>3, JailAssumed, JailOverlaps
  <2>9. b \in Jail!OwnGrants
    <3>1. Jail!OwnGrants =
            {pj_jail.helper.path} \cup Jail!OnlyIf(pj_jail.broker # Jail!NoBroker, {pj_jail.broker.at})
            \cup Jail!OnlyIf(pj_jail.broker.bundle # Jail!Nowhere, {pj_jail.broker.bundle})
            \cup Jail!InterpreterGrants(pj_jail.interpreter)
      BY <1>2 DEF Jail!OwnGrants
    <3>2. CASE i = 8
      BY <2>5, <3>1, <3>2
    <3>3. CASE i = 9
      BY <2>5, <3>1, <3>3 DEF Jail!OnlyIf
    <3>4. CASE i = 10
      BY <2>5, <3>1, <3>4 DEF Jail!OnlyIf
    <3>5. CASE i = 11
      BY <2>5, <3>1, <3>5
    <3> QED
      BY <2>5, <2>6, <2>7, <2>8, <3>2, <3>3, <3>4, <3>5
  <2> QED
    BY <2>5, <2>9
<1> QED
  BY <1>1, <1>2 DEF JailReady

\* A launcher's file that can be read, or anything that leads to it, is root's.
LEMMA JailOfALauncher ==
    ASSUME pj_changed \subseteq pj_Changes, NEW p \in DOMAIN pj_Installed, NEW q,
           Jail!TrustedLauncher(Jail!Files, q), Jail!Under(p, q)
    PROVE  Jail!TrustedTreeEntry(Jail!Files[p])
<1>1. Jail!At(Jail!Files, q).kind = "file" /\ Jail!TrustedTreeEntry(Jail!Files[q])
  BY JailTrusted
<1>2. p = q
  BY <1>1, JailLeaves
<1> QED
  BY <1>1, <1>2

\* What is in a directory of a root that was declared was handed to the jail.
LEMMA JailRootsAreHanded ==
    ASSUME JailRoots(pj_jail.roots), NEW p, JailBelow(p, {r.path : r \in Jail!RootsOf(pj_jail.roots)}),
           ~JailBelow(p, Jail!AllExcluded(pj_jail.roots))
    PROVE  Jail!Handed(p)
<1>1. PICK r \in Jail!RootsOf(pj_jail.roots) : Jail!Under(p, r.path)
  BY DEF JailBelow
<1>2. Jail!Inside(pj_jail.roots, p)
  BY <1>1, JailInsideRoot
<1>3. pj_jail.roots # Jail!NoRoots
  BY <1>1, JailRootParts
<1> QED
  BY <1>2, <1>3, Zenon DEF Jail!Handed

\* The copy of the program, its directory and that of the jail were handed to it.
LEMMA JailSnapshotIsHanded ==
    /\ Jail!Handed(pj_Snapshot)
    /\ \A p : Jail!Under(p, Jail!Parent(pj_Snapshot)) \/ Jail!Under(p, pj_Work) => Jail!Handed(p)
<1>1. Jail!Under(pj_Snapshot, Jail!Parent(pj_Snapshot))
  BY JailAssumed, JailParent
<1> QED
  BY <1>1, Zenon DEF Jail!Handed

\* What runs is root's, or was handed to the jail.
LEMMA JailRunsWhatIsKnown ==
    ASSUME NEW program, JailReady(program), NEW p \in DOMAIN pj_Installed,
           p = Jail!Executable(pj_jail, program)
    PROVE  Jail!Handed(p) \/ Jail!TrustedTreeEntry(Jail!Files[p])
<1>1. CASE pj_jail.interpreter # Jail!NoInterpreter
  <2>1. p = pj_jail.interpreter.executable
    BY <1>1, Zenon DEF Jail!Executable
  <2>2. Jail!TrustedLauncher(Jail!Files, p)
    BY <1>1, <2>1, JailPinnedIsRoots
  <2> QED
    BY <2>2, JailTrusted DEF JailReady
<1>2. CASE pj_jail.interpreter = Jail!NoInterpreter
  <2>1. p = Jail!Program(pj_jail, program)
    BY <1>2, Zenon DEF Jail!Executable
  <2>2. CASE pj_jail.roots = Jail!NoRoots
    <3>1. p = pj_Snapshot
      BY <2>1, <2>2, Zenon DEF Jail!Program
    <3> QED
      BY <3>1, JailSnapshotIsHanded
  <2>3. CASE pj_jail.roots # Jail!NoRoots
    <3>1. p = program
      BY <2>1, <2>3, Zenon DEF Jail!Program
    <3>2. Jail!Admits(pj_jail.roots, p)
      BY <2>3, <3>1, Zenon DEF JailReady, Jail!MayLaunch
    <3>3. Jail!Inside(pj_jail.roots, p)
      BY <3>2, Zenon DEF Jail!Admits, Jail!Inside
    <3> QED
      BY <2>3, <3>3, Zenon DEF Jail!Handed
  <2> QED
    BY <2>2, <2>3
<1> QED
  BY <1>1, <1>2

\* What the profile lets a command read is of the system, handed to it, or root's.
LEMMA JailReadsOnMacos ==
    ASSUME NEW program, JailReady(program), pj_launched = Jail!Launched(program), pj_platform = "macos",
           NEW p \in DOMAIN pj_Installed, Jail!Reads(pj_launched, p)
    PROVE  Jail!OfTheSystem(p) \/ Jail!Handed(p) \/ Jail!TrustedTreeEntry(Jail!Files[p])
<1> DEFINE i == pj_jail.interpreter
<1>0. pj_changed \subseteq pj_Changes /\ JailRoots(pj_jail.roots) /\ p \in DOMAIN Jail!Files
  BY JailPlaces, Zenon DEF JailReady, JailBuilt
<1>1. JailAllowed(pj_jail, "read", p, Jail!Executable(pj_jail, program))
  BY JailReadsByRules
<1>2. pj_System[pj_platform] = pj_System.macos
  OBVIOUS
<1>3. \A paths : JailBelow(p, paths) /\ paths \subseteq pj_System.macos \cup Jail!Programmes \cup
    Jail!BundleDirectory(pj_jail.broker)
        => Jail!OfTheSystem(p)
  BY <1>2, Zenon DEF Jail!OfTheSystem, JailBelow
<1>4. CASE JailBelow(p, Jail!BundleDirectory(pj_jail.broker))
  BY <1>3, <1>4
<1>5. CASE p = Jail!Executable(pj_jail, program)
  BY <1>5, JailRunsWhatIsKnown
<1>6. CASE JailBelow(p, pj_System.macos \cup Jail!OnlyIf(pj_jail.roots = Jail!NoRoots, {Jail!Parent(pj_Snapshot)}))
  <2>1. JailBelow(p, pj_System.macos) \/ JailBelow(p, Jail!OnlyIf(pj_jail.roots = Jail!NoRoots,
      {Jail!Parent(pj_Snapshot)}))
    BY <1>6 DEF JailBelow
  <2>2. JailBelow(p, Jail!OnlyIf(pj_jail.roots = Jail!NoRoots, {Jail!Parent(pj_Snapshot)})) => Jail!Under(p,
      Jail!Parent(pj_Snapshot))
    BY Zenon DEF JailBelow, Jail!OnlyIf
  <2> QED
    BY <1>3, <2>1, <2>2, JailSnapshotIsHanded
<1>7. CASE JailBelow(p, {pj_Work})
  BY <1>7, JailSnapshotIsHanded, Zenon DEF JailBelow
<1>8. CASE p \in Jail!OnlyIf(pj_jail.roots = Jail!NoRoots /\ i # Jail!NoInterpreter, {pj_Snapshot})
  BY <1>8, JailSnapshotIsHanded, Zenon DEF Jail!OnlyIf
<1>9. CASE p \in Jail!Range(i.images)
  <2>1. i # Jail!NoInterpreter
    BY <1>9 DEF Jail!NoInterpreter, Jail!Range
  <2>2. Jail!TrustedLauncher(Jail!Files, p)
    BY <1>9, <2>1, JailPinnedIsRoots
  <2> QED
    BY <1>0, <2>2, JailTrusted
<1>10. CASE JailBelow(p, i.libraries) /\ ~JailBelow(p, i.denied)
  <2>1. PICK o \in i.libraries : Jail!Under(p, o)
    BY <1>10, Zenon DEF JailBelow
  <2>2. i # Jail!NoInterpreter
    BY <2>1 DEF Jail!NoInterpreter
  <2>3. Jail!TrustedTree(Jail!Files, o, i.denied)
    BY <2>1, <2>2, JailPinnedIsRoots
  <2> QED
    BY <1>0, <1>10, <2>1, <2>3, JailTree
<1>11. CASE JailBelow(p, Jail!Granted(pj_jail))
  <2>1. Jail!Granted(pj_jail) \subseteq Jail!Programmes
    BY Zenon DEF Jail!Granted, Jail!OnlyIf
  <2> QED
    BY <1>3, <1>11, <2>1
<1>12. CASE JailBelow(p, {r.path : r \in Jail!RootsOf(pj_jail.roots)}) /\ ~JailBelow(p, Jail!AllExcluded(pj_jail.roots))
  BY <1>0, <1>12, JailRootsAreHanded
<1> HIDE DEF i
<1>13. \/ JailBelow(p, Jail!BundleDirectory(pj_jail.broker))
       \/ p = Jail!Executable(pj_jail, program)
       \/ JailBelow(p, pj_System.macos \cup Jail!OnlyIf(pj_jail.roots = Jail!NoRoots, {Jail!Parent(pj_Snapshot)}))
       \/ JailBelow(p, {pj_Work})
       \/ p \in Jail!OnlyIf(pj_jail.roots = Jail!NoRoots /\ i # Jail!NoInterpreter, {pj_Snapshot})
       \/ p \in Jail!Range(i.images)
       \/ JailBelow(p, i.libraries) /\ ~JailBelow(p, i.denied)
       \/ JailBelow(p, Jail!Granted(pj_jail))
       \/ JailBelow(p, {r.path : r \in Jail!RootsOf(pj_jail.roots)}) /\ ~JailBelow(p, Jail!AllExcluded(pj_jail.roots))
  BY <1>1 DEF JailAllowed, i
<1> QED
  BY <1>4, <1>5, <1>6, <1>7, <1>8, <1>9, <1>10, <1>11, <1>12, <1>13, Zenon

\* What is mounted for a command is of the system, handed to it, or root's.
LEMMA JailReadsOnLinux ==
    ASSUME NEW program, JailReady(program), pj_launched = Jail!Launched(program), pj_platform = "linux",
           NEW p \in DOMAIN pj_Installed, Jail!Reads(pj_launched, p)
    PROVE  Jail!OfTheSystem(p) \/ Jail!Handed(p) \/ Jail!TrustedTreeEntry(Jail!Files[p])
<1> DEFINE n == pj_jail.interpreter
<1>0. /\ pj_changed \subseteq pj_Changes /\ JailRoots(pj_jail.roots) /\ p \in DOMAIN Jail!Files /\ p \in JailPaths
      /\ JailFound(n, "linux") /\ Jail!HelperStands(pj_jail)
  BY JailPlaces, Zenon DEF JailReady, JailBuilt, Jail!MayLaunch
<1>1. Jail!SeenBy(Jail!Mounts(pj_jail, DOMAIN pj_Installed), p) # {}
  <2>1. pj_launched.mounts = Jail!Mounts(pj_jail, DOMAIN pj_Installed) /\ pj_launched.platform # "macos"
    BY JailTells
  <2> QED
    BY <2>1, Zenon DEF Jail!Reads
<1>2. PICK i \in Jail!SeenBy(Jail!Mounts(pj_jail, DOMAIN pj_Installed), p) : TRUE
  BY <1>1
<1>3. PICK a, b : JailMounted(pj_jail, DOMAIN pj_Installed, p, i, a, b)
  BY <1>2, JailMounts, Zenon
<1>4. Jail!Under(p, b)
  BY <1>3, Zenon DEF JailMounted
<1>5. pj_System[pj_platform] = pj_System.linux
  OBVIOUS
<1>6. b \in pj_System.linux \cup Jail!Programmes => Jail!OfTheSystem(p)
  BY <1>4, <1>5, Zenon DEF Jail!OfTheSystem
<1>7. CASE i = 2 /\ b \in pj_System.linux
  BY <1>6, <1>7
<1>8. CASE b = Jail!Parent(pj_Snapshot) \/ b = pj_Work
  BY <1>4, <1>8, JailSnapshotIsHanded
<1>9. CASE i = 4 /\ b \in Jail!Granted(pj_jail)
  <2>1. Jail!Granted(pj_jail) \subseteq Jail!Programmes
    BY Zenon DEF Jail!Granted, Jail!OnlyIf
  <2> QED
    BY <1>6, <1>9, <2>1
<1>10. CASE i = 5 /\ b \in {r.path : r \in Jail!RootsOf(pj_jail.roots)}
  <2>1. b \in JailPaths
    BY <1>0, <1>10, JailRootParts
  <2>2. b \o SubSeq(p, Len(b) + 1, Len(p)) = p
    BY <1>0, <1>4, <2>1, JailRest
  <2>3. ~JailBelow(p, Jail!AllExcluded(pj_jail.roots))
    BY <1>3, <1>10, <2>2 DEF JailMounted
  <2>4. JailBelow(p, {r.path : r \in Jail!RootsOf(pj_jail.roots)})
    BY <1>4, <1>10, Zenon DEF JailBelow
  <2> QED
    BY <1>0, <2>3, <2>4, JailRootsAreHanded
<1>11. CASE b = pj_jail.helper.path
  <2>1. Jail!TrustedLauncher(Jail!Files, b)
    BY <1>0, <1>11, Zenon DEF Jail!HelperStands
  <2> QED
    BY <1>0, <1>4, <2>1, JailOfALauncher
<1>12. CASE pj_jail.broker # Jail!NoBroker /\ b = pj_jail.broker.at
  <2>1. Jail!At(Jail!Files, b).kind = "socket"
    BY <1>0, <1>12, Zenon DEF Jail!HelperStands, Jail!BrokerSocket
  <2>2. p = b
    BY <1>0, <1>4, <2>1, JailLeaves
  <2> QED
    BY <1>12, <2>2, Zenon DEF Jail!Handed
<1>13. CASE pj_jail.broker.bundle # Jail!Nowhere /\ b = pj_jail.broker.bundle
  <2>1. pj_jail.broker # Jail!NoBroker
    BY <1>13 DEF Jail!NoBroker
  <2>2. Jail!TrustedLauncher(Jail!Files, b)
    BY <1>0, <1>13, <2>1, Zenon DEF Jail!HelperStands
  <2> QED
    BY <1>0, <1>4, <2>2, JailOfALauncher
<1>14. CASE b \in Jail!InterpreterGrants(n)
  <2>1. n # Jail!NoInterpreter /\ b \in {n.executable} \cup Jail!Range(n.images) \cup n.libraries
    BY <1>14, Zenon DEF Jail!InterpreterGrants, Jail!OnlyIf
  <2>2. CASE b \in {n.executable} \cup Jail!Range(n.images)
    <3>1. Jail!TrustedLauncher(Jail!Files, b)
      BY <2>1, <2>2, JailPinnedIsRoots
    <3> QED
      BY <1>0, <1>4, <3>1, JailOfALauncher
  <2>3. CASE b \in n.libraries
    <3>1. Jail!TrustedTree(Jail!Files, b, n.denied)
      BY <2>1, <2>3, JailPinnedIsRoots
    <3>2. ~JailBelow(p, n.denied)
      BY <1>0 DEF JailFound, JailBelow
    <3> QED
      BY <1>0, <1>4, <3>1, <3>2, JailTree
  <2> QED
    BY <2>1, <2>2, <2>3
<1> HIDE DEF n
<1>15. \/ i = 2 /\ b \in pj_System.linux
       \/ b = Jail!Parent(pj_Snapshot) \/ b = pj_Work
       \/ i = 4 /\ b \in Jail!Granted(pj_jail)
       \/ i = 5 /\ b \in {r.path : r \in Jail!RootsOf(pj_jail.roots)}
       \/ b = pj_jail.helper.path
       \/ pj_jail.broker # Jail!NoBroker /\ b = pj_jail.broker.at
       \/ pj_jail.broker.bundle # Jail!Nowhere /\ b = pj_jail.broker.bundle
       \/ b \in Jail!InterpreterGrants(n)
  BY <1>3, Zenon DEF JailMounted, n
<1> QED
  BY <1>7, <1>8, <1>9, <1>10, <1>11, <1>12, <1>13, <1>14, <1>15, Zenon

\* The variables that a command is given, and who gives them.
LEMMA JailVariables ==
    ASSUME NEW j
    PROVE  LET e == Jail!Environment(j) IN
           /\ j.broker # Jail!NoBroker => \A v \in Jail!Proxies \cup Jail!NoProxies : e[v] = "jail"
           /\ Jail!Certificates \in DOMAIN e <=> j.broker.bundle # Jail!Nowhere
           /\ DOMAIN e \cap Jail!Loader = {}
           /\ \A v \in DOMAIN e : e[v] = "jail" =>
                \/ v \in Jail!Home \/ v \in Jail!RootsOverlay(j)
                \/ j.broker # Jail!NoBroker /\ v \in Jail!Proxies \cup Jail!NoProxies
                \/ v = Jail!Certificates /\ j.broker.bundle # Jail!Nowhere
<1> DEFINE e == Jail!Environment(j)
           fixed == Jail!Home \cup Jail!RootsOverlay(j) \cup (IF j.broker =
               Jail!NoBroker THEN {} ELSE Jail!Proxies \cup Jail!NoProxies)
           bundle == j.broker.bundle # Jail!Nowhere
           names == (((pj_Contract \cup fixed) \ Jail!Loader) \ {Jail!Certificates}) \cup
               (IF bundle THEN {Jail!Certificates} ELSE {})
<1>1. e = [v \in names |-> IF v \in fixed \/ v = Jail!Certificates THEN "jail" ELSE "contract"]
  BY Zenon DEF Jail!Environment
<1>2. DOMAIN e = names /\ \A v \in names : e[v] = "jail" <=> v \in fixed \/ v = Jail!Certificates
  BY <1>1
<1>3. /\ Jail!Certificates \notin Jail!Loader
      /\ \A v \in Jail!Proxies \cup Jail!NoProxies : v \notin Jail!Loader /\ v # Jail!Certificates
  BY DEF Jail!Certificates, Jail!Loader, Jail!Proxies, Jail!NoProxies
<1> HIDE DEF e
<1>4. ASSUME j.broker # Jail!NoBroker, NEW v \in Jail!Proxies \cup Jail!NoProxies PROVE e[v] = "jail"
  <2>1. v \in fixed
    BY <1>4
  <2>2. v \in names
    BY <1>3, <2>1
  <2> QED
    BY <1>2, <2>1, <2>2
<1>5. Jail!Certificates \in DOMAIN e <=> bundle
  BY <1>2
<1>6. DOMAIN e \cap Jail!Loader = {}
  BY <1>2, <1>3
<1>7. ASSUME NEW v \in DOMAIN e, e[v] = "jail"
      PROVE  \/ v \in Jail!Home \/ v \in Jail!RootsOverlay(j)
             \/ j.broker # Jail!NoBroker /\ v \in Jail!Proxies \cup Jail!NoProxies
             \/ v = Jail!Certificates /\ bundle
  BY <1>2, <1>5, <1>7
<1> QED
  BY <1>4, <1>5, <1>6, <1>7, Zenon DEF e

\* A limit of tasks that is called exact was set by a helper that stands.
LEMMA JailCeiling ==
    ASSUME JailShapes, NEW program, JailReady(program), pj_launched = Jail!Launched(program), pj_jail.helper.exact
    PROVE  pj_launched.ceiling \in (pj_jail.limits.tasks + 1)..pj_launched.hard
<1>1. pj_platform = "linux"
  BY DEF JailReady, JailBuilt, Jail!NoHelper
<1>2. pj_hard >= pj_jail.limits.tasks + Jail!HelperTasks(pj_jail)
  BY <1>1, Zenon DEF JailReady, Jail!MayLaunch, Jail!HelperStands
<1>3. pj_launched.ceiling = pj_jail.limits.tasks + Jail!HelperTasks(pj_jail) /\ pj_launched.hard = pj_hard
  BY JailTells
<1>4. pj_hard \in Nat /\ pj_jail.limits.tasks \in Nat
  BY Zenon DEF JailReady, JailBuilt, JailShapes
<1>5. Jail!HelperTasks(pj_jail) \in {1, 2}
  BY Zenon DEF Jail!HelperTasks
<1> QED
  BY <1>2, <1>3, <1>4, <1>5

\* Behind a launch there is a program for which the jail could be launched.
LEMMA JailIsLaunched ==
    ASSUME JailInv, pj_launched # Jail!Nothing
    PROVE  \E program \in pj_Programs : JailReady(program) /\ pj_launched = Jail!Launched(program)
<1>1. PICK program \in pj_Programs : Jail!MayLaunch(program) /\ pj_launched = Jail!Launched(program)
  BY Zenon DEF JailInv, JailLaunched
<1>2. pj_jail # Jail!NoJail
  BY <1>1, Zenon DEF Jail!MayLaunch
<1>3. JailReady(program)
  BY <1>1, <1>2, Zenon DEF JailInv, JailShapes, JailReady
<1> QED
  BY <1>1, <1>3

\* What the jail says of itself.
LEMMA JailAudits ==
    ASSUME NEW j
    PROVE  LET audit == Jail!Audit(j) IN
           /\ audit.process_ceiling = j.helper.exact /\ audit.helper = j.helper.digest
           /\ audit.exact_executable_snapshot <=> j.roots = Jail!NoRoots
           /\ audit.interpreter = j.interpreter.digest
           /\ audit.script_exec_denied <=> j.interpreter # Jail!NoInterpreter /\ j.platform = "macos" /\ j.roots =
                Jail!NoRoots
           /\ audit.site_packages_read_denied <=> j.interpreter.denied # {}
           /\ audit.excluded_read_denied <=> j.roots # Jail!NoRoots
           /\ audit.trust_bundle_exposed <=> j.broker.bundle # Jail!Nowhere
           /\ audit.brokered <=> j.broker # Jail!NoBroker
BY DEF Jail!Audit

\* A launch is what the jail says of itself (LaunchKeepsTheAudit): guarantees,
\* interpreter_audit, exec_roots_audit and egress_audit.
LEMMA JailKeepsAudit == JailInv => Jail!LaunchKeepsTheAudit
<1> SUFFICES ASSUME JailInv, pj_launched # Jail!Nothing PROVE Jail!LaunchKeepsTheAudit
  BY Zenon DEF Jail!LaunchKeepsTheAudit
<1>0. PICK program \in pj_Programs : JailReady(program) /\ pj_launched = Jail!Launched(program)
  BY JailIsLaunched
<1> DEFINE audit == Jail!Audit(pj_jail)
           l == pj_launched
           readable == {p \in Jail!HostPaths : Jail!Reads(l, p)}
           executable == {p \in Jail!HostPaths : Jail!Executes(l, p)}
           Hidden(paths) == \A p \in readable, x \in paths : Jail!Under(p, x) =>
               \E q \in Jail!OwnGrants : Jail!Under(p, q)
<1>a. /\ audit.process_ceiling = pj_jail.helper.exact /\ audit.helper = pj_jail.helper.digest
      /\ audit.exact_executable_snapshot <=> pj_jail.roots = Jail!NoRoots
      /\ audit.interpreter = pj_jail.interpreter.digest
      /\ audit.script_exec_denied => pj_jail.interpreter # Jail!NoInterpreter /\ pj_jail.roots = Jail!NoRoots
      /\ audit.trust_bundle_exposed <=> pj_jail.broker.bundle # Jail!Nowhere
      /\ audit.brokered <=> pj_jail.broker # Jail!NoBroker
  BY JailAudits, Zenon
<1> HIDE DEF audit
<1>b. l.arguments[1] = Jail!Executable(pj_jail, program)
  BY <1>0, JailTells, JailRunsFirst
<1>1. \A p \in Jail!HostPaths : Jail!Writes(l, p) => Jail!Under(p, pj_Work)
  BY <1>0, JailWritesItsOwn
<1>2. \A p \in readable \cap DOMAIN pj_Installed :
        Jail!OfTheSystem(p) \/ Jail!Handed(p) \/ Jail!TrustedTreeEntry(Jail!Then(l)[p])
  <2> SUFFICES ASSUME NEW p \in DOMAIN pj_Installed, Jail!Reads(l, p)
               PROVE  Jail!OfTheSystem(p) \/ Jail!Handed(p) \/ Jail!TrustedTreeEntry(Jail!Then(l)[p])
    BY Zenon
  <2>1. Jail!Then(l) = Jail!Files
    BY <1>0, JailTells
  <2>2. pj_platform \in {"macos", "linux"}
    BY <1>0 DEF JailReady
  <2> QED
    BY <1>0, <2>1, <2>2, JailReadsOnMacos, JailReadsOnLinux
<1>3. audit.exact_executable_snapshot => executable \subseteq {l.arguments[1]}
  BY <1>0, <1>a, <1>b, JailRunsByRules
<1>4. \A paths : (\A p : JailBelow(p, paths) => JailBelow(p, Jail!AllExcluded(pj_jail.roots)) \/ JailBelow(p,
    pj_jail.interpreter.denied))
        => Hidden(paths)
  <2> SUFFICES ASSUME NEW paths, NEW p \in readable, NEW x \in paths, Jail!Under(p, x),
                      \A o : JailBelow(o, paths) => JailBelow(o, Jail!AllExcluded(pj_jail.roots)) \/ JailBelow(o,
                          pj_jail.interpreter.denied)
               PROVE  \E q \in Jail!OwnGrants : Jail!Under(p, q)
    BY Zenon
  <2>1. JailBelow(p, paths)
    BY Zenon DEF JailBelow
  <2>2. p \in JailPaths /\ Jail!Reads(pj_launched, p)
    BY JailPlaces
  <2> QED
    BY <1>0, <2>1, <2>2, JailHides
<1>5. Hidden(Jail!AllExcluded(pj_jail.roots)) /\ Hidden(pj_jail.interpreter.denied)
  BY <1>4, Zenon
<1>6. \A p \in executable, x \in Jail!AllExcluded(pj_jail.roots) : ~Jail!Under(p, x)
  BY <1>0, JailRunsByRules, Zenon DEF JailBelow
<1>7. audit.script_exec_denied => pj_Snapshot \notin executable
  <2> SUFFICES ASSUME audit.script_exec_denied, Jail!Executes(l, pj_Snapshot) PROVE FALSE
    BY Zenon
  <2>1. pj_Snapshot = Jail!Executable(pj_jail, program)
    BY <1>0, <1>a, JailRunsByRules
  <2>2. pj_Snapshot = pj_jail.interpreter.executable
    BY <1>a, <2>1, Zenon DEF Jail!Executable
  <2>3. Jail!TrustedLauncher(Jail!Files, pj_Snapshot)
    BY <1>0, <1>a, <2>2, JailPinnedIsRoots
  <2> QED
    BY <1>0, <2>3, JailTrusted DEF JailReady
<1>8. pj_jail.interpreter # Jail!NoInterpreter =>
        Jail!Digest(Jail!Then(l), <<l.arguments[1]>> \o pj_jail.interpreter.images) = audit.interpreter
  <2> SUFFICES ASSUME pj_jail.interpreter # Jail!NoInterpreter
               PROVE  Jail!Digest(Jail!Then(l), <<l.arguments[1]>> \o pj_jail.interpreter.images) = audit.interpreter
    OBVIOUS
  <2>1. l.arguments[1] = pj_jail.interpreter.executable
    BY <1>b, Zenon DEF Jail!Executable
  <2>2. Jail!Then(l) = Jail!Files
    BY <1>0, JailTells
  <2>3. Jail!Digest(Jail!Files, <<pj_jail.interpreter.executable>> \o pj_jail.interpreter.images) =
      pj_jail.interpreter.digest
    BY <1>0, JailPinnedIsRoots
  <2> QED
    BY <1>a, <2>1, <2>2, <2>3, Zenon
<1>9. audit.process_ceiling => l.ceiling \in (pj_jail.limits.tasks + 1)..l.hard
  BY <1>0, <1>a, JailCeiling DEF JailInv
<1>10. l.environment = Jail!Environment(pj_jail)
  BY <1>0, JailTells
<1>11. /\ audit.brokered => \A v \in Jail!Proxies \cup Jail!NoProxies : l.environment[v] = "jail"
       /\ Jail!Certificates \in DOMAIN l.environment <=> audit.trust_bundle_exposed
       /\ DOMAIN l.environment \cap Jail!Loader = {}
  BY <1>a, <1>10, JailVariables, Zenon
<1>12. pj_platform = "linux" =>
         \/ Jail!At(Jail!Then(l), pj_jail.helper.path).bytes = audit.helper
         \/ pj_jail.helper.seen # pj_jail.helper.id
  <2> DEFINE o == pj_jail.helper.path
             node == Jail!At(Jail!Files, o)
  <2> SUFFICES ASSUME pj_platform = "linux", pj_jail.helper.seen = pj_jail.helper.id
               PROVE  Jail!At(Jail!Then(l), o).bytes = audit.helper
    OBVIOUS
  <2>1. Jail!TrustedLauncher(Jail!Files, o) /\ node.id = pj_jail.helper.id
    BY <1>0, Zenon DEF JailReady, Jail!MayLaunch, Jail!HelperStands
  <2>2. node.kind = "file"
    BY <2>1, Zenon DEF Jail!TrustedLauncher, Jail!RealFile
  <2>3. o \in Jail!Places /\ node \in Jail!NodesAt(o)
    BY <2>2, JailNodes DEF JailInv, JailShapes
  <2>4. JailDigested(pj_jail.helper, pj_platform)
    BY <1>0, Zenon DEF JailReady, Jail!MayLaunch, JailInv, JailShapes
  <2>5. PICK was \in Jail!NodesAt(o) :
           was.kind = "file" /\ was.id = pj_jail.helper.seen /\ was.bytes = pj_jail.helper.digest
    BY <2>4, Zenon DEF JailDigested
  <2> HIDE DEF node
  <2>6. node.id = was.id
    BY <2>1, <2>5
  <2>7. node.bytes = was.bytes
    BY <2>2, <2>3, <2>5, <2>6, JailAssumed, Zenon
  <2>8. Jail!Then(l) = Jail!Files
    BY <1>0, JailTells
  <2> QED
    BY <1>a, <2>5, <2>7, <2>8, Zenon DEF node
<1> QED
  BY <1>1, <1>2, <1>3, <1>5, <1>6, <1>7, <1>8, <1>9, <1>11, <1>12, Zenon DEF Jail!LaunchKeepsTheAudit, audit

\* What stands in a lock for the interpreter and the broker of a jail.
JailLockedInterpreter(j) ==
    IF j.interpreter = Jail!NoInterpreter THEN Jail!NoInterpreter
    ELSE [j.interpreter EXCEPT !.executable = Jail!Placeholder("interpreter"),
             !.images = IF j.platform = "macos" THEN <<Jail!Placeholder("image")>> ELSE <<>>,
             !.libraries = {Jail!Placeholder("library")},
             !.denied = IF j.platform = "macos" THEN {Jail!Placeholder("site")} ELSE {}]
JailLockedBroker(b) ==
    IF b = Jail!NoBroker THEN Jail!NoBroker
    ELSE [b EXCEPT !.at = Jail!Placeholder("socket"), !.bundle = Jail!Placeholder("bundle") \o <<"file">>]

\* The parts of a template.
LEMMA JailTemplate ==
    ASSUME NEW j, NEW host, JailBuilt(j, host), NEW t, t = Jail!Unmeasured(j)
    PROVE  /\ t.roots = j.roots /\ t.helper.path = Jail!Placeholder("helper")
           /\ t.broker = JailLockedBroker(j.broker) /\ t.interpreter = JailLockedInterpreter(j)
<1>1. j = [platform |-> host, limits |-> j.limits, broker |-> j.broker, interpreter |-> j.interpreter,
            roots |-> j.roots, launcher |-> j.launcher, helper |-> j.helper]
  BY DEF JailBuilt
<1>2. j.helper = [path |-> j.helper.path, digest |-> j.helper.digest, seen |-> j.helper.seen, id |-> j.helper.id,
                  exact |-> j.helper.exact]
  BY DEF JailBuilt
<1> DEFINE p == Jail!Placeholder("helper")  b == JailLockedBroker(j.broker)  n == JailLockedInterpreter(j)
           w == [j.helper EXCEPT !.path = p]
<1>3. w.path = p
  BY <1>2
<1>4. t = [[[j EXCEPT !.helper = w] EXCEPT !.broker = b] EXCEPT !.interpreter = n]
  BY <1>1 DEF Jail!Unmeasured, JailLockedBroker, JailLockedInterpreter
<1> HIDE DEF p, b, n, w
<1> DEFINE l == j.limits  e == j.broker  i == j.interpreter  d == j.roots  m == j.launcher  h == j.helper
<1>5. j = [platform |-> host, limits |-> l, broker |-> e, interpreter |-> i, roots |-> d, launcher |-> m, helper |-> h]
  BY <1>1
<1> HIDE DEF l, e, i, d, m, h
<1>6. t = [platform |-> host, limits |-> l, broker |-> b, interpreter |-> n, roots |-> d, launcher |-> m, helper |-> w]
  BY <1>4, <1>5
<1>7. t.roots = d /\ t.helper = w /\ t.broker = b /\ t.interpreter = n
  BY <1>6
<1> QED
  BY <1>3, <1>7 DEF d, p, b, n

\* What stands in a template is a placeholder.
JailPlaceheld(p) == Jail!Under(p, <<"placeholder">>)

\* Placeholders are under one path, and are neither a path of the host nor none.
LEMMA JailPlaceholders ==
    /\ \A n : JailPlaceheld(Jail!Placeholder(n)) /\ JailPlaceheld(Jail!Placeholder(n) \o <<"file">>)
    /\ \A n : Jail!Placeholder(n) # <<>> /\ Jail!Placeholder(n) \o <<"file">> # Jail!Nowhere
    /\ \A n : Jail!Parent(Jail!Placeholder(n) \o <<"file">>) = Jail!Placeholder(n)
<1>1. ASSUME NEW a, NEW n, NEW o
      PROVE  /\ Jail!IsPrefix(<<a>>, <<a, n>>) /\ Jail!IsPrefix(<<a>>, <<a, n, o>>)
             /\ <<a, n>> \o <<o>> = <<a, n, o>> /\ Jail!Front(<<a, n, o>>) = <<a, n>>
  <2> DEFINE S == {a, n, o}  w == <<a>>  x == <<a, n>>  y == <<a, n, o>>  z == <<o>>
  <2>1. /\ w \in Seq(S) /\ x \in Seq(S) /\ y \in Seq(S) /\ z \in Seq(S)
        /\ Len(w) = 1 /\ Len(x) = 2 /\ Len(y) = 3 /\ Len(z) = 1
        /\ w[1] = a /\ x[1] = a /\ x[2] = n /\ y[1] = a /\ y[2] = n /\ y[3] = o /\ z[1] = o
    OBVIOUS
  <2> HIDE DEF S, w, x, y, z
  <2>2. SubSeq(w, 1, 1) = SubSeq(x, 1, 1) /\ SubSeq(w, 1, 1) = SubSeq(y, 1, 1)
    BY <2>1
  <2>3. x \o z = y
    <3>3. \A k \in 1..Len(x) + Len(z) : (x \o z)[k] = IF k <= Len(x) THEN x[k] ELSE z[k - Len(x)]
      BY <2>1, ConcatProperties
    <3>4. (x \o z)[1] = x[1] /\ (x \o z)[2] = x[2] /\ (x \o z)[3] = z[1]
      <4>1. 1 \in 1..Len(x) + Len(z) /\ 2 \in 1..Len(x) + Len(z) /\ 3 \in 1..Len(x) + Len(z) /\ 3 - Len(x) = 1
        BY <2>1
      <4>2. 1 <= Len(x) /\ 2 <= Len(x) /\ ~(3 <= Len(x))
        BY <2>1
      <4>3. (x \o z)[1] = x[1]
        BY <3>3, <4>1, <4>2, Zenon
      <4>4. (x \o z)[2] = x[2]
        BY <3>3, <4>1, <4>2, Zenon
      <4>5. (x \o z)[3] = z[1]
        BY <3>3, <4>1, <4>2, Zenon
      <4> QED
        BY <4>3, <4>4, <4>5
    <3>5. x \o z \in Seq(S) /\ Len(x \o z) = Len(x) + Len(z)
      BY <2>1, ConcatProperties
    <3>1. x \o z \in Seq(S) /\ Len(x \o z) = 3 /\ (x \o z)[1] = a /\ (x \o z)[2] = n /\ (x \o z)[3] = o
      BY <2>1, <3>4, <3>5
    <3>2. \A k \in 1..3 : (x \o z)[k] = y[k]
      BY <2>1, <3>1
    <3> QED
      BY <2>1, <3>1, <3>2, SeqEqual
  <2>4. SubSeq(y, 1, 2) = x
    <3>1. SubSeq(y, 1, 2) \in Seq(S) /\ Len(SubSeq(y, 1, 2)) = 2 /\ \A k \in 1..2 : SubSeq(y, 1, 2)[k] = y[k]
      BY <2>1
    <3>2. \A k \in 1..2 : SubSeq(y, 1, 2)[k] = x[k]
      BY <2>1, <3>1
    <3> QED
      BY <2>1, <3>1, <3>2, SeqEqual
  <2>5. Jail!IsPrefix(w, x) /\ Jail!IsPrefix(w, y)
    BY <2>1, <2>2 DEF Jail!IsPrefix
  <2>6. Jail!Front(y) = x
    BY <2>1, <2>4 DEF Jail!Front
  <2> QED
    BY <2>3, <2>5, <2>6, Zenon DEF w, x, y, z
<1>2. \A n : Jail!Placeholder(n) = <<"placeholder", n>>
  BY Zenon DEF Jail!Placeholder
<1>3. \A n : Jail!Placeholder(n) # <<>> /\ Jail!Placeholder(n) \o <<"file">> # Jail!Nowhere
  BY <1>2 DEF Jail!Nowhere
<1> QED
  BY <1>1, <1>2, <1>3, Zenon DEF JailPlaceheld, Jail!Under, Jail!Parent

\* Of an interpreter and a broker, a template has placeholders only.
LEMMA JailLockedParts ==
    ASSUME NEW j, NEW host, JailBuilt(j, host), NEW n, n = JailLockedInterpreter(j), NEW b, b =
        JailLockedBroker(j.broker)
    PROVE  /\ n = Jail!NoInterpreter <=> j.interpreter = Jail!NoInterpreter
           /\ n # Jail!NoInterpreter => JailPlaceheld(n.executable)
           /\ \A p \in Jail!Range(n.images) : JailPlaceheld(p)
           /\ \A p \in n.libraries : JailPlaceheld(p)
           /\ \A p \in n.denied : JailPlaceheld(p)
           /\ b # Jail!NoBroker => JailPlaceheld(b.at)
           /\ b.bundle # Jail!Nowhere => JailPlaceheld(b.bundle)
           /\ \A p \in Jail!BundleDirectory(b) : JailPlaceheld(p)
<1> DEFINE i == j.interpreter  e == j.broker
<1>1. /\ i = [platform |-> i.platform, version |-> i.version, executable |-> i.executable, images |-> i.images,
              libraries |-> i.libraries, denied |-> i.denied, digest |-> i.digest]
      /\ e = [kind |-> e.kind, at |-> e.at, bundle |-> e.bundle]
  BY Zenon DEF JailBuilt, JailFound
<1>2. /\ (n = Jail!NoInterpreter <=> i = Jail!NoInterpreter)
      /\ n # Jail!NoInterpreter => JailPlaceheld(n.executable)
      /\ \A p \in Jail!Range(n.images) : JailPlaceheld(p)
      /\ \A p \in n.libraries : JailPlaceheld(p)
      /\ \A p \in n.denied : JailPlaceheld(p)
  <2>1. CASE i = Jail!NoInterpreter
    <3>1. n = Jail!NoInterpreter
      BY <2>1, Zenon DEF JailLockedInterpreter
    <3>2. Jail!Range(n.images) = {} /\ n.libraries = {} /\ n.denied = {}
      BY <3>1 DEF Jail!NoInterpreter, Jail!Range
    <3> QED
      BY <2>1, <3>1, <3>2
  <2>2. CASE i # Jail!NoInterpreter
    <3> DEFINE x == Jail!Placeholder("interpreter")
               m == IF j.platform = "macos" THEN <<Jail!Placeholder("image")>> ELSE <<>>
               y == {Jail!Placeholder("library")}
               s == IF j.platform = "macos" THEN {Jail!Placeholder("site")} ELSE {}
    <3>1. n = [i EXCEPT !.executable = x, !.images = m, !.libraries = y, !.denied = s]
      BY <2>2, Zenon DEF JailLockedInterpreter
    <3>2. /\ JailPlaceheld(x) /\ x # <<>>
          /\ \A p \in Jail!Range(m) : JailPlaceheld(p)
          /\ \A p \in y : JailPlaceheld(p)
          /\ \A p \in s : JailPlaceheld(p)
      BY JailPlaceholders DEF Jail!Range
    <3> HIDE DEF x, m, y, s
    <3>3. n.executable = x /\ n.images = m /\ n.libraries = y /\ n.denied = s
      BY <1>1, <3>1
    <3>4. n # Jail!NoInterpreter
      BY <3>2, <3>3 DEF Jail!NoInterpreter
    <3> QED
      BY <2>2, <3>2, <3>3, <3>4, Zenon
  <2> QED
    BY <2>1, <2>2
<1>3. /\ b # Jail!NoBroker => JailPlaceheld(b.at)
      /\ b.bundle # Jail!Nowhere => JailPlaceheld(b.bundle)
      /\ \A p \in Jail!BundleDirectory(b) : JailPlaceheld(p)
  <2>1. CASE e = Jail!NoBroker
    <3>1. b = Jail!NoBroker
      BY <2>1, Zenon DEF JailLockedBroker
    <3>2. b.bundle = Jail!Nowhere
      BY <3>1 DEF Jail!NoBroker
    <3>3. Jail!BundleDirectory(b) = {}
      BY <3>2, Zenon DEF Jail!BundleDirectory, Jail!OnlyIf
    <3> QED
      BY <3>1, <3>2, <3>3
  <2>2. CASE e # Jail!NoBroker
    <3> DEFINE x == Jail!Placeholder("socket")  y == Jail!Placeholder("bundle") \o <<"file">>
    <3>1. b = [e EXCEPT !.at = x, !.bundle = y]
      BY <2>2, Zenon DEF JailLockedBroker
    <3>2. JailPlaceheld(x) /\ JailPlaceheld(y) /\ JailPlaceheld(Jail!Parent(y))
      BY JailPlaceholders, Zenon
    <3> HIDE DEF x, y
    <3>3. b.at = x /\ b.bundle = y
      BY <1>1, <3>1
    <3>4. Jail!BundleDirectory(b) \subseteq {Jail!Parent(y)}
      BY <3>3, Zenon DEF Jail!BundleDirectory, Jail!OnlyIf
    <3> QED
      BY <3>2, <3>3, <3>4
  <2> QED
    BY <2>1, <2>2
<1> QED
  BY <1>2, <1>3

\* What a lock does not bind, and what is left of a rule or a mount without it.
JailMeasured ==
    {pj_jail.helper.path} \cup Jail!OnlyIf(pj_jail.broker # Jail!NoBroker, {pj_jail.broker.at})
    \cup Jail!OnlyIf(pj_jail.broker.bundle # Jail!Nowhere, {pj_jail.broker.bundle}) \cup
        Jail!BundleDirectory(pj_jail.broker)
    \cup Jail!InterpreterGrants(pj_jail.interpreter) \cup pj_jail.interpreter.denied \cup pj_Programs
JailGone == (pj_System.linux \cup Jail!Programmes) \ DOMAIN pj_Installed
JailBinds(p) == p \notin JailMeasured /\ ~JailPlaceheld(p)
JailLeft(rule) == [rule EXCEPT !.at = {p \in rule.at : JailBinds(p)}]
JailMountLeft(mount) == [mount EXCEPT !.pairs = {m \in mount.pairs : JailBinds(m[2]) /\ m[2] \notin JailGone}]

\* Rules of which nothing is left but their kind are alike.
LEMMA JailUnbound ==
    ASSUME NEW a, NEW o, NEW P, NEW Q, NEW d, \A p \in P \cup Q : ~JailBinds(p)
    PROVE  JailLeft(Jail!Rule(a, o, P, d)) = JailLeft(Jail!Rule(a, o, Q, d))
<1>1. ASSUME NEW S, \A p \in S : ~JailBinds(p) PROVE JailLeft(Jail!Rule(a, o, S, d)) = Jail!Rule(a, o, {}, d)
  <2> DEFINE r == Jail!Rule(a, o, S, d)
  <2>1. r = [allow |-> a, ops |-> o, at |-> S, deep |-> d]
    BY Zenon DEF Jail!Rule
  <2>2. {p \in r.at : JailBinds(p)} = {}
    BY <1>1, <2>1
  <2>3. JailLeft(r) = [r EXCEPT !.at = {}]
    BY <2>2, Zenon DEF JailLeft
  <2> HIDE DEF r
  <2>4. [r EXCEPT !.at = {}] = [allow |-> a, ops |-> o, at |-> {}, deep |-> d]
    BY <2>1
  <2> QED
    BY <2>3, <2>4, Zenon DEF r, Jail!Rule
<1>2. JailLeft(Jail!Rule(a, o, P, d)) = Jail!Rule(a, o, {}, d)
  BY <1>1
<1>3. JailLeft(Jail!Rule(a, o, Q, d)) = Jail!Rule(a, o, {}, d)
  BY <1>1
<1> QED
  BY <1>2, <1>3, Zenon

\* Mounts of which the same is left are alike.
LEMMA JailUnboundMount ==
    ASSUME NEW P, NEW Q, NEW w, {m \in P : JailBinds(m[2]) /\ m[2] \notin JailGone} = {m \in Q : JailBinds(m[2]) /\
        m[2] \notin JailGone}
    PROVE  JailMountLeft(Jail!Mount(P, w)) = JailMountLeft(Jail!Mount(Q, w))
<1> DEFINE S == {m \in P : JailBinds(m[2]) /\ m[2] \notin JailGone}
<1>1. ASSUME NEW X, {m \in X : JailBinds(m[2]) /\ m[2] \notin JailGone} = S PROVE JailMountLeft(Jail!Mount(X, w)) =
    [pairs |-> S, writable |-> w]
  <2> HIDE DEF S
  <2> DEFINE r == Jail!Mount(X, w)
  <2>1. r = [pairs |-> X, writable |-> w]
    BY Zenon DEF Jail!Mount
  <2>2. r.pairs = X
    BY <2>1
  <2>3. JailMountLeft(r) = [r EXCEPT !.pairs = S]
    BY <1>1, <2>2, Zenon DEF JailMountLeft
  <2> HIDE DEF r
  <2>4. [r EXCEPT !.pairs = S] = [pairs |-> S, writable |-> w]
    BY <2>1
  <2> QED
    BY <2>3, <2>4, Zenon DEF r
<1>2. JailMountLeft(Jail!Mount(P, w)) = [pairs |-> S, writable |-> w]
  BY <1>1
<1>3. JailMountLeft(Jail!Mount(Q, w)) = [pairs |-> S, writable |-> w]
  BY <1>1
<1> QED
  BY <1>2, <1>3, Zenon

\* Mounts of which nothing is left are alike.
LEMMA JailUnboundPuts ==
    ASSUME NEW o, NEW P, NEW Q, \A p \in P \cup Q : ~JailBinds(p)
    PROVE  /\ JailMountLeft(Jail!Put(o, P)) = JailMountLeft(Jail!Put(o, Q))
           /\ JailMountLeft(Jail!ReadOnly(P)) = JailMountLeft(Jail!ReadOnly(Q))
<1> DEFINE Puts(S) == {<<o, of>> : of \in S}  Same(S) == {<<p, p>> : p \in S}
<1>1. ASSUME NEW S, NEW M, M \in {Puts(S), Same(S)}, \A p \in S : ~JailBinds(p)
      PROVE  {m \in M : JailBinds(m[2]) /\ m[2] \notin JailGone} = {}
  <2>1. \A m \in M : m[2] \in S
    BY <1>1
  <2> HIDE DEF Puts, Same
  <2> QED
    BY <1>1, <2>1
<1> HIDE DEF Puts, Same
<1>2. JailMountLeft(Jail!Mount(Puts(P), FALSE)) = JailMountLeft(Jail!Mount(Puts(Q), FALSE))
  <2>1. /\ {m \in Puts(P) : JailBinds(m[2]) /\ m[2] \notin JailGone} = {}
        /\ {m \in Puts(Q) : JailBinds(m[2]) /\ m[2] \notin JailGone} = {}
    BY <1>1
  <2>2. {m \in Puts(P) : JailBinds(m[2]) /\ m[2] \notin JailGone} =
        {m \in Puts(Q) : JailBinds(m[2]) /\ m[2] \notin JailGone}
    BY <2>1, Zenon
  <2> QED
    BY <2>2, JailUnboundMount, ZenonT(60)
<1>3. JailMountLeft(Jail!Mount(Same(P), FALSE)) = JailMountLeft(Jail!Mount(Same(Q), FALSE))
  <2>1. /\ {m \in Same(P) : JailBinds(m[2]) /\ m[2] \notin JailGone} = {}
        /\ {m \in Same(Q) : JailBinds(m[2]) /\ m[2] \notin JailGone} = {}
    BY <1>1
  <2>2. {m \in Same(P) : JailBinds(m[2]) /\ m[2] \notin JailGone} =
        {m \in Same(Q) : JailBinds(m[2]) /\ m[2] \notin JailGone}
    BY <2>1, Zenon
  <2> QED
    BY <2>2, JailUnboundMount, ZenonT(60)
<1> QED
  BY <1>2, <1>3, Zenon DEF Jail!Put, Jail!ReadOnly, Puts, Same

\* A directory of the system that is not there is not in the jail.
LEMMA JailMissing ==
    ASSUME NEW P, NEW there, P \subseteq pj_System.linux \cup Jail!Programmes, pj_System.linux \cup
        Jail!Programmes \subseteq there
    PROVE  JailMountLeft(Jail!ReadOnly(P \cap DOMAIN pj_Installed)) = JailMountLeft(Jail!ReadOnly(P \cap there))
<1> DEFINE Put(S) == {<<p, p>> : p \in S}
           Left(S) == {m \in S : JailBinds(m[2]) /\ m[2] \notin JailGone}
<1>1. P \cap there = P
  OBVIOUS
<1>2. ASSUME NEW m \in Put(P), m[2] \notin JailGone PROVE m \in Put(P \cap DOMAIN pj_Installed)
  <2>1. PICK p \in P : m = <<p, p>>
    OBVIOUS
  <2>2. p \in P \cap DOMAIN pj_Installed
    BY <1>2, <2>1 DEF JailGone
  <2> QED
    BY <2>1, <2>2
<1>3. Put(P \cap DOMAIN pj_Installed) \subseteq Put(P)
  OBVIOUS
<1> HIDE DEF Put
<1>4. Left(Put(P \cap DOMAIN pj_Installed)) = Left(Put(P))
  BY <1>2, <1>3
<1>5. JailMountLeft(Jail!Mount(Put(P \cap DOMAIN pj_Installed), FALSE)) = JailMountLeft(Jail!Mount(Put(P), FALSE))
  BY <1>4, JailUnboundMount
<1> QED
  BY <1>1, <1>5, Zenon DEF Jail!ReadOnly, Put

\* What a jail takes from its interpreter and its broker is measured.
LEMMA JailMeasures ==
    ASSUME NEW t, t = Jail!Unmeasured(pj_jail), JailBuilt(pj_jail, pj_platform)
    PROVE  /\ t.roots = pj_jail.roots
           /\ (t.interpreter = Jail!NoInterpreter <=> pj_jail.interpreter = Jail!NoInterpreter)
           /\ \A p : JailPlaceheld(p) => ~JailBinds(p)
           /\ \A p \in pj_Programs : ~JailBinds(p)
           /\ \A n \in {t.interpreter, pj_jail.interpreter} :
                /\ n # Jail!NoInterpreter => ~JailBinds(n.executable)
                /\ \A p \in Jail!Range(n.images) \cup n.libraries \cup n.denied \cup
                     Jail!InterpreterGrants(n) : ~JailBinds(p)
           /\ \A b \in {t.broker, pj_jail.broker} :
                /\ \A p \in Jail!BundleDirectory(b) : ~JailBinds(p)
                /\ \A p \in Jail!OnlyIf(b # Jail!NoBroker, {b.at}) \cup Jail!OnlyIf(b.bundle # Jail!Nowhere,
                     {b.bundle}) : ~JailBinds(p)
           /\ ~JailBinds(t.helper.path) /\ ~JailBinds(pj_jail.helper.path)
<1> DEFINE i == pj_jail.interpreter  n == JailLockedInterpreter(pj_jail)  e == pj_jail.broker  b ==
    JailLockedBroker(pj_jail.broker)
<1>1. /\ t.roots = pj_jail.roots /\ t.helper.path = Jail!Placeholder("helper") /\ t.broker = b /\ t.interpreter = n
  BY JailTemplate
<1>2. /\ n = Jail!NoInterpreter <=> i = Jail!NoInterpreter
      /\ n # Jail!NoInterpreter => JailPlaceheld(n.executable)
      /\ \A p \in Jail!Range(n.images) \cup n.libraries \cup n.denied : JailPlaceheld(p)
      /\ b # Jail!NoBroker => JailPlaceheld(b.at)
      /\ b.bundle # Jail!Nowhere => JailPlaceheld(b.bundle)
      /\ \A p \in Jail!BundleDirectory(b) : JailPlaceheld(p)
  BY JailLockedParts
<1> HIDE DEF i, n, e, b
<1>3. \A p : p \in JailMeasured \/ JailPlaceheld(p) => ~JailBinds(p)
  BY Zenon DEF JailBinds
<1>4. /\ JailMeasured = {pj_jail.helper.path} \cup Jail!OnlyIf(e # Jail!NoBroker, {e.at})
                        \cup Jail!OnlyIf(e.bundle # Jail!Nowhere, {e.bundle}) \cup Jail!BundleDirectory(e)
                        \cup Jail!InterpreterGrants(i) \cup i.denied \cup pj_Programs
  BY Zenon DEF JailMeasured, i, e
<1>5. \A m : /\ m # Jail!NoInterpreter => Jail!InterpreterGrants(m) = {m.executable} \cup Jail!Range(m.images) \cup
                  m.libraries
             /\ m = Jail!NoInterpreter => Jail!InterpreterGrants(m) = {} /\ Jail!Range(m.images) = {} /\
                  m.libraries = {}
  <2>1. \A m : m # Jail!NoInterpreter => Jail!InterpreterGrants(m) = {m.executable} \cup Jail!Range(m.images) \cup
      m.libraries
    BY Zenon DEF Jail!InterpreterGrants, Jail!OnlyIf
  <2>2. Jail!InterpreterGrants(Jail!NoInterpreter) = {}
    BY Zenon DEF Jail!InterpreterGrants, Jail!OnlyIf
  <2>3. Jail!Range(Jail!NoInterpreter.images) = {} /\ Jail!NoInterpreter.libraries = {}
    BY DEF Jail!NoInterpreter, Jail!Range
  <2> QED
    BY <2>1, <2>2, <2>3, Zenon
<1>6. /\ i # Jail!NoInterpreter => ~JailBinds(i.executable)
      /\ \A p \in Jail!Range(i.images) \cup i.libraries \cup i.denied \cup Jail!InterpreterGrants(i) : ~JailBinds(p)
  BY <1>3, <1>4, <1>5
<1>7. /\ n # Jail!NoInterpreter => ~JailBinds(n.executable)
      /\ \A p \in Jail!Range(n.images) \cup n.libraries \cup n.denied \cup Jail!InterpreterGrants(n) : ~JailBinds(p)
  BY <1>2, <1>3, <1>5
<1>8. /\ \A p \in Jail!BundleDirectory(e) : ~JailBinds(p)
      /\ \A p \in Jail!OnlyIf(e # Jail!NoBroker, {e.at}) \cup Jail!OnlyIf(e.bundle # Jail!Nowhere,
           {e.bundle}) : ~JailBinds(p)
  BY <1>3, <1>4
<1>9. /\ \A p \in Jail!BundleDirectory(b) : ~JailBinds(p)
      /\ \A p \in Jail!OnlyIf(b # Jail!NoBroker, {b.at}) \cup Jail!OnlyIf(b.bundle # Jail!Nowhere,
           {b.bundle}) : ~JailBinds(p)
  BY <1>2, <1>3 DEF Jail!OnlyIf
<1>10. ~JailBinds(t.helper.path) /\ ~JailBinds(pj_jail.helper.path)
  BY <1>1, <1>3, <1>4, JailPlaceholders
<1>11. \A p \in pj_Programs : ~JailBinds(p)
  BY <1>3, <1>4
<1>12. \A x \in {t.interpreter, pj_jail.interpreter} :
         /\ x # Jail!NoInterpreter => ~JailBinds(x.executable)
         /\ \A p \in Jail!Range(x.images) \cup x.libraries \cup x.denied \cup Jail!InterpreterGrants(x) : ~JailBinds(p)
  BY <1>1, <1>6, <1>7, Zenon DEF i
<1>13. \A x \in {t.broker, pj_jail.broker} :
         /\ \A p \in Jail!BundleDirectory(x) : ~JailBinds(p)
         /\ \A p \in Jail!OnlyIf(x # Jail!NoBroker, {x.at}) \cup Jail!OnlyIf(x.bundle # Jail!Nowhere,
              {x.bundle}) : ~JailBinds(p)
  BY <1>1, <1>8, <1>9, Zenon DEF e
<1> QED
  BY <1>1, <1>2, <1>3, <1>10, <1>11, <1>12, <1>13, Zenon DEF i

\* The same of the three kinds of rules.
LEMMA JailUnboundRules ==
    ASSUME NEW ops, NEW P, NEW Q, \A p \in P : ~JailBinds(p), \A p \in Q : ~JailBinds(p)
    PROVE  /\ JailLeft(Jail!Allow(ops, P)) = JailLeft(Jail!Allow(ops, Q))
           /\ JailLeft(Jail!AllowBelow(ops, P)) = JailLeft(Jail!AllowBelow(ops, Q))
           /\ JailLeft(Jail!DenyBelow(ops, P)) = JailLeft(Jail!DenyBelow(ops, Q))
<1>1. \A p \in P \cup Q : ~JailBinds(p)
  OBVIOUS
<1>2. \A a, d : JailLeft(Jail!Rule(a, ops, P, d)) = JailLeft(Jail!Rule(a, ops, Q, d))
  BY <1>1, JailUnbound
<1> QED
  BY <1>2, Zenon DEF Jail!Allow, Jail!AllowBelow, Jail!DenyBelow

\* Rule by rule, what is left of a profile is what is left of its template.
LEMMA JailRulesAlike ==
    ASSUME NEW program \in pj_Programs, JailReady(program), NEW t, t = Jail!Unmeasured(pj_jail), NEW k \in 1..15
    PROVE  JailLeft(Jail!Profile(pj_jail, program)[k]) = JailLeft(Jail!Profile(t, Jail!Placeholder("program"))[k])
<1> DEFINE j == pj_jail  x == Jail!Executable(pj_jail, program)  y == Jail!Executable(t, Jail!Placeholder("program"))
           R == Jail!Profile(j, program)  S == Jail!Profile(t, Jail!Placeholder("program"))
<1>1. /\ R[1] = Jail!NoForks /\ R[2] = Jail!Runs(x) /\ R[3] = Jail!SystemRead(j) /\ R[4] = Jail!WorkWritten
      /\ R[5] = Jail!WorkUnmapped /\ R[6] = Jail!ScriptRead(j) /\ R[7] = Jail!ImagesRead(j.interpreter)
      /\ R[8] = Jail!LibrariesRead(j.interpreter) /\ R[9] = Jail!RootForks(j) /\ R[10] = Jail!ProgrammesRun(j)
      /\ R[11] = Jail!RootsRun(j.roots) /\ R[12] = Jail!ExcludedDenied(j.roots) /\ R[13] =
           Jail!SiteDenied(j.interpreter)
      /\ R[14] = Jail!BundleRead(j.broker) /\ R[15] = Jail!BrokerReached(j.broker)
  BY DEF Jail!Profile
<1>2. /\ S[1] = Jail!NoForks /\ S[2] = Jail!Runs(y) /\ S[3] = Jail!SystemRead(t) /\ S[4] = Jail!WorkWritten
      /\ S[5] = Jail!WorkUnmapped /\ S[6] = Jail!ScriptRead(t) /\ S[7] = Jail!ImagesRead(t.interpreter)
      /\ S[8] = Jail!LibrariesRead(t.interpreter) /\ S[9] = Jail!RootForks(t) /\ S[10] = Jail!ProgrammesRun(t)
      /\ S[11] = Jail!RootsRun(t.roots) /\ S[12] = Jail!ExcludedDenied(t.roots) /\ S[13] =
           Jail!SiteDenied(t.interpreter)
      /\ S[14] = Jail!BundleRead(t.broker) /\ S[15] = Jail!BrokerReached(t.broker)
  BY DEF Jail!Profile
<1>3. /\ t.roots = j.roots /\ (t.interpreter = Jail!NoInterpreter <=> j.interpreter = Jail!NoInterpreter)
      /\ \A p : JailPlaceheld(p) => ~JailBinds(p)
      /\ \A p \in pj_Programs : ~JailBinds(p)
      /\ \A n \in {t.interpreter, j.interpreter} :
           /\ n # Jail!NoInterpreter => ~JailBinds(n.executable)
           /\ \A p \in Jail!Range(n.images) \cup n.libraries \cup n.denied \cup
                Jail!InterpreterGrants(n) : ~JailBinds(p)
      /\ \A b \in {t.broker, j.broker} :
           /\ \A p \in Jail!BundleDirectory(b) : ~JailBinds(p)
           /\ \A p \in Jail!OnlyIf(b # Jail!NoBroker, {b.at}) \cup Jail!OnlyIf(b.bundle # Jail!Nowhere,
                {b.bundle}) : ~JailBinds(p)
  BY JailMeasures, Zenon DEF JailReady
<1> HIDE DEF R, S, x, y
<1>4. \A p \in {x, y} : ~JailBinds(p) \/ x = y
  <2>1. CASE j.interpreter # Jail!NoInterpreter
    <3>1. x = j.interpreter.executable /\ y = t.interpreter.executable
      BY <1>3, <2>1, Zenon DEF Jail!Executable, x, y
    <3> QED
      BY <1>3, <2>1, <3>1
  <2>2. CASE j.interpreter = Jail!NoInterpreter
    <3>1. x = Jail!Program(j, program) /\ y = Jail!Program(t, Jail!Placeholder("program"))
      BY <1>3, <2>2, Zenon DEF Jail!Executable, x, y
    <3>2. CASE j.roots = Jail!NoRoots
      BY <1>3, <3>1, <3>2, Zenon DEF Jail!Program
    <3>3. CASE j.roots # Jail!NoRoots
      <4>1. x = program /\ y = Jail!Placeholder("program")
        BY <1>3, <3>1, <3>3, Zenon DEF Jail!Program
      <4>2. ~JailBinds(program)
        BY <1>3
      <4>3. ~JailBinds(Jail!Placeholder("program"))
        BY <1>3, JailPlaceholders, Zenon
      <4> QED
        BY <4>1, <4>2, <4>3
    <3> QED
      BY <3>2, <3>3
  <2> QED
    BY <2>1, <2>2
<1>5. JailLeft(Jail!Runs(x)) = JailLeft(Jail!Runs(y))
  <2>1. CASE x = y
    BY <2>1
  <2>2. CASE x # y
    <3> DEFINE P == {x}  Q == {y}
    <3>1. (\A p \in P : ~JailBinds(p)) /\ (\A p \in Q : ~JailBinds(p))
      BY <1>4, <2>2
    <3> HIDE DEF P, Q
    <3>2. \A ops : JailLeft(Jail!Allow(ops, P)) = JailLeft(Jail!Allow(ops, Q))
      BY <3>1, JailUnboundRules
    <3> QED
      BY <3>2, Zenon DEF Jail!Runs, P, Q
  <2> QED
    BY <2>1, <2>2
<1>6. /\ Jail!SystemRead(t) = Jail!SystemRead(j) /\ Jail!ScriptRead(t) = Jail!ScriptRead(j)
      /\ Jail!RootForks(t) = Jail!RootForks(j) /\ Jail!ProgrammesRun(t) = Jail!ProgrammesRun(j)
  <2>1. Jail!Granted(t) = Jail!Granted(j)
    BY <1>3, Zenon DEF Jail!Granted
  <2>2. Jail!OnlyIf(t.roots = Jail!NoRoots /\ t.interpreter # Jail!NoInterpreter, {pj_Snapshot})
        = Jail!OnlyIf(j.roots = Jail!NoRoots /\ j.interpreter # Jail!NoInterpreter, {pj_Snapshot})
    BY <1>3, Zenon DEF Jail!OnlyIf
  <2> QED
    BY <1>3, <2>1, <2>2, Zenon DEF Jail!SystemRead, Jail!ScriptRead, Jail!RootForks, Jail!ProgrammesRun
<1>7. /\ JailLeft(Jail!ImagesRead(j.interpreter)) = JailLeft(Jail!ImagesRead(t.interpreter))
      /\ JailLeft(Jail!LibrariesRead(j.interpreter)) = JailLeft(Jail!LibrariesRead(t.interpreter))
      /\ JailLeft(Jail!SiteDenied(j.interpreter)) = JailLeft(Jail!SiteDenied(t.interpreter))
  <2> DEFINE a == j.interpreter  b == t.interpreter
  <2>1. /\ \A n \in {a, b} : \A p \in Jail!Range(n.images) : ~JailBinds(p)
        /\ \A n \in {a, b} : \A p \in n.libraries : ~JailBinds(p)
        /\ \A n \in {a, b} : \A p \in n.denied : ~JailBinds(p)
    BY <1>3
  <2> HIDE DEF a, b
  <2>2. \A ops : JailLeft(Jail!Allow(ops, Jail!Range(a.images))) = JailLeft(Jail!Allow(ops, Jail!Range(b.images)))
    BY <2>1, JailUnboundRules
  <2>3. \A ops : JailLeft(Jail!AllowBelow(ops, a.libraries)) = JailLeft(Jail!AllowBelow(ops, b.libraries))
    BY <2>1, JailUnboundRules
  <2>4. \A ops : JailLeft(Jail!DenyBelow(ops, a.denied)) = JailLeft(Jail!DenyBelow(ops, b.denied))
    BY <2>1, JailUnboundRules
  <2> QED
    BY <2>2, <2>3, <2>4, Zenon DEF a, b, Jail!ImagesRead, Jail!LibrariesRead, Jail!SiteDenied
<1>8. /\ JailLeft(Jail!BundleRead(j.broker)) = JailLeft(Jail!BundleRead(t.broker))
      /\ JailLeft(Jail!BrokerReached(j.broker)) = JailLeft(Jail!BrokerReached(t.broker))
  <2> DEFINE a == j.broker  b == t.broker
             P == Jail!OnlyIf(a # Jail!NoBroker, {a.at})  Q == Jail!OnlyIf(b # Jail!NoBroker, {b.at})
  <2>1. /\ \A n \in {a, b} : \A p \in Jail!BundleDirectory(n) : ~JailBinds(p)
        /\ \A p \in P : ~JailBinds(p)
        /\ \A p \in Q : ~JailBinds(p)
    BY <1>3
  <2> HIDE DEF a, b, P, Q
  <2>2. \A ops : JailLeft(Jail!AllowBelow(ops, Jail!BundleDirectory(a))) = JailLeft(Jail!AllowBelow(ops,
      Jail!BundleDirectory(b)))
    BY <2>1, JailUnboundRules
  <2>3. \A ops : JailLeft(Jail!Allow(ops, P)) = JailLeft(Jail!Allow(ops, Q))
    BY <2>1, JailUnboundRules
  <2> QED
    BY <2>2, <2>3, Zenon DEF Jail!BundleRead, Jail!BrokerReached, a, b, P, Q
<1> HIDE DEF j
<1>9. ASSUME k \in {1, 4, 5} PROVE JailLeft(R[k]) = JailLeft(S[k])
  BY <1>1, <1>2, <1>9
<1>10. ASSUME k \in {3, 6, 9, 10, 11, 12} PROVE JailLeft(R[k]) = JailLeft(S[k])
  BY <1>1, <1>2, <1>3, <1>6, <1>10
<1>11. ASSUME k \in {2, 7, 8, 13, 14, 15} PROVE JailLeft(R[k]) = JailLeft(S[k])
  BY <1>1, <1>2, <1>5, <1>7, <1>8, <1>11
<1>12. k \in {1, 4, 5} \cup {3, 6, 9, 10, 11, 12} \cup {2, 7, 8, 13, 14, 15}
  OBVIOUS
<1>13. JailLeft(R[k]) = JailLeft(S[k])
  BY <1>9, <1>10, <1>11, <1>12
<1> QED
  BY <1>13, Zenon DEF R, S, j

\* Mount by mount, what is left of them is what is left of their template.
LEMMA JailMountsAlike ==
    ASSUME NEW program \in pj_Programs, JailReady(program), NEW t, t = Jail!Unmeasured(pj_jail), NEW k \in 1..11,
           NEW there, there = pj_System.linux \cup Jail!Programmes
    PROVE  JailMountLeft(Jail!Mounts(pj_jail, DOMAIN pj_Installed)[k]) = JailMountLeft(Jail!Mounts(t, there)[k])
<1> DEFINE j == pj_jail  M == Jail!Mounts(j, DOMAIN pj_Installed)  N == Jail!Mounts(t, there)
           At(b) == Jail!OnlyIf(b # Jail!NoBroker, {b.at})
           Bundle(b) == Jail!OnlyIf(b.bundle # Jail!Nowhere, {b.bundle})
<1>1. /\ M[1] = Jail!Masked({<<>>}) /\ M[2] = Jail!ReadOnly(pj_System.linux \cap DOMAIN pj_Installed)
      /\ M[3] = Jail!Put(<<"app">>, Jail!OnlyIf(j.roots = Jail!NoRoots, {Jail!Parent(pj_Snapshot)}))
      /\ M[4] = Jail!ReadOnly(Jail!Granted(j) \cap DOMAIN pj_Installed)
      /\ M[5] = Jail!ReadOnly({r.path : r \in Jail!RootsOf(j.roots)}) /\ M[6] = Jail!Masked(Jail!AllExcluded(j.roots))
      /\ M[7] = Jail!Mount({<<<<"work">>, pj_Work>>}, TRUE)
      /\ M[8] = Jail!Put(<<"run", "magicrun", "jail-helper">>, {j.helper.path})
      /\ M[9] = Jail!Put(<<"run", "magicrun", "egress.sock">>, At(j.broker))
      /\ M[10] = Jail!Put(<<"etc", "ssl", "certs">>, Bundle(j.broker))
      /\ M[11] = Jail!ReadOnly(Jail!InterpreterGrants(j.interpreter))
  BY DEF Jail!Mounts
<1>2. /\ N[1] = Jail!Masked({<<>>}) /\ N[2] = Jail!ReadOnly(pj_System.linux \cap there)
      /\ N[3] = Jail!Put(<<"app">>, Jail!OnlyIf(t.roots = Jail!NoRoots, {Jail!Parent(pj_Snapshot)}))
      /\ N[4] = Jail!ReadOnly(Jail!Granted(t) \cap there)
      /\ N[5] = Jail!ReadOnly({r.path : r \in Jail!RootsOf(t.roots)}) /\ N[6] = Jail!Masked(Jail!AllExcluded(t.roots))
      /\ N[7] = Jail!Mount({<<<<"work">>, pj_Work>>}, TRUE)
      /\ N[8] = Jail!Put(<<"run", "magicrun", "jail-helper">>, {t.helper.path})
      /\ N[9] = Jail!Put(<<"run", "magicrun", "egress.sock">>, At(t.broker))
      /\ N[10] = Jail!Put(<<"etc", "ssl", "certs">>, Bundle(t.broker))
      /\ N[11] = Jail!ReadOnly(Jail!InterpreterGrants(t.interpreter))
  BY DEF Jail!Mounts
<1>3. /\ t.roots = j.roots
      /\ \A n \in {t.interpreter, j.interpreter} : \A p \in Jail!InterpreterGrants(n) : ~JailBinds(p)
      /\ \A b \in {t.broker, j.broker} : \A p \in At(b) \cup Bundle(b) : ~JailBinds(p)
      /\ ~JailBinds(t.helper.path) /\ ~JailBinds(j.helper.path)
  <2>1. JailBuilt(j, pj_platform)
    BY Zenon DEF JailReady
  <2>2. /\ t.roots = j.roots
        /\ \A n \in {t.interpreter, j.interpreter} :
             \A p \in Jail!Range(n.images) \cup n.libraries \cup n.denied \cup Jail!InterpreterGrants(n) : ~JailBinds(p)
        /\ \A b \in {t.broker, j.broker} : \A p \in At(b) \cup Bundle(b) : ~JailBinds(p)
        /\ ~JailBinds(t.helper.path) /\ ~JailBinds(j.helper.path)
    BY <2>1, JailMeasures, Zenon
  <2> QED
    BY <2>2
<1> HIDE DEF M, N, At, Bundle
<1>4. Jail!Granted(t) = Jail!Granted(j) /\ Jail!Granted(j) \subseteq Jail!Programmes
  BY <1>3, Zenon DEF Jail!Granted, Jail!OnlyIf
<1>5. /\ JailMountLeft(Jail!ReadOnly(pj_System.linux \cap DOMAIN pj_Installed)) =
           JailMountLeft(Jail!ReadOnly(pj_System.linux \cap there))
      /\ JailMountLeft(Jail!ReadOnly(Jail!Granted(j) \cap DOMAIN pj_Installed)) =
           JailMountLeft(Jail!ReadOnly(Jail!Granted(t) \cap there))
  <2>1. pj_System.linux \subseteq pj_System.linux \cup Jail!Programmes /\
      Jail!Granted(j) \subseteq pj_System.linux \cup Jail!Programmes
    BY <1>4
  <2>2. pj_System.linux \cup Jail!Programmes \subseteq there
    OBVIOUS
  <2>3. JailMountLeft(Jail!ReadOnly(pj_System.linux \cap DOMAIN pj_Installed)) =
      JailMountLeft(Jail!ReadOnly(pj_System.linux \cap there))
    BY <2>1, <2>2, JailMissing, Zenon
  <2>4. JailMountLeft(Jail!ReadOnly(Jail!Granted(j) \cap DOMAIN pj_Installed)) =
      JailMountLeft(Jail!ReadOnly(Jail!Granted(j) \cap there))
    BY <2>1, <2>2, JailMissing, Zenon
  <2> QED
    BY <1>4, <2>3, <2>4, Zenon
<1>6. \A o : /\ JailMountLeft(Jail!Put(o, {j.helper.path})) = JailMountLeft(Jail!Put(o, {t.helper.path}))
             /\ JailMountLeft(Jail!Put(o, At(j.broker))) = JailMountLeft(Jail!Put(o, At(t.broker)))
             /\ JailMountLeft(Jail!Put(o, Bundle(j.broker))) = JailMountLeft(Jail!Put(o, Bundle(t.broker)))
  <2> TAKE o
  <2> DEFINE P == {j.helper.path}  Q == {t.helper.path}
  <2>1. \A p \in P \cup Q : ~JailBinds(p)
    BY <1>3
  <2>2. \A p \in At(j.broker) \cup At(t.broker) : ~JailBinds(p)
    BY <1>3
  <2>3. \A p \in Bundle(j.broker) \cup Bundle(t.broker) : ~JailBinds(p)
    BY <1>3
  <2> HIDE DEF P, Q
  <2>4. JailMountLeft(Jail!Put(o, P)) = JailMountLeft(Jail!Put(o, Q))
    BY <2>1, JailUnboundPuts
  <2>5. JailMountLeft(Jail!Put(o, At(j.broker))) = JailMountLeft(Jail!Put(o, At(t.broker)))
    BY <2>2, JailUnboundPuts
  <2>6. JailMountLeft(Jail!Put(o, Bundle(j.broker))) = JailMountLeft(Jail!Put(o, Bundle(t.broker)))
    BY <2>3, JailUnboundPuts
  <2> QED
    BY <2>4, <2>5, <2>6, Zenon DEF P, Q
<1>7. JailMountLeft(Jail!ReadOnly(Jail!InterpreterGrants(j.interpreter))) =
    JailMountLeft(Jail!ReadOnly(Jail!InterpreterGrants(t.interpreter)))
  <2>1. \A p \in Jail!InterpreterGrants(j.interpreter) \cup Jail!InterpreterGrants(t.interpreter) : ~JailBinds(p)
    BY <1>3
  <2> QED
    BY <2>1, JailUnboundPuts, Zenon
<1> HIDE DEF j
<1>8. ASSUME k \in {1, 3, 5, 6, 7} PROVE JailMountLeft(M[k]) = JailMountLeft(N[k])
  BY <1>1, <1>2, <1>3, <1>8
<1>9. ASSUME k \in {2, 4} PROVE JailMountLeft(M[k]) = JailMountLeft(N[k])
  BY <1>1, <1>2, <1>5, <1>9
<1>10. ASSUME k \in {8, 9, 10, 11} PROVE JailMountLeft(M[k]) = JailMountLeft(N[k])
  <2>1. JailMountLeft(M[8]) = JailMountLeft(N[8])
    BY <1>1, <1>2, <1>6, Zenon
  <2>2. JailMountLeft(M[9]) = JailMountLeft(N[9])
    BY <1>1, <1>2, <1>6, Zenon
  <2>3. JailMountLeft(M[10]) = JailMountLeft(N[10])
    BY <1>1, <1>2, <1>6, Zenon
  <2>4. JailMountLeft(M[11]) = JailMountLeft(N[11])
    BY <1>1, <1>2, <1>7, Zenon
  <2> QED
    BY <1>10, <2>1, <2>2, <2>3, <2>4
<1>11. k \in {1, 3, 5, 6, 7} \cup {2, 4} \cup {8, 9, 10, 11}
  OBVIOUS
<1>12. JailMountLeft(M[k]) = JailMountLeft(N[k])
  BY <1>8, <1>9, <1>10, <1>11
<1> QED
  BY <1>12, Zenon DEF M, N, j

\* An interpreter's flags are those that were locked.
LEMMA JailFlags ==
    ASSUME NEW j, NEW program, j.interpreter # Jail!NoInterpreter, NEW a, a = Jail!Arguments(j, program)
    PROVE  SubSeq(a, 2, Len(a) - 1) = Jail!Flags(j)
<1>1. ASSUME NEW e, NEW o, NEW S, NEW f \in Seq(S), e \in S, o \in S
      PROVE  SubSeq(<<e>> \o f \o <<o>>, 2, Len(<<e>> \o f \o <<o>>) - 1) = f
  <2> DEFINE x == <<e>>  z == <<o>>  s == (x \o f) \o z
  <2>1. x \in Seq(S) /\ z \in Seq(S) /\ Len(x) = 1 /\ Len(z) = 1
    BY <1>1
  <2> HIDE DEF x, z
  <2>2. /\ x \o f \in Seq(S) /\ Len(x \o f) = 1 + Len(f)
        /\ \A i \in 1..Len(x) + Len(f) : (x \o f)[i] = IF i <= Len(x) THEN x[i] ELSE f[i - Len(x)]
    <3>1. x \o f \in Seq(S) /\ Len(x \o f) = Len(x) + Len(f)
          /\ \A i \in 1..Len(x) + Len(f) : (x \o f)[i] = IF i <= Len(x) THEN x[i] ELSE f[i - Len(x)]
      BY <2>1, ConcatProperties, Zenon
    <3>2. Len(x) + Len(f) = 1 + Len(f)
      BY <2>1
    <3> QED
      BY <3>1, <3>2, Zenon
  <2> DEFINE g == x \o f
  <2>3. g \in Seq(S) /\ Len(g) = 1 + Len(f)
    BY <2>2
  <2>4. \A i \in 1..Len(f) : g[i + 1] = f[i]
    <3> TAKE i \in 1..Len(f)
    <3>1. i + 1 \in 1..Len(x) + Len(f) /\ ~(i + 1 <= Len(x)) /\ (i + 1) - Len(x) = i
      BY <2>1
    <3> QED
      BY <2>2, <3>1, Zenon
  <2> HIDE DEF g
  <2>5. /\ g \o z \in Seq(S) /\ Len(g \o z) = Len(f) + 2
        /\ \A i \in 1..Len(g) + Len(z) : (g \o z)[i] = IF i <= Len(g) THEN g[i] ELSE z[i - Len(g)]
    <3>1. g \o z \in Seq(S) /\ Len(g \o z) = Len(g) + Len(z)
          /\ \A i \in 1..Len(g) + Len(z) : (g \o z)[i] = IF i <= Len(g) THEN g[i] ELSE z[i - Len(g)]
      BY <2>1, <2>3, ConcatProperties, Zenon
    <3>2. Len(g) + Len(z) = Len(f) + 2
      BY <2>1, <2>3
    <3> QED
      BY <3>1, <3>2, Zenon
  <2> DEFINE h == g \o z
  <2>6. h \in Seq(S) /\ Len(h) = Len(f) + 2
    BY <2>5
  <2>7. \A i \in 1..Len(f) : h[i + 1] = f[i]
    <3> TAKE i \in 1..Len(f)
    <3>1. i + 1 \in 1..Len(g) + Len(z) /\ i + 1 <= Len(g)
      BY <2>1, <2>3
    <3>2. h[i + 1] = g[i + 1]
      BY <2>5, <3>1, Zenon
    <3> QED
      BY <2>4, <3>2
  <2> HIDE DEF h
  <2>8. /\ SubSeq(h, 2, Len(h) - 1) \in Seq(S) /\ Len(SubSeq(h, 2, Len(h) - 1)) = Len(f)
        /\ \A i \in 1..Len(f) : SubSeq(h, 2, Len(h) - 1)[i] = h[i + 1]
    BY <2>6
  <2>9. SubSeq(h, 2, Len(h) - 1) = f
    BY <2>7, <2>8, SeqEqual
  <2> QED
    BY <2>9, Zenon DEF h, g, x, z
<1>2. ASSUME NEW S, NEW x \in S, NEW y \in S, NEW z \in S PROVE <<x, y, z>> \in Seq(S) /\ <<x, z>> \in Seq(S)
  OBVIOUS
<1> DEFINE e == j.interpreter.executable  o == Jail!Program(j, program)  f == Jail!Flags(j)
           S == {"-I", "-S", "-s", "-B"} \cup {e} \cup {o}
<1>3. a = <<e>> \o f \o <<o>>
  BY Zenon DEF Jail!Arguments
<1>4. f = <<"-I", "-S", "-B">> \/ f = <<"-s", "-B">>
  BY Zenon DEF Jail!Flags
<1>5. "-I" \in S /\ "-S" \in S /\ "-s" \in S /\ "-B" \in S /\ e \in S /\ o \in S
  OBVIOUS
<1> HIDE DEF S, e, o, f
<1>6. <<"-I", "-S", "-B">> \in Seq(S) /\ <<"-s", "-B">> \in Seq(S)
  BY <1>2, <1>5, Zenon
<1>7. f \in Seq(S)
  BY <1>4, <1>6, Zenon
<1>8. SubSeq(a, 2, Len(a) - 1) = f
  BY <1>1, <1>3, <1>5, <1>7, Zenon
<1> QED
  BY <1>8 DEF f

\* What a lock is computed from.
LEMMA JailIdentity ==
    ASSUME NEW j, NEW t, t = Jail!Unmeasured(j), NEW lock, lock = Jail!ProfileIdentity(j)
    PROVE  /\ lock.rules = IF j.platform = "macos" THEN Jail!Profile(t, Jail!Placeholder("program")) ELSE <<>>
           /\ lock.mounts = IF j.platform = "linux" THEN Jail!Mounts(t, pj_System.linux \cup Jail!Programmes) ELSE <<>>
           /\ lock.environment = Jail!RootsOverlay(j)
                 \cup (IF j.broker = Jail!NoBroker THEN {} ELSE Jail!Proxies \cup Jail!NoProxies \cup
                     {Jail!Certificates})
           /\ j.interpreter # Jail!NoInterpreter => lock.flags = Jail!Flags(j)
<1>1. lock =
        [platform |-> j.platform, brokered |-> j.broker # Jail!NoBroker,
         rules |-> IF j.platform = "macos" THEN Jail!Profile(t, Jail!Placeholder("program")) ELSE <<>>,
         mounts |-> IF j.platform = "linux" THEN Jail!Mounts(t, pj_System.linux \cup Jail!Programmes) ELSE <<>>,
         environment |-> Jail!RootsOverlay(j)
                 \cup (IF j.broker = Jail!NoBroker THEN {} ELSE Jail!Proxies \cup Jail!NoProxies \cup
                     {Jail!Certificates}),
         version |-> j.interpreter.version,
         flags |-> IF j.interpreter = Jail!NoInterpreter THEN <<>> ELSE Jail!Flags(j),
         declared |-> j.roots]
  BY Zenon DEF Jail!ProfileIdentity
<1> QED
  BY <1>1

\* A launch is what was locked (LaunchIsAsLocked): profile_identity.
LEMMA JailIsAsLocked == JailInv => Jail!LaunchIsAsLocked
<1> SUFFICES ASSUME JailInv, pj_launched # Jail!Nothing PROVE Jail!LaunchIsAsLocked
  BY Zenon DEF Jail!LaunchIsAsLocked
<1>0. PICK program \in pj_Programs : JailReady(program) /\ pj_launched = Jail!Launched(program)
  BY JailIsLaunched
<1> DEFINE l == pj_launched  lock == Jail!ProfileIdentity(pj_jail)  t == Jail!Unmeasured(pj_jail)  i ==
    pj_jail.interpreter
           RulesLeft(rules) == [k \in DOMAIN rules |-> JailLeft(rules[k])]
           MountsLeft(mounts) == [k \in DOMAIN mounts |-> JailMountLeft(mounts[k])]
           there == pj_System.linux \cup Jail!Programmes
<1>1. /\ l.arguments = Jail!Arguments(pj_jail, program) /\ l.environment = Jail!Environment(pj_jail)
      /\ l.rules = IF pj_platform = "macos" THEN Jail!Profile(pj_jail, program) ELSE <<>>
      /\ l.mounts = IF pj_platform = "linux" THEN Jail!Mounts(pj_jail, DOMAIN pj_Installed) ELSE <<>>
  BY <1>0, JailTells, Zenon
<1>2. pj_jail.platform = pj_platform
  <2>1. JailBuilt(pj_jail, pj_platform)
    BY <1>0, Zenon DEF JailReady
  <2> QED
    BY <2>1 DEF JailBuilt
<1>3. /\ lock.rules = IF pj_platform = "macos" THEN Jail!Profile(t, Jail!Placeholder("program")) ELSE <<>>
      /\ lock.mounts = IF pj_platform = "linux" THEN Jail!Mounts(t, there) ELSE <<>>
      /\ lock.environment = Jail!RootsOverlay(pj_jail)
            \cup (IF pj_jail.broker = Jail!NoBroker THEN {} ELSE Jail!Proxies \cup Jail!NoProxies \cup
                {Jail!Certificates})
      /\ i # Jail!NoInterpreter => lock.flags = Jail!Flags(pj_jail)
  BY <1>2, JailIdentity, Zenon
<1> HIDE DEF l, lock
<1>4. RulesLeft(l.rules) = RulesLeft(lock.rules)
  <2>1. CASE pj_platform # "macos"
    BY <1>1, <1>3, <2>1, Zenon
  <2>2. CASE pj_platform = "macos"
    <3> DEFINE R == Jail!Profile(pj_jail, program)  S == Jail!Profile(t, Jail!Placeholder("program"))
    <3>1. DOMAIN R = 1..15 /\ DOMAIN S = 1..15
      BY DEF Jail!Profile
    <3>2. \A k \in 1..15 : JailLeft(R[k]) = JailLeft(S[k])
      BY <1>0, JailRulesAlike, Zenon
    <3>3. l.rules = R /\ lock.rules = S
      BY <1>1, <1>3, <2>2, Zenon
    <3> HIDE DEF R, S
    <3> QED
      BY <3>1, <3>2, <3>3
  <2> QED
    BY <2>1, <2>2
<1>5. MountsLeft(l.mounts) = MountsLeft(lock.mounts)
  <2>1. CASE pj_platform # "linux"
    BY <1>1, <1>3, <2>1, Zenon
  <2>2. CASE pj_platform = "linux"
    <3> DEFINE R == Jail!Mounts(pj_jail, DOMAIN pj_Installed)  S == Jail!Mounts(t, there)
    <3>1. DOMAIN R = 1..11 /\ DOMAIN S = 1..11
      BY DEF Jail!Mounts
    <3>2. \A k \in 1..11 : JailMountLeft(R[k]) = JailMountLeft(S[k])
      BY <1>0, JailMountsAlike, Zenon
    <3>3. l.mounts = R /\ lock.mounts = S
      BY <1>1, <1>3, <2>2, Zenon
    <3> HIDE DEF R, S
    <3> QED
      BY <3>1, <3>2, <3>3
  <2> QED
    BY <2>1, <2>2
<1>6. i # Jail!NoInterpreter => SubSeq(l.arguments, 2, Len(l.arguments) - 1) = lock.flags
  BY <1>1, <1>3, JailFlags, Zenon
<1>7. {v \in DOMAIN l.environment : l.environment[v] = "jail"} \ lock.environment \subseteq Jail!Home
  <2> DEFINE e == Jail!Environment(pj_jail)
  <2>1. \A v \in DOMAIN e : e[v] = "jail" =>
          \/ v \in Jail!Home \/ v \in Jail!RootsOverlay(pj_jail)
          \/ pj_jail.broker # Jail!NoBroker /\ v \in Jail!Proxies \cup Jail!NoProxies
          \/ v = Jail!Certificates /\ pj_jail.broker.bundle # Jail!Nowhere
    BY JailVariables, Zenon
  <2>2. pj_jail.broker.bundle # Jail!Nowhere => pj_jail.broker # Jail!NoBroker
    BY DEF Jail!NoBroker
  <2>3. l.environment = e
    BY <1>1
  <2> HIDE DEF e
  <2> QED
    BY <1>3, <2>1, <2>2, <2>3
<1>8. \A rules : RulesLeft(rules) =
        [k \in DOMAIN rules |-> [rules[k] EXCEPT !.at = {p \in rules[k].at : p \notin JailMeasured /\ ~Jail!Under(p,
            <<"placeholder">>)}]]
  BY Zenon DEF JailLeft, JailBinds, JailPlaceheld
<1>9. \A mounts : MountsLeft(mounts) =
        [k \in DOMAIN mounts |->
            [mounts[k] EXCEPT !.pairs = {m \in mounts[k].pairs :
                (m[2] \notin JailMeasured /\ ~Jail!Under(m[2], <<"placeholder">>)) /\ m[2] \notin JailGone}]]
  BY Zenon DEF JailMountLeft, JailBinds, JailPlaceheld
<1> HIDE DEF RulesLeft, MountsLeft
<1> QED
  BY <1>4, <1>5, <1>6, <1>7, <1>8, <1>9, Zenon DEF Jail!LaunchIsAsLocked, JailMeasured, JailGone, l, lock

\* What a jail launches is what it says of itself and what its lock binds, and what
\* was staged for it fits (JailKeepsItsAudit), whatever changes on the host and
\* however many threads stage: GovernedProcessJail::build, command, profile_identity,
\* stage_input_file.
THEOREM AuditIsKept == Jail!Spec => []JailKeepsItsAudit
<1>1. JailInv => JailKeepsItsAudit
  BY JailKeepsAudit, JailIsAsLocked, Zenon DEF JailInv, JailStaged, JailKeepsItsAudit
<1> QED
  BY <1>1, JailStarts, JailStep, PTL DEF Jail!Spec
=============================================================================
