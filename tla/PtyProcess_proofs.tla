-------------------------- MODULE PtyProcess_proofs --------------------------
(***************************************************************************)
(* Theorems about one interactive execution, with their proofs: type       *)
(* correctness with the limits of the output and of the input, and that    *)
(* the answer answers for the process, for terminals of any length and     *)
(* channels of any depth.  IInv is the inductive invariant.  Its core is   *)
(* an account of the output: while nothing but chunks is ahead, what was   *)
(* taken from the terminal is captured, in the channel, or in the hand of  *)
(* the reader; the end is behind all of it.                                *)
(***************************************************************************)
EXTENDS PtyProcess, TLAPS

BeforeSpawn == {"admit", "admitted", "opened", "spawning"}
Collecting == {"look", "wait", "receive", "take", "bridge_idle", "bridge_output"}
Overrides == {"complete", "cancelled", "timed_out", "output_limit"}
Exits == {"success", "failure"}
Events == {"chunk", "done", "failed", "write_failed"}

\* The variables have their types, and every counter its bound.
TypeOK ==
    /\ leader \in {"unborn", "running", "exited", "reaped"}
    /\ code \in Exits \cup {"none"}
    /\ members \in {"none", "on", "off"} /\ escaped \in BOOLEAN
    /\ written \in 0..MaxWrites
    /\ cancelled \in BOOLEAN /\ expired \in BOOLEAN
    /\ pc \in BeforeSpawn \cup {"setup"} \cup Collecting \cup {"close", "join", "returned"}
    /\ status \in Exits \cup {"none"}
    /\ override \in Overrides \cup {"none"}
    /\ failed \in BOOLEAN /\ done \in BOOLEAN
    /\ idle \in 0..(MaxIdle + 1) /\ (pc \in Collecting => idle <= MaxIdle)
    /\ captured \in 0..MaxOutput
    /\ total_input \in 0..MaxInput /\ open \in BOOLEAN
    /\ queue \in Seq(Events) /\ Len(queue) <= Depth
    /\ receiver \in BOOLEAN
    /\ inputs \in 0..InputDepth
    /\ reader \in {"none", "reading", "chunk", "done", "failed", "ended"}
    /\ taken \in Nat
    /\ writer \in {"none", "waiting", "writing", "failed", "ended"}
    /\ stop \subseteq {"reader", "writer"}
    /\ result \in {"none", "not_dispatched", "refused", "error"} \cup Overrides \cup Exits

\* Nothing has decided the call but the process itself.
Undecided == ~failed /\ override = "none"

\* A leader that is gone left no group, and its end is known once it has exited.
ProcessState ==
    /\ leader \in {"unborn", "reaped"} => members = "none"
    /\ code = "none" <=> leader \in {"unborn", "running"}
    /\ status # "none" => status = code /\ leader = "reaped"

\* Nothing was started for the call.
Unused ==
    /\ reader = "none" /\ writer = "none" /\ queue = <<>> /\ taken = 0 /\ captured = 0
    /\ status = "none" /\ ~done /\ idle = 0 /\ Undecided

\* What a stage of the collecting thread says of the process and of the threads.
PhaseState ==
    /\ leader = "unborn" <=> pc \in BeforeSpawn \/ result \in {"not_dispatched", "refused"}
    /\ result # "none" <=> pc = "returned"
    /\ leader = "unborn" \/ pc = "setup" => Unused
    /\ pc \in Collecting => Undecided
    /\ pc \in {"close", "join"} /\ Undecided => status # "none" /\ done
    /\ pc \in {"join", "returned"} => leader \in {"unborn", "reaped"}
    /\ pc = "returned" => reader \in {"none", "ended"} /\ writer \in {"none", "ended"}
    /\ result \in Exits => Undecided /\ status = result /\ done

\* The reader has taken all that will ever be written.
Drained == taken = written /\ ~OnTerminal
InHand == IF reader = "chunk" THEN 1 ELSE 0
\* The first n events of the channel are chunks.
Clean(n) == \A i \in 1..n : queue[i] = "chunk"

\* While nothing decided the call: the end is behind exactly the chunks that were
\* taken, also once it was received, and before it nothing is lost.
Account ==
    /\ done => taken = captured
    /\ \A d \in 1..Len(queue) : queue[d] = "done" /\ Clean(d - 1) => taken = captured + d - 1
    /\ reader \in {"reading", "chunk", "done"} /\ Clean(Len(queue)) =>
        taken = captured + Len(queue) + InHand

\* The end is told once, by a reader that drained the terminal, and no chunk is
\* behind it.
EndState ==
    /\ taken <= written
    /\ reader = "done" => Drained
    /\ done \/ (\E d \in 1..Len(queue) : queue[d] = "done") => reader = "ended" /\ Drained
    /\ \A i \in 1..Len(queue) : queue[i] = "chunk" =>
        ~done /\ \A d \in 1..i : queue[d] # "done"

FlowState == EndState /\ (Undecided => Account)

IInv == TypeOK /\ ProcessState /\ PhaseState /\ FlowState
-----------------------------------------------------------------------------
(* What a step that leaves the account alone preserves.                    *)

\* The account survives a step that neither reads, sends nor receives.
LEMMA FlowKept ==
    ASSUME IInv, UNCHANGED <<queue, done, captured, taken, reader>>,
           taken <= written', Drained => Drained', Undecided' => Undecided
    PROVE  FlowState'
<1>1. EndState'
  BY DEF IInv, FlowState, EndState
<1>2. Undecided' => Account'
  BY DEF IInv, FlowState, Account, Clean, InHand
<1> QED
  BY <1>1, <1>2 DEF FlowState

\* The tree loses processes and writes nothing.
LEMMA TreeShrinks ==
    ASSUME UNCHANGED <<escaped, written, taken>>,
           leader' = "running" => leader = "running",
           members' = "on" => members = "on"
    PROVE  Drained => Drained'
BY DEF Drained, OnTerminal

\* So it does a step that leaves the tree and the verdict alone too.
LEMMA FlowUntouched ==
    ASSUME IInv, UNCHANGED <<queue, done, captured, taken, reader, leader, members, escaped, written>>,
           UNCHANGED <<override, failed>>
    PROVE  FlowState'
<1>1. taken <= written'
  BY DEF IInv, FlowState, EndState
<1>2. Drained => Drained'
  BY DEF Drained, OnTerminal
<1>3. Undecided' => Undecided
  BY DEF Undecided
<1> QED
  BY <1>1, <1>2, <1>3, FlowKept

\* The actions of the process tree.
LEMMA ProcessTreeStep ==
    ASSUME IInv, ProcessTree
    PROVE  IInv'
<1>1. /\ UNCHANGED <<cancelled, expired, pc, status, override, failed, done, idle, captured>>
      /\ UNCHANGED <<total_input, open, queue, inputs, reader, taken, writer, receiver, stop, result>>
  BY DEF ProcessTree, clocks, verdict, input, threads
<1>2. /\ leader' = leader \/ (leader = "running" /\ leader' = "exited" /\ code' \in Exits)
      /\ leader' = leader => code' = code
      /\ members' = members \/ members' = "none" \/ (leader = "running" /\ leader' = leader /\ members' \in {"on", "off"})
      /\ written' = written \/ (written' = written + 1 /\ OnTerminal /\ written < MaxWrites)
      /\ escaped' = escaped \/ escaped' = FALSE \/ (escaped' = TRUE /\ members = "on")
  BY DEF ProcessTree, tree, Exits
<1>3. TypeOK'
  <2>1. written' \in 0..MaxWrites
    BY <1>2, PtyAssumption DEF IInv, TypeOK
  <2>2. escaped' \in BOOLEAN
    BY <1>2 DEF IInv, TypeOK
  <2> QED
    BY <1>1, <1>2, <2>1, <2>2 DEF IInv, TypeOK, Exits
<1>4. ProcessState'
  BY <1>1, <1>2 DEF IInv, TypeOK, ProcessState, Exits
<1>5. PhaseState'
  BY <1>1, <1>2 DEF IInv, PhaseState, Unused, Undecided
<1>6. FlowState'
  <2>1. taken <= written'
    BY <1>2 DEF IInv, TypeOK, FlowState, EndState
  <2>2. Drained => Drained'
    BY <1>1, <1>2 DEF Drained, OnTerminal, IInv, TypeOK
  <2> QED
    BY <1>1, <2>1, <2>2, FlowKept, Zenon DEF Undecided
<1> QED
  BY <1>3, <1>4, <1>5, <1>6 DEF IInv

\* The caller cancels, and the deadline passes.
LEMMA WorldStep ==
    ASSUME IInv, Cancel \/ Expire
    PROVE  IInv'
<1>1. /\ UNCHANGED <<leader, code, members, escaped, written, pc, status, override, failed, done, idle>>
      /\ UNCHANGED <<captured, total_input, open, queue, inputs, reader, taken, writer, receiver, stop, result>>
      /\ cancelled' \in BOOLEAN /\ expired' \in BOOLEAN
  BY DEF Cancel, Expire, tree, verdict, input, threads, IInv, TypeOK
<1>2. TypeOK'
  BY <1>1 DEF IInv, TypeOK
<1>3. ProcessState' /\ PhaseState'
  BY <1>1 DEF IInv, ProcessState, PhaseState, Unused, Undecided
<1>4. FlowState'
  BY <1>1, FlowUntouched
<1> QED
  BY <1>2, <1>3, <1>4 DEF IInv

-----------------------------------------------------------------------------
(* The threads.                                                            *)

\* A step of a thread leaves everything to show but the types of what it changes,
\* that it had not ended, and the account.
LEMMA ThreadKeeps ==
    ASSUME IInv, ThreadOnly,
           reader' \in {"none", "reading", "chunk", "done", "failed", "ended"},
           writer' \in {"none", "waiting", "writing", "failed", "ended"},
           taken' \in Nat, inputs' \in 0..InputDepth, queue' \in Seq(Events), Len(queue') <= Depth,
           reader' # reader => reader \notin {"none", "ended"},
           writer' # writer => writer \notin {"none", "ended"},
           reader' = reader => UNCHANGED taken,
           reader' = reader /\ writer' = writer => UNCHANGED queue,
           FlowState'
    PROVE  IInv'
<1>1. /\ UNCHANGED <<leader, code, members, escaped, written, cancelled, expired, pc, status, override>>
      /\ UNCHANGED <<failed, done, idle, captured, total_input, open, receiver, stop, result>>
  BY DEF ThreadOnly, tree, clocks, verdict, input
<1>2. TypeOK'
  BY <1>1 DEF IInv, TypeOK
<1>3. ProcessState'
  BY <1>1 DEF IInv, ProcessState
<1>4. PhaseState'
  <2>1. reader \in {"none", "ended"} => reader' = reader /\ taken' = taken
    OBVIOUS
  <2>2. writer \in {"none", "ended"} => writer' = writer
    OBVIOUS
  <2>3. Unused => Unused'
    BY <1>1, <2>1, <2>2 DEF Unused, Undecided
  <2> QED
    BY <1>1, <2>1, <2>2, <2>3 DEF IInv, PhaseState, Undecided
<1> QED
  BY <1>2, <1>3, <1>4 DEF IInv

\* One read: a chunk, or the end.
LEMMA ReadStep ==
    ASSUME IInv, Read, ThreadOnly
    PROVE  IInv'
<1>1. /\ reader = "reading" /\ UNCHANGED <<queue, inputs, writer>>
      /\ \/ taken < written /\ taken' = taken + 1 /\ reader' = "chunk"
         \/ taken = written /\ ~OnTerminal /\ taken' = taken /\ reader' = "done"
  BY DEF Read
<1>2. /\ UNCHANGED <<leader, code, members, escaped, written, cancelled, expired, pc, status, override>>
      /\ UNCHANGED <<failed, done, idle, captured, total_input, open, receiver, stop, result>>
  BY DEF ThreadOnly, tree, clocks, verdict, input
<1>3. taken \in Nat /\ captured \in Nat /\ Len(queue) \in Nat /\ written \in Nat
  BY DEF IInv, TypeOK
<1>4. EndState'
  BY <1>1, <1>2, <1>3 DEF IInv, FlowState, EndState, Drained, OnTerminal
<1>5. ASSUME Undecided' PROVE Account'
  <2>1. Account /\ EndState
    BY <1>2, <1>5 DEF IInv, FlowState, Undecided
  <2>2. ~done /\ \A d \in 1..Len(queue) : queue[d] # "done"
    BY <1>1, <2>1 DEF EndState
  <2>3. Clean(Len(queue))' => taken' = captured' + Len(queue') + InHand'
    BY <1>1, <1>2, <1>3, <2>1 DEF Account, Clean, InHand
  <2> QED
    BY <1>1, <1>2, <2>2, <2>3 DEF Account
<1>6. FlowState'
  BY <1>4, <1>5 DEF FlowState
<1> QED
  BY <1>1, <1>3, <1>6, ThreadKeeps DEF IInv, TypeOK

\* A reader that ends, or a read that fails, before any event of it.
LEMMA ReaderQuits ==
    ASSUME IInv, ThreadOnly, reader \notin {"none", "ended"}, reader' \in {"failed", "ended"},
           UNCHANGED <<queue, inputs, taken, writer>>
    PROVE  IInv'
<1>1. UNCHANGED <<leader, members, escaped, written, override, failed, done, captured>>
  BY DEF ThreadOnly, tree, verdict
<1>2. ~done /\ \A d \in 1..Len(queue) : queue[d] # "done"
  BY DEF IInv, FlowState, EndState
<1>3. EndState'
  BY <1>1, <1>2 DEF IInv, FlowState, EndState
<1>4. Account'
  BY <1>1, <1>2 DEF Account
<1>5. FlowState'
  BY <1>3, <1>4 DEF FlowState
<1> QED
  BY <1>5, ThreadKeeps DEF IInv, TypeOK

\* What a sent event does to the channel.
LEMMA Appended ==
    ASSUME NEW e \in Events, IInv, Len(queue) < Depth, queue' = Append(queue, e)
    PROVE  /\ queue' \in Seq(Events) /\ Len(queue') = Len(queue) + 1 /\ Len(queue') <= Depth
           /\ Len(queue) \in Nat
           /\ queue'[Len(queue')] = e /\ \A i \in 1..Len(queue) : queue'[i] = queue[i]
<1>1. queue \in Seq(Events) /\ Depth \in Nat
  BY PtyAssumption DEF IInv, TypeOK
<1> QED
  BY <1>1

\* The reader tells a chunk, the end or a failure.
LEMMA ReaderSendsStep ==
    ASSUME IInv, ReaderSends, ThreadOnly
    PROVE  IInv'
<1>1. /\ reader \in {"chunk", "done", "failed"} /\ UNCHANGED <<inputs, taken, writer>>
      /\ reader' = IF reader = "chunk" /\ receiver THEN "reading" ELSE "ended"
  BY DEF ReaderSends
<1>2. UNCHANGED <<leader, members, escaped, written, override, failed, done, captured, receiver>>
  BY DEF ThreadOnly, tree, verdict
<1>3. CASE ~receiver
  BY <1>1, <1>3, ReaderQuits DEF ReaderSends, Sends
<1>4. CASE receiver
  <2>1. Len(queue) < Depth /\ queue' = Append(queue, reader) /\ reader \in Events
    BY <1>1, <1>4 DEF ReaderSends, Sends, Events
  <2>2. /\ queue' \in Seq(Events) /\ Len(queue') = Len(queue) + 1 /\ Len(queue') <= Depth
        /\ Len(queue) \in Nat
        /\ queue'[Len(queue')] = reader /\ \A i \in 1..Len(queue) : queue'[i] = queue[i]
    BY <2>1, Appended
  <2>3. taken \in Nat /\ captured \in Nat
    BY DEF IInv, TypeOK
  <2>4. ~done /\ \A d \in 1..Len(queue) : queue[d] # "done"
    BY <1>1 DEF IInv, FlowState, EndState
  <2>5. \A d \in 1..Len(queue') : d \in 1..Len(queue) \/ d = Len(queue')
    BY <2>2
  <2>6. EndState'
    <3>1. Drained' = Drained
      BY <1>1, <1>2 DEF Drained, OnTerminal
    <3>2. (\E d \in 1..Len(queue') : queue'[d] = "done") => reader = "done"
      BY <2>2, <2>4, <2>5
    <3>3. \A i \in 1..Len(queue') : queue'[i] = "chunk" => \A d \in 1..i : queue'[d] # "done"
      <4> SUFFICES ASSUME NEW i \in 1..Len(queue'), queue'[i] = "chunk", NEW d \in 1..i
                   PROVE  queue'[d] # "done"
        OBVIOUS
      <4>1. CASE d = Len(queue')
        BY <2>2, <4>1
      <4>2. CASE d # Len(queue')
        BY <2>2, <2>4, <4>2
      <4> QED
        BY <4>1, <4>2
    <3>4. taken' <= written'
      BY <1>1, <1>2 DEF IInv, FlowState, EndState
    <3>5. reader = "done" => Drained /\ reader' = "ended"
      BY <1>1 DEF IInv, FlowState, EndState
    <3>6. reader' # "done" /\ ~done'
      BY <1>1, <1>2, <2>4
    <3> QED
      BY <3>1, <3>2, <3>3, <3>4, <3>5, <3>6 DEF EndState
  <2>7. ASSUME Undecided' PROVE Account'
    <3>1. Account
      BY <1>2, <2>7 DEF IInv, FlowState, Undecided
    <3>2. ASSUME NEW d \in 1..Len(queue'), queue'[d] = "done", Clean(d - 1)'
          PROVE  taken' = captured' + d - 1
      <4>1. d = Len(queue') /\ reader = "done"
        BY <2>2, <2>4, <2>5, <3>2
      <4>2. Clean(Len(queue))
        BY <2>2, <3>2, <4>1 DEF Clean
      <4> QED
        BY <1>1, <1>2, <2>2, <2>3, <3>1, <4>1, <4>2 DEF Account, InHand
    <3>3. ASSUME reader' \in {"reading", "chunk", "done"}, Clean(Len(queue))'
          PROVE  taken' = captured' + Len(queue') + InHand'
      <4>1. reader = "chunk" /\ reader' = "reading"
        BY <1>1, <3>3
      <4>2. Clean(Len(queue))
        BY <2>2, <3>3 DEF Clean
      <4> QED
        BY <1>1, <1>2, <2>2, <2>3, <3>1, <4>1, <4>2 DEF Account, InHand
    <3>4. ~done'
      BY <1>2, <2>4
    <3> QED
      BY <3>2, <3>3, <3>4 DEF Account
  <2>8. FlowState'
    BY <2>6, <2>7 DEF FlowState
  <2> QED
    BY <1>1, <2>2, <2>8, ThreadKeeps DEF IInv, TypeOK
<1> QED
  BY <1>3, <1>4 DEF IInv, TypeOK

\* One step of the reader.
LEMMA ReaderStep ==
    ASSUME IInv, Reader \/ ReadFails
    PROVE  IInv'
<1>1. CASE Read /\ ThreadOnly
  BY <1>1, ReadStep
<1>2. CASE ReaderStops /\ ThreadOnly
  BY <1>2, ReaderQuits DEF ReaderStops
<1>3. CASE ReaderSends /\ ThreadOnly
  BY <1>3, ReaderSendsStep
<1>4. CASE ReadFails
  BY <1>4, ReaderQuits DEF ReadFails
<1> QED
  BY <1>1, <1>2, <1>3, <1>4 DEF Reader

\* The writer moves, and the output is not its concern.
LEMMA WriterMoves ==
    ASSUME IInv, ThreadOnly, writer \notin {"none", "ended"},
           writer' \in {"waiting", "writing", "failed", "ended"}, inputs' \in 0..InputDepth,
           UNCHANGED <<queue, reader, taken>>
    PROVE  IInv'
<1>1. UNCHANGED <<leader, members, escaped, written, override, failed, done, captured>>
  BY DEF ThreadOnly, tree, verdict
<1>2. FlowState'
  BY <1>1, FlowUntouched
<1> QED
  BY <1>2, ThreadKeeps DEF IInv, TypeOK

\* A failed write is told behind what is in the channel.
LEMMA WriteFailureStep ==
    ASSUME IInv, WriteFailureSent, ThreadOnly
    PROVE  IInv'
<1>1. writer = "failed" /\ writer' = "ended" /\ UNCHANGED <<inputs, reader, taken>>
  BY DEF WriteFailureSent
<1>2. UNCHANGED <<leader, members, escaped, written, override, failed, done, captured>>
  BY DEF ThreadOnly, tree, verdict
<1>3. CASE ~receiver
  BY <1>1, <1>3, WriterMoves DEF WriteFailureSent, Sends, IInv, TypeOK
<1>4. CASE receiver
  <2>1. Len(queue) < Depth /\ queue' = Append(queue, "write_failed") /\ "write_failed" \in Events
    BY <1>4 DEF WriteFailureSent, Sends, Events
  <2>2. /\ queue' \in Seq(Events) /\ Len(queue') = Len(queue) + 1 /\ Len(queue') <= Depth
        /\ Len(queue) \in Nat
        /\ queue'[Len(queue')] = "write_failed" /\ \A i \in 1..Len(queue) : queue'[i] = queue[i]
    BY <2>1, Appended
  <2>3. \A d \in 1..Len(queue') : queue'[d] # "write_failed" => d \in 1..Len(queue) /\ queue'[d] = queue[d]
    BY <2>2
  <2>4. EndState'
    <3>1. Drained' = Drained
      BY <1>1, <1>2 DEF Drained, OnTerminal
    <3>2. (\E d \in 1..Len(queue') : queue'[d] = "done") => \E d \in 1..Len(queue) : queue[d] = "done"
      BY <2>3
    <3>3. \A i \in 1..Len(queue') : queue'[i] = "chunk" => ~done /\ \A d \in 1..i : queue'[d] # "done"
      <4> SUFFICES ASSUME NEW i \in 1..Len(queue'), queue'[i] = "chunk"
                   PROVE  ~done /\ \A d \in 1..i : queue'[d] # "done"
        OBVIOUS
      <4>1. i \in 1..Len(queue) /\ queue[i] = "chunk"
        BY <2>3
      <4>2. ~done /\ \A d \in 1..i : queue[d] # "done"
        BY <4>1 DEF IInv, FlowState, EndState
      <4>3. \A d \in 1..i : d \in 1..Len(queue)
        BY <2>2, <4>1
      <4> QED
        BY <2>2, <4>2, <4>3
    <3> QED
      BY <1>1, <1>2, <3>1, <3>2, <3>3 DEF IInv, FlowState, EndState
  <2>5. ASSUME Undecided' PROVE Account'
    <3>1. Account
      BY <1>2, <2>5 DEF IInv, FlowState, Undecided
    <3>2. ASSUME NEW d \in 1..Len(queue'), queue'[d] = "done", Clean(d - 1)'
          PROVE  taken' = captured' + d - 1
      <4>1. d \in 1..Len(queue) /\ queue[d] = "done"
        BY <2>3, <3>2
      <4>2. Clean(d - 1)
        BY <2>2, <3>2, <4>1 DEF Clean
      <4> QED
        BY <1>1, <1>2, <3>1, <4>1, <4>2 DEF Account
    <3>3. ~Clean(Len(queue))'
      BY <2>2 DEF Clean
    <3> QED
      BY <1>1, <1>2, <3>1, <3>2, <3>3 DEF Account
  <2>6. FlowState'
    BY <2>4, <2>5 DEF FlowState
  <2> QED
    BY <1>1, <2>2, <2>6, ThreadKeeps DEF IInv, TypeOK
<1> QED
  BY <1>3, <1>4 DEF IInv, TypeOK

\* One step of the writer, or of the terminal that takes its input.
LEMMA WriterStep ==
    ASSUME IInv, Writer \/ Written
    PROVE  IInv'
<1>1. inputs \in 0..InputDepth /\ InputDepth \in Nat
  BY PtyAssumption DEF IInv, TypeOK
<1>2. CASE Receives /\ ThreadOnly
  <2>1. /\ writer = "waiting" /\ writer' \in {"writing", "ended"} /\ UNCHANGED <<queue, reader, taken>>
        /\ \/ inputs > 0 /\ inputs' = inputs - 1
           \/ inputs' = inputs
    BY <1>2 DEF Receives
  <2>2. inputs' \in 0..InputDepth
    BY <1>1, <2>1
  <2> QED
    BY <1>2, <2>1, <2>2, WriterMoves
<1>3. CASE WriterStops /\ ThreadOnly
  BY <1>1, <1>3, WriterMoves DEF WriterStops
<1>4. CASE WriteFailureSent /\ ThreadOnly
  BY <1>4, WriteFailureStep
<1>5. CASE Written
  BY <1>1, <1>5, WriterMoves DEF Written
<1> QED
  BY <1>2, <1>3, <1>4, <1>5 DEF Writer

-----------------------------------------------------------------------------
(* The collecting thread before its loop.                                  *)

\* A check before dispatch goes on, refuses or does not dispatch.
LEMMA UnstartedStep ==
    ASSUME IInv, NEW here \in BeforeSpawn, NEW ready \in BeforeSpawn, Unstarted(here, ready)
    PROVE  IInv'
<1>1. /\ UNCHANGED <<leader, code, members, escaped, written, cancelled, expired, status, override>>
      /\ UNCHANGED <<failed, done, idle, captured, total_input, open, queue, inputs, reader, taken>>
      /\ UNCHANGED <<writer, receiver, stop>>
      /\ pc = here
      /\ \/ pc' = "returned" /\ result' \in {"not_dispatched", "refused"}
         \/ pc' = ready /\ result' = result
  BY DEF Unstarted, Returns, Goto, tree, clocks, verdict, input, threads
<1>2. TypeOK'
  BY <1>1 DEF IInv, TypeOK, BeforeSpawn, Collecting
<1>3. ProcessState'
  BY <1>1 DEF IInv, ProcessState
<1>4. PhaseState'
  BY <1>1 DEF IInv, PhaseState, Unused, Undecided, BeforeSpawn, Collecting, Exits
<1>5. FlowState'
  BY <1>1, FlowUntouched
<1> QED
  BY <1>2, <1>3, <1>4, <1>5 DEF IInv

\* The process is spawned.
LEMMA SpawnStep ==
    ASSUME IInv, Spawn
    PROVE  IInv'
<1>1. /\ pc = "spawning" /\ pc' = "setup" /\ leader' = "running" /\ receiver' = TRUE
      /\ UNCHANGED <<code, members, escaped, written, cancelled, expired, status, override, failed>>
      /\ UNCHANGED <<done, idle, captured, total_input, open, queue, inputs, reader, taken, writer>>
      /\ UNCHANGED <<stop, result>>
  BY DEF Spawn, Goto, clocks, verdict, input, threads
<1>2. leader = "unborn" /\ Unused /\ result = "none" /\ written \in Nat
  BY <1>1 DEF IInv, PhaseState, BeforeSpawn, TypeOK
<1>3. TypeOK'
  BY <1>1 DEF IInv, TypeOK, Collecting, BeforeSpawn
<1>4. ProcessState'
  BY <1>1, <1>2 DEF IInv, ProcessState, Unused
<1>5. Unused'
  BY <1>1, <1>2 DEF Unused, Undecided
<1>6. PhaseState'
  BY <1>1, <1>2, <1>5 DEF PhaseState, BeforeSpawn, Collecting, Exits
<1>7. FlowState'
  <2>1. 1..Len(queue') = {} /\ Len(queue') = 0
    BY <1>1, <1>2 DEF Unused
  <2>2. EndState'
    BY <1>1, <1>2, <2>1 DEF EndState, Unused
  <2>3. Account'
    BY <1>1, <1>2, <2>1 DEF Account, Unused, InHand
  <2> QED
    BY <2>2, <2>3 DEF FlowState
<1> QED
  BY <1>3, <1>4, <1>6, <1>7 DEF IInv

\* The threads are started, or a failure before that ends the call.
LEMMA SetupStep ==
    ASSUME IInv, Setup
    PROVE  IInv'
<1>1. /\ pc = "setup"
      /\ UNCHANGED <<written, cancelled, expired, status, override, done, idle, captured, queue, taken>>
  BY DEF Setup, clocks
<1>2. Unused /\ result = "none" /\ leader # "unborn" /\ written \in Nat
  BY <1>1 DEF IInv, PhaseState, BeforeSpawn, TypeOK
<1>3. \/ /\ pc' = "returned" /\ result' = "error" /\ Killed /\ receiver' = FALSE
         /\ UNCHANGED <<failed, open, writer, reader, inputs, total_input, stop>>
      \/ /\ pc' = "join" /\ result' = result /\ Killed /\ receiver' = FALSE /\ failed' = TRUE
         /\ writer' = "waiting" /\ open' = FALSE /\ stop' = {"writer"}
         /\ UNCHANGED <<reader, inputs, total_input>>
      \/ /\ pc' = "look" /\ result' = result
         /\ writer' = "waiting" /\ reader' = "reading" /\ open' = TRUE
         /\ inputs' = InitialInput /\ total_input' = InitialInput
         /\ UNCHANGED <<leader, code, members, escaped, receiver, failed, stop>>
  BY DEF Setup, Returns, Goto, tree
<1>4. /\ \/ Killed /\ leader' = "reaped" /\ members' = "none" /\ code' = (IF leader = "running" THEN "failure" ELSE code)
            /\ UNCHANGED escaped
         \/ UNCHANGED <<leader, code, members, escaped>>
  BY <1>3 DEF Killed
<1>5. TypeOK'
  <2>1. InitialInput \in 0..MaxInput /\ InitialInput \in 0..InputDepth
    BY PtyAssumption
  <2>2. idle' = 0 /\ 0 <= MaxIdle
    BY <1>1, <1>2, PtyAssumption DEF Unused
  <2>3. /\ leader' \in {"unborn", "running", "exited", "reaped"}
        /\ code' \in Exits \cup {"none"}
        /\ members' \in {"none", "on", "off"} /\ escaped' \in BOOLEAN
    BY <1>4 DEF IInv, TypeOK, Exits
  <2>4. /\ pc' \in Collecting \cup {"join", "returned"}
        /\ result' \in {"none", "error"}
        /\ failed' \in BOOLEAN /\ open' \in BOOLEAN /\ receiver' \in BOOLEAN
        /\ total_input' \in 0..MaxInput /\ inputs' \in 0..InputDepth
        /\ reader' \in {"none", "reading"} /\ writer' \in {"none", "waiting"}
        /\ stop' \subseteq {"reader", "writer"}
    BY <1>2, <1>3, <2>1 DEF IInv, TypeOK, Collecting, Unused
  <2> QED
    BY <1>1, <2>2, <2>3, <2>4 DEF IInv, TypeOK
<1>6. ProcessState'
  BY <1>1, <1>2, <1>4 DEF IInv, ProcessState, TypeOK, Unused
<1>7. PhaseState'
  <2>1. leader' \notin {"unborn"}
    BY <1>2, <1>4
  <2>2. CASE pc' = "returned"
    BY <1>1, <1>2, <1>3, <1>4, <2>1, <2>2 DEF PhaseState, BeforeSpawn, Collecting, Exits, Unused, Killed
  <2>3. CASE pc' = "join"
    BY <1>1, <1>2, <1>3, <1>4, <2>1, <2>3 DEF PhaseState, BeforeSpawn, Collecting, Exits, Undecided, Killed
  <2>4. CASE pc' = "look"
    BY <1>1, <1>2, <1>3, <2>1, <2>4 DEF PhaseState, BeforeSpawn, Collecting, Exits, Unused, Undecided
  <2> QED
    BY <1>3, <2>2, <2>3, <2>4
<1>8. FlowState'
  <2>1. reader' \in {"none", "reading"}
    BY <1>2, <1>3 DEF Unused
  <2>2. 1..Len(queue') = {} /\ Len(queue') = 0
    BY <1>1, <1>2 DEF Unused
  <2>3. EndState'
    BY <1>1, <1>2, <2>1, <2>2 DEF EndState, Unused
  <2>4. Account'
    BY <1>1, <1>2, <2>1, <2>2 DEF Account, Unused, InHand
  <2> QED
    BY <2>3, <2>4 DEF FlowState
<1> QED
  BY <1>5, <1>6, <1>7, <1>8 DEF IInv

-----------------------------------------------------------------------------
(* The loop.                                                               *)

\* A step of the loop that leaves the channel and its account alone may decide
\* the call, and then it goes to the end.
LEMMA LoopKeeps ==
    ASSUME IInv, pc \in Collecting, LoopOnly, UNCHANGED <<tree, status, done, captured, queue, result>>,
           pc' \in Collecting \cup {"close"}, pc' = "close" => ~Undecided',
           pc' \in Collecting => UNCHANGED <<override, failed>> /\ idle' <= MaxIdle,
           override' \in Overrides \cup {"none"}, failed' \in BOOLEAN,
           Undecided' => Undecided,
           idle' \in 0..(MaxIdle + 1), total_input' \in 0..MaxInput, inputs' \in 0..InputDepth,
           open' \in BOOLEAN, stop' \subseteq {"reader", "writer"}
    PROVE  IInv'
<1>1. /\ UNCHANGED <<leader, code, members, escaped, status, done, captured, queue, result>>
      /\ UNCHANGED <<written, cancelled, expired, reader, taken, writer, receiver>>
  BY DEF LoopOnly, tree, clocks
<1>2. TypeOK'
  BY <1>1 DEF IInv, TypeOK
<1>3. ProcessState'
  BY <1>1 DEF IInv, ProcessState
<1>4. PhaseState'
  <2>1. pc \notin BeforeSpawn \cup {"setup", "close", "join", "returned"}
    BY DEF Collecting, BeforeSpawn
  <2>2. pc' \notin BeforeSpawn \cup {"setup", "join", "returned"}
    BY DEF Collecting, BeforeSpawn
  <2>3. result = "none" /\ leader # "unborn" /\ Undecided
    BY <2>1 DEF IInv, PhaseState
  <2>4. pc' \in Collecting => Undecided'
    BY <2>3 DEF Undecided
  <2> QED
    BY <1>1, <2>2, <2>3, <2>4 DEF PhaseState, Exits
<1>5. FlowState'
  <2>1. taken <= written'
    BY <1>1 DEF IInv, FlowState, EndState
  <2>2. Drained => Drained'
    BY <1>1, TreeShrinks
  <2> QED
    BY <1>1, <2>1, <2>2, FlowKept
<1> QED
  BY <1>2, <1>3, <1>4, <1>5 DEF IInv

\* What holds of the variables that LoopKeeps asks for.
LEMMA InLoop ==
    ASSUME IInv, pc \in Collecting
    PROVE  /\ override = "none" /\ ~failed /\ failed \in BOOLEAN /\ result = "none"
           /\ idle \in 0..(MaxIdle + 1) /\ idle <= MaxIdle /\ total_input \in 0..MaxInput
           /\ inputs \in 0..InputDepth /\ open \in BOOLEAN /\ stop \subseteq {"reader", "writer"}
           /\ MaxIdle \in Nat /\ MaxInput \in Nat /\ InputDepth \in Nat
<1>1. pc \notin BeforeSpawn \cup {"setup", "close", "join", "returned"}
  BY DEF Collecting, BeforeSpawn
<1> QED
  BY <1>1, PtyAssumption DEF IInv, TypeOK, PhaseState, Undecided

\* The caller and the clock are asked.
LEMMA LookStep ==
    ASSUME IInv, Look
    PROVE  IInv'
<1>1. /\ pc = "look" /\ pc \in Collecting /\ LoopOnly
      /\ UNCHANGED <<tree, status, failed, done, idle, captured, total_input, open, queue, inputs, stop, result>>
      /\ \/ override' \in {"cancelled", "timed_out"} /\ pc' = "close"
         \/ override' = override /\ pc' = "wait"
  BY DEF Look, Goto, Collecting, input
<1>2. pc' = "close" => ~Undecided'
  BY <1>1 DEF Undecided
<1>3. Undecided' => Undecided
  BY <1>1, InLoop DEF Undecided
<1> QED
  BY <1>1, <1>2, <1>3, InLoop, LoopKeeps DEF Collecting, Overrides

\* The idle timer runs out.
LEMMA IdleStep ==
    ASSUME IInv, Idle
    PROVE  IInv'
<1>1. /\ pc = "receive" /\ pc \in Collecting /\ LoopOnly /\ idle' = idle + 1
      /\ UNCHANGED <<tree, status, failed, done, captured, total_input, open, queue, inputs, stop, result>>
      /\ \/ override' = "timed_out" /\ pc' = "close"
         \/ override' = override /\ pc' = "bridge_idle" /\ ~(idle + 1 > MaxIdle)
  BY DEF Idle, Goto, Collecting, input
<1>2. pc' = "close" => ~Undecided'
  BY <1>1 DEF Undecided
<1>3. Undecided' => Undecided
  BY <1>1, InLoop DEF Undecided
<1>4. idle' \in 0..(MaxIdle + 1) /\ (pc' \in Collecting => idle' <= MaxIdle)
  BY <1>1, InLoop DEF Collecting
<1> QED
  BY <1>1, <1>2, <1>3, <1>4, InLoop, LoopKeeps DEF Collecting, Overrides

\* The bridge acts, refuses, fails or panics.
LEMMA BridgeStep ==
    ASSUME IInv, Bridge
    PROVE  IInv'
<1>1. PICK then \in {"take", "look"}, activity \in {0, idle} :
        pc \in {"bridge_idle", "bridge_output"} /\ Acts(then, activity) /\ BridgeOnly
  BY DEF Bridge, BridgeIdle, BridgeOutput
<1>2. pc \in Collecting /\ then \in Collecting /\ then # "close" /\ LoopOnly /\ UNCHANGED <<tree, status, done, captured, queue>>
  BY <1>1 DEF BridgeOnly, Collecting
<1>3. /\ result' = result
      /\ \/ /\ pc' = then /\ UNCHANGED <<override, failed>>
         \/ /\ pc' = "close" /\ override' \in {"complete", "cancelled"} /\ failed' = failed
         \/ /\ pc' = "close" /\ failed' = TRUE /\ override' = override
  BY <1>1 DEF Acts, Goto
<1>4. idle' \in {idle, activity}
  BY <1>1 DEF Acts, input
<1>5. /\ UNCHANGED <<total_input, inputs>> \/ (Fits /\ total_input' = total_input + 1 /\ inputs' = inputs + 1)
      /\ open' \in {open, FALSE} /\ stop' \in {stop, stop \cup {"writer"}}
  BY <1>1 DEF Acts, input
<1>6. total_input' \in 0..MaxInput /\ inputs' \in 0..InputDepth
  BY <1>2, <1>5, InLoop DEF Fits
<1>7. open' \in BOOLEAN /\ stop' \subseteq {"reader", "writer"}
  BY <1>2, <1>5, InLoop
<1>8. idle' \in 0..(MaxIdle + 1) /\ idle' <= MaxIdle
  BY <1>2, <1>4, InLoop
<1>9. pc' = "close" => ~Undecided'
  BY <1>2, <1>3 DEF Undecided
<1>10. Undecided' => Undecided
  BY <1>2, InLoop DEF Undecided
<1>11. override' \in Overrides \cup {"none"} /\ failed' \in BOOLEAN
  BY <1>2, <1>3, InLoop DEF Overrides
<1>12. pc' \in Collecting => UNCHANGED <<override, failed>>
  BY <1>2, <1>3 DEF Collecting
<1> QED
  BY <1>2, <1>3, <1>6, <1>7, <1>8, <1>9, <1>10, <1>11, <1>12, LoopKeeps

\* The leader is asked for its exit.
LEMMA TryWaitStep ==
    ASSUME IInv, TryWait
    PROVE  IInv'
<1>1. /\ pc = "wait" /\ pc \in Collecting /\ LoopOnly /\ result' = result
      /\ UNCHANGED <<override, done, idle, captured, total_input, open, queue, inputs, stop>>
  BY DEF TryWait, Goto, Collecting, input
<1>2. CASE status = "none" /\ failed' = TRUE /\ pc' = "close" /\ UNCHANGED <<tree, status>>
  <2>1. ~Undecided' /\ (Undecided' => Undecided)
    BY <1>2 DEF Undecided
  <2> QED
    BY <1>1, <1>2, <2>1, InLoop, LoopKeeps DEF Collecting
<1>3. CASE failed' = failed /\ ~(status = "none" /\ failed' = TRUE /\ pc' = "close" /\ UNCHANGED <<tree, status>>)
  <2>1. \/ /\ status = "none" /\ leader = "exited" /\ leader' = "reaped" /\ members' = "none" /\ status' = code
           /\ UNCHANGED <<code, escaped>>
           /\ pc' = IF code # "none" /\ done THEN "close" ELSE "receive"
        \/ /\ status # "none" \/ leader = "running"
           /\ UNCHANGED <<leader, code, members, escaped, status>>
           /\ pc' = IF status # "none" /\ done THEN "close" ELSE "receive"
    BY <1>3 DEF TryWait, Goto, LoopEnds, Reaps, ReapsGroup, tree
  <2>2. UNCHANGED <<written, cancelled, expired, reader, taken, writer, receiver>>
    BY <1>1 DEF LoopOnly, clocks
  <2>3. TypeOK'
    BY <1>1, <1>3, <2>1, <2>2, InLoop DEF IInv, TypeOK, Collecting
  <2>4. ProcessState'
    BY <1>1, <2>1 DEF IInv, ProcessState
  <2>5. Undecided /\ Undecided' /\ result = "none" /\ leader # "unborn" /\ leader' # "unborn"
    BY <1>1, <1>3, <2>1, InLoop DEF Undecided, IInv, PhaseState, BeforeSpawn
  <2>6. pc' \in {"receive", "close"} /\ (pc' = "close" => status' # "none" /\ done')
    BY <1>1, <2>1
  <2>7. PhaseState'
    BY <1>1, <2>5, <2>6 DEF PhaseState, BeforeSpawn, Exits
  <2>8. FlowState'
    <3>1. taken <= written'
      BY <2>2 DEF IInv, FlowState, EndState
    <3>2. Drained => Drained'
      BY <2>1, <2>2, TreeShrinks
    <3> QED
      BY <1>1, <2>2, <2>5, <3>1, <3>2, FlowKept
  <2> QED
    BY <2>3, <2>4, <2>7, <2>8 DEF IInv
<1> QED
  BY <1>2, <1>3 DEF TryWait, Goto

\* What an event that is received leaves in the channel.
LEMMA Received ==
    ASSUME IInv, queue # <<>>, queue' = Tail(queue)
    PROVE  /\ queue' \in Seq(Events) /\ Len(queue) \in Nat \ {0} /\ Len(queue') = Len(queue) - 1
           /\ Len(queue') <= Depth /\ 1 \in 1..Len(queue) /\ Head(queue) = queue[1]
           /\ \A i \in 1..Len(queue') : i + 1 \in 1..Len(queue) /\ queue'[i] = queue[i + 1]
<1>1. queue \in Seq(Events) /\ Len(queue) <= Depth /\ Depth \in Nat
  BY PtyAssumption DEF IInv, TypeOK
<1> QED
  BY <1>1

\* What receiving leaves to show of the account.
LEMMA ReceivedEnd ==
    ASSUME IInv, queue # <<>>, queue' = Tail(queue), done' = (done \/ Head(queue) = "done"),
           UNCHANGED <<written, leader, members, escaped, reader, taken>>
    PROVE  EndState'
<1> USE Received
<1>1. Drained' = Drained
  BY DEF Drained, OnTerminal
<1>2. done' \/ (\E d \in 1..Len(queue') : queue'[d] = "done") =>
        done \/ \E d \in 1..Len(queue) : queue[d] = "done"
  OBVIOUS
<1>3. ASSUME NEW i \in 1..Len(queue'), queue'[i] = "chunk"
      PROVE  ~done' /\ \A d \in 1..i : queue'[d] # "done"
  <2>1. i + 1 \in 1..Len(queue) /\ queue[i + 1] = "chunk"
    BY <1>3
  <2>2. ~done /\ \A d \in 1..(i + 1) : queue[d] # "done"
    BY <2>1 DEF IInv, FlowState, EndState
  <2>3. Head(queue) # "done"
    BY <2>1, <2>2
  <2>4. \A d \in 1..i : d \in 1..Len(queue') /\ d + 1 \in 1..(i + 1)
    BY <1>3
  <2> QED
    BY <2>2, <2>3, <2>4
<1> QED
  BY <1>1, <1>2, <1>3 DEF IInv, FlowState, EndState

\* What was captured of a chunk is what the channel has less.
LEMMA ReceivedAccount ==
    ASSUME IInv, Undecided, queue # <<>>, queue' = Tail(queue), UNCHANGED <<reader, taken>>,
           \/ Head(queue) = "chunk" /\ captured' = captured + 1 /\ done' = done
           \/ Head(queue) = "done" /\ captured' = captured /\ done' = TRUE
    PROVE  Account'
<1> USE Received
<1>1. Account /\ EndState /\ captured \in Nat /\ taken \in Nat
  BY DEF IInv, TypeOK, FlowState
<1>2. CASE Head(queue) = "chunk" /\ captured' = captured + 1 /\ done' = done
  <2>1. ~done
    BY <1>1, <1>2 DEF EndState
  <2>2. ASSUME NEW n \in 0..Len(queue'), Clean(n)' PROVE Clean(n + 1)
    <3> SUFFICES ASSUME NEW i \in 1..(n + 1) PROVE queue[i] = "chunk"
      BY DEF Clean
    <3>1. CASE i = 1
      BY <1>2, <3>1
    <3>2. CASE i # 1
      <4>1. i - 1 \in 1..n /\ i - 1 \in 1..Len(queue')
        BY <3>2
      <4>2. queue'[i - 1] = "chunk"
        BY <2>2, <4>1 DEF Clean
      <4>3. queue'[i - 1] = queue[(i - 1) + 1] /\ (i - 1) + 1 = i
        BY <4>1
      <4> QED
        BY <4>2, <4>3
    <3> QED
      BY <3>1, <3>2
  <2>3. ASSUME NEW d \in 1..Len(queue'), queue'[d] = "done", Clean(d - 1)'
        PROVE  taken' = captured' + d - 1
    <3>1. d + 1 \in 1..Len(queue) /\ queue[d + 1] = "done"
      BY <2>3
    <3>2. d - 1 \in 0..Len(queue') /\ (d - 1) + 1 = d /\ (d + 1) - 1 = d
      OBVIOUS
    <3>3. Clean((d + 1) - 1)
      BY <2>2, <2>3, <3>2
    <3>4. taken = captured + (d + 1) - 1
      BY <1>1, <3>1, <3>3 DEF Account
    <3> QED
      BY <1>1, <1>2, <3>4
  <2>4. ASSUME reader' \in {"reading", "chunk", "done"}, Clean(Len(queue))'
        PROVE  taken' = captured' + Len(queue') + InHand'
    <3>1. Clean(Len(queue))
      BY <2>2, <2>4
    <3>2. taken = captured + Len(queue) + InHand
      BY <1>1, <2>4, <3>1 DEF Account
    <3>3. InHand' = InHand /\ InHand \in Nat
      BY DEF InHand
    <3> QED
      BY <1>1, <1>2, <3>2, <3>3
  <2> QED
    BY <1>2, <2>1, <2>3, <2>4 DEF Account
<1>3. CASE Head(queue) = "done" /\ captured' = captured /\ done' = TRUE
  <2>1. reader = "ended"
    BY <1>1, <1>3 DEF EndState
  <2>2. taken = captured
    <3>1. Clean(1 - 1)
      BY DEF Clean
    <3>2. taken = captured + 1 - 1
      BY <1>1, <1>3, <3>1 DEF Account
    <3> QED
      BY <1>1, <3>2
  <2>3. ASSUME NEW d \in 1..Len(queue'), queue'[d] = "done", Clean(d - 1)'
        PROVE  taken' = captured' + d - 1
    <3>1. CASE d = 1
      BY <1>1, <1>3, <2>2, <3>1
    <3>2. CASE d # 1
      <4>1. 1 \in 1..(d - 1) /\ 1 \in 1..Len(queue')
        BY <3>2
      <4>2. queue'[1] = "chunk" /\ queue'[1] = queue[2] /\ 2 \in 1..Len(queue)
        BY <2>3, <4>1 DEF Clean
      <4> QED
        BY <1>1, <1>3, <4>2 DEF EndState
    <3> QED
      BY <3>1, <3>2
  <2> QED
    BY <1>3, <2>1, <2>2, <2>3 DEF Account
<1> QED
  BY <1>2, <1>3

\* An event is received, or none.
LEMMA TakeStep ==
    ASSUME IInv, Take
    PROVE  IInv'
<1>1. /\ pc \in {"receive", "take"} /\ pc \in Collecting /\ LoopOnly /\ result' = result
      /\ UNCHANGED <<leader, code, members, escaped, status, total_input, open, inputs, stop>>
      /\ UNCHANGED <<written, cancelled, expired, reader, taken, writer, receiver>>
  BY DEF Take, Goto, Collecting, tree, input, LoopOnly, clocks
<1>2. CASE queue = <<>>
  <2>1. /\ pc' = "look" /\ UNCHANGED <<override, failed, done, idle, captured, queue>>
    BY <1>2 DEF Take, Goto
  <2>2. Undecided' => Undecided
    BY <2>1 DEF Undecided
  <2> QED
    BY <1>1, <2>1, <2>2, InLoop, LoopKeeps DEF Collecting, tree
<1>3. CASE queue # <<>>
  <2>1. /\ queue' = Tail(queue)
        /\ \/ /\ Head(queue) = "chunk" /\ idle' = 0 /\ done' = done
              /\ \/ override' = "output_limit" /\ pc' = "close" /\ UNCHANGED <<captured, failed>>
                 \/ /\ captured' = captured + 1 /\ ~(captured + 1 > MaxOutput) /\ override' = override
                    /\ \/ pc' \in {"look", "bridge_output"} /\ failed' = failed
                       \/ pc' = "close" /\ failed' = TRUE
           \/ /\ Head(queue) = "done" /\ done' = TRUE /\ pc' = "look"
              /\ UNCHANGED <<override, failed, idle, captured>>
           \/ /\ Head(queue) \in {"failed", "write_failed"} /\ failed' = TRUE /\ pc' = "close"
              /\ UNCHANGED <<override, done, idle, captured>>
    BY <1>3 DEF Take, Goto
  <2>2. Undecided /\ result = "none" /\ leader # "unborn"
    BY <1>1, InLoop DEF Undecided, IInv, PhaseState, BeforeSpawn
  <2>3. /\ pc' \in Collecting \cup {"close"} /\ (pc' = "close" <=> ~Undecided')
        /\ pc' \notin BeforeSpawn \cup {"setup", "join", "returned"}
    BY <1>1, <2>1, <2>2 DEF Undecided, Collecting, BeforeSpawn
  <2>4. TypeOK'
    <3>1. captured' \in 0..MaxOutput
      BY <2>1, PtyAssumption DEF IInv, TypeOK
    <3>2. idle' \in 0..(MaxIdle + 1) /\ idle' <= MaxIdle
      BY <1>1, <2>1, InLoop
    <3>3. override' \in Overrides \cup {"none"} /\ failed' \in BOOLEAN /\ done' \in BOOLEAN
      BY <2>1 DEF IInv, TypeOK, Overrides
    <3>4. queue' \in Seq(Events) /\ Len(queue') <= Depth
      BY <1>3, <2>1, Received
    <3> QED
      BY <1>1, <2>3, <3>1, <3>2, <3>3, <3>4 DEF IInv, TypeOK
  <2>5. ProcessState'
    BY <1>1 DEF IInv, ProcessState
  <2>6. PhaseState'
    BY <1>1, <2>2, <2>3 DEF PhaseState, Exits, Collecting
  <2>7. done' = (done \/ Head(queue) = "done")
    BY <2>1 DEF IInv, TypeOK
  <2>8. EndState'
    BY <1>1, <1>3, <2>1, <2>7, ReceivedEnd
  <2>9. ASSUME Undecided' PROVE Account'
    <3>1. \/ Head(queue) = "chunk" /\ captured' = captured + 1 /\ done' = done
          \/ Head(queue) = "done" /\ captured' = captured /\ done' = TRUE
      BY <2>1, <2>9 DEF Undecided
    <3> QED
      BY <1>1, <1>3, <2>1, <2>2, <3>1, ReceivedAccount
  <2>10. FlowState'
    BY <2>8, <2>9 DEF FlowState
  <2> QED
    BY <2>4, <2>5, <2>6, <2>10 DEF IInv
<1> QED
  BY <1>2, <1>3

-----------------------------------------------------------------------------
(* The end of the call.                                                    *)

\* Whatever is left of the process is killed, and the threads are told to stop.
LEMMA CloseStep ==
    ASSUME IInv, Close
    PROVE  IInv'
<1>1. /\ pc = "close" /\ pc' = "join" /\ result' = result /\ open' = FALSE /\ stop' = {"reader", "writer"}
      /\ receiver' = FALSE
      /\ UNCHANGED <<written, cancelled, expired, status, override, failed, done, idle, captured>>
      /\ UNCHANGED <<total_input, queue, inputs, reader, taken, writer>>
  BY DEF Close, Goto, ReceiverAfter, DropsReceiver, clocks, verdict, threads
<1>2. \/ /\ members' = "none" /\ leader' = "reaped" /\ escaped' = escaped
         /\ code' = IF leader = "running" THEN "failure" ELSE code
         /\ status = "none" \/ ~Undecided
      \/ /\ UNCHANGED <<leader, code, members, escaped>>
         /\ status # "none" /\ Undecided
  BY DEF Close, Killed, tree, Undecided
<1>3. leader # "unborn" /\ result = "none"
  BY <1>1 DEF IInv, PhaseState, BeforeSpawn
<1>4. leader' = "reaped" /\ members' = "none"
  BY <1>2 DEF IInv, ProcessState
<1>5. TypeOK'
  <2>1. code' \in Exits \cup {"none"} /\ escaped' \in BOOLEAN
    BY <1>2 DEF IInv, TypeOK, Exits
  <2>2. idle' \in 0..(MaxIdle + 1) /\ pc' \notin Collecting
    BY <1>1 DEF IInv, TypeOK, Collecting
  <2>3. stop' \subseteq {"reader", "writer"} /\ open' \in BOOLEAN /\ receiver' \in BOOLEAN
    BY <1>1
  <2> QED
    BY <1>1, <1>4, <2>1, <2>2, <2>3 DEF IInv, TypeOK
<1>6. ProcessState'
  <2>1. code' # "none" /\ (leader = "reaped" => code' = code)
    BY <1>2, <1>3 DEF IInv, TypeOK, ProcessState
  <2> QED
    BY <1>1, <1>4, <2>1 DEF IInv, ProcessState
<1>7. PhaseState'
  <2>1. Undecided' => status' # "none" /\ done'
    BY <1>1 DEF IInv, PhaseState, Undecided
  <2> QED
    BY <1>1, <1>3, <1>4, <2>1 DEF PhaseState, BeforeSpawn, Collecting, Exits
<1>8. FlowState'
  <2>1. taken <= written'
    BY <1>1 DEF IInv, FlowState, EndState
  <2>2. Drained => Drained'
    BY <1>1, <1>2, <1>4, TreeShrinks
  <2>3. Undecided' => Undecided
    BY <1>1 DEF Undecided
  <2> QED
    BY <1>1, <2>1, <2>2, <2>3, FlowKept
<1> QED
  BY <1>5, <1>6, <1>7, <1>8 DEF IInv

\* The threads have ended, and the verdict is returned.
LEMMA JoinStep ==
    ASSUME IInv, Join
    PROVE  IInv'
<1>1. /\ pc = "join" /\ pc' = "returned" /\ result' = Verdict
      /\ reader \in {"none", "ended"} /\ writer = "ended"
      /\ UNCHANGED <<leader, code, members, escaped, written, cancelled, expired, status, override>>
      /\ UNCHANGED <<failed, done, idle, captured, total_input, open, queue, inputs, reader, taken>>
      /\ UNCHANGED <<writer, receiver, stop>>
  BY DEF Join, Returns, tree, clocks, verdict, input, threads
<1>2. leader = "reaped" /\ (Undecided => status # "none" /\ done)
  BY <1>1 DEF IInv, PhaseState, BeforeSpawn, TypeOK
<1>3. /\ Undecided => Verdict = status
      /\ ~Undecided => Verdict \in Overrides \cup {"error"}
  <2>1. failed \in BOOLEAN /\ override \in Overrides \cup {"none"}
    BY DEF IInv, TypeOK
  <2> QED
    BY <2>1 DEF Verdict, Undecided
<1>4. result' \in Overrides \cup Exits \cup {"error"} /\ (result' \in Exits => Undecided /\ result' = status)
  BY <1>1, <1>2, <1>3 DEF IInv, TypeOK, Overrides, Exits
<1>5. TypeOK'
  BY <1>1, <1>4 DEF IInv, TypeOK, Collecting
<1>6. ProcessState'
  BY <1>1 DEF IInv, ProcessState
<1>7. PhaseState'
  <2>1. Undecided' = Undecided
    BY <1>1 DEF Undecided
  <2>2. result' \notin {"none", "not_dispatched", "refused"}
    BY <1>4 DEF Overrides, Exits
  <2> QED
    BY <1>1, <1>2, <1>4, <2>1, <2>2 DEF PhaseState, BeforeSpawn, Collecting
<1>8. FlowState'
  BY <1>1, FlowUntouched
<1> QED
  BY <1>5, <1>6, <1>7, <1>8 DEF IInv

-----------------------------------------------------------------------------
\* The invariant holds of every reachable state.
THEOREM Invariant == Spec => []IInv
<1>1. Init => IInv
  <2> SUFFICES ASSUME Init PROVE IInv
    OBVIOUS
  <2>1. queue \in Seq(Events) /\ Len(queue) = 0 /\ 1..Len(queue) = {}
    BY DEF Init
  <2>2. TypeOK
    <3>1. /\ written \in 0..MaxWrites /\ captured \in 0..MaxOutput /\ idle \in 0..(MaxIdle + 1)
          /\ total_input \in 0..MaxInput /\ inputs \in 0..InputDepth /\ Len(queue) <= Depth
      BY <2>1, PtyAssumption DEF Init
    <3>2. pc \in BeforeSpawn /\ pc \notin Collecting
      BY DEF Init, BeforeSpawn, Collecting
    <3> QED
      BY <2>1, <3>1, <3>2 DEF Init, TypeOK
  <2>3. ProcessState
    BY DEF Init, ProcessState
  <2>4. PhaseState
    BY DEF Init, PhaseState, Unused, Undecided, BeforeSpawn, Collecting, Exits
  <2>5. FlowState
    BY <2>1 DEF Init, FlowState, EndState, Account
  <2> QED
    BY <2>2, <2>3, <2>4, <2>5 DEF IInv
<1>2. IInv /\ [Next]_vars => IInv'
  <2> SUFFICES ASSUME IInv, [Next]_vars PROVE IInv'
    OBVIOUS
  <2>1. CASE ProcessTree
    BY <2>1, ProcessTreeStep
  <2>2. CASE Cancel \/ Expire
    BY <2>2, WorldStep
  <2>3. CASE Reader \/ ReadFails
    BY <2>3, ReaderStep
  <2>4. CASE Writer \/ Written
    BY <2>4, WriterStep
  <2>5. CASE Admit \/ Open \/ Prepare
    BY <2>5, UnstartedStep DEF Admit, Open, Prepare, BeforeSpawn
  <2>6. CASE Spawn
    BY <2>6, SpawnStep
  <2>7. CASE Setup
    BY <2>7, SetupStep
  <2>8. CASE Look \/ TryWait \/ Idle \/ Bridge
    BY <2>8, LookStep, TryWaitStep, IdleStep, BridgeStep
  <2>9. CASE Take
    BY <2>9, TakeStep
  <2>10. CASE Close \/ Join
    BY <2>10, CloseStep, JoinStep
  <2>11. CASE UNCHANGED vars
    <3>1. /\ UNCHANGED <<leader, code, members, escaped, written, cancelled, expired, pc, status, override>>
          /\ UNCHANGED <<failed, done, idle, captured, total_input, open, queue, inputs, reader, taken>>
          /\ UNCHANGED <<writer, receiver, stop, result>>
      BY <2>11 DEF vars, tree, clocks, verdict, input, threads
    <3>2. TypeOK'
      BY <3>1 DEF IInv, TypeOK
    <3>3. ProcessState' /\ PhaseState'
      BY <3>1 DEF IInv, ProcessState, PhaseState, Unused, Undecided
    <3>4. FlowState'
      BY <3>1, FlowUntouched
    <3> QED
      BY <3>2, <3>3, <3>4 DEF IInv
  <2> QED
    BY <2>1, <2>2, <2>3, <2>4, <2>5, <2>6, <2>7, <2>8, <2>9, <2>10, <2>11 DEF Next, Collector
<1> QED
  BY <1>1, <1>2, PTL DEF Spec

\* Every variable keeps its type: the channels their depths, the output and the
\* input their limits, and the bridge is asked MaxIdle times in a row at most.
THEOREM TypeCorrect == Spec => []TypeOK
<1>1. IInv => TypeOK
  BY DEF IInv
<1> QED
  BY <1>1, Invariant, PTL

\* An interactive call that returned left neither a process of its group nor a
\* thread behind, and an exit is reported as what it was and with all the tree
\* wrote to the terminal, for every number of writes, every limit and every depth
\* of the channels (execute_until, collect).
THEOREM AnswersForItsProcess == Spec => []PtyAnswersForItsProcess
<1>1. IInv => PtyLeavesNothing
  <2> SUFFICES ASSUME IInv, pc = "returned"
               PROVE  /\ leader \in {"unborn", "reaped"} /\ members = "none"
                      /\ reader \in {"none", "ended"} /\ writer \in {"none", "ended"}
                      /\ result \in {"not_dispatched", "refused"} <=> leader = "unborn"
    BY DEF PtyLeavesNothing
  <2> QED
    BY DEF IInv, PhaseState, ProcessState, BeforeSpawn
<1>2. IInv => PtyExitCarriesOutput
  <2> SUFFICES ASSUME IInv, result \in Exits
               PROVE  captured = written /\ result = code /\ status = code
    BY DEF PtyExitCarriesOutput, Exits
  <2>1. Undecided /\ status = result /\ done /\ status # "none"
    BY DEF IInv, PhaseState, Exits
  <2>2. taken = captured /\ taken = written
    BY <2>1 DEF IInv, FlowState, EndState, Account, Drained
  <2>3. status = code
    BY <2>1 DEF IInv, ProcessState
  <2> QED
    BY <2>1, <2>2, <2>3
<1>3. IInv => PtyAnswersForItsProcess
  BY <1>1, <1>2 DEF PtyAnswersForItsProcess
<1> QED
  BY <1>3, Invariant, PTL
=============================================================================
