---------------------------- MODULE BatchProcess ----------------------------
(***************************************************************************)
(* One governed batch execution                                            *)
(* (src/tool-runtime-core/src/governed_batch_process.rs): the collecting   *)
(* thread, the two reader threads and the stdin writer it starts, the      *)
(* bounded channel between them, and the process tree they serve.          *)
(*                                                                         *)
(* The child leads a process group of its own.  Its members share the      *)
(* output pipes, and so may a process that left the group.  A process id   *)
(* names the group while its leader is unreaped or a member lives; after   *)
(* that the kernel may give it to a stranger.                              *)
(*                                                                         *)
(* Output is counted in chunks, one per read of a pipe.  Waiting for a     *)
(* poll interval is a step that changes nothing.  The platform branches    *)
(* are those of Linux; the macOS jail's list of members is left out.       *)
(***************************************************************************)
EXTENDS Integers, Sequences

CONSTANTS
    EscapedTo,   \* streams a process that left the group may keep open
    StdoutWrites, StderrWrites,  \* chunks the process tree writes at most
    MaxStdout, MaxStderr,        \* the intent's bounds on what is retained
    Depth,       \* STREAM_CHANNEL_DEPTH
    Watched,     \* a memory ceiling or a jail is sampled from the parent
    WithStdin,   \* the intent supplies standard input
    WaitsFail    \* waiting for the child may fail

Streams == {"stdout", "stderr"}

ASSUME ExecutionAssumption ==
    /\ EscapedTo \subseteq Streams
    /\ {StdoutWrites, StderrWrites, MaxStdout, MaxStderr} \subseteq Nat
    /\ Depth \in Nat \ {0}
    /\ Watched \in BOOLEAN
    /\ WithStdin \in BOOLEAN
    /\ WaitsFail \in BOOLEAN

\* The bounds of a stream.
MaxWrites == [s \in Streams |-> IF s = "stdout" THEN StdoutWrites ELSE StderrWrites]
MaxOutput == [s \in Streams |-> IF s = "stdout" THEN MaxStdout ELSE MaxStderr]

VARIABLES
    \* the process tree and its host
    leader,    \* unborn, running, exited (a zombie) or reaped
    code,      \* how the leader ended
    members,   \* other processes of the group are alive
    escaped,   \* a process that left the group keeps EscapedTo open
    group,     \* whom the group id names: ours, free or a stranger
    closed,    \* the group has closed or redirected its output
    written,   \* stream -> chunks written so far
    cancelled, expired,
    \* the threads
    pc,        \* the collecting thread
    after,     \* where it goes once the tree is terminated
    status,    \* the exit status it reaped
    override,  \* terminal_override
    failed,    \* first_error is set
    done,      \* done_readers
    kept,      \* stream -> chunks appended to the retained output
    queue,     \* the channel
    receiver,  \* the receiving end exists
    stop,      \* the stop flags: of no thread, of the readers, or of all
    reader,    \* stream -> where its reader is
    taken,     \* stream -> chunks its reader has read
    writer,    \* the stdin writer
    result,    \* what execute_until returned
    strays     \* history: a signal went to a group that was not ours

ids == <<leader, code, members, escaped, group>>
tree == <<ids, closed>>
clocks == <<cancelled, expired>>
verdict == <<status, override, failed>>
streams == <<queue, reader, taken>>
vars == <<tree, written, clocks, pc, after, verdict, done, kept, receiver, stop, streams,
          writer, result, strays>>

Chunk(s) == [kind |-> "chunk", stream |-> s]
Done == [kind |-> "done"]
Failed == [kind |-> "failed"]

Init ==
    /\ leader = "unborn" /\ code = "none" /\ members = FALSE /\ escaped = FALSE
    /\ group = "free" /\ closed = FALSE
    /\ written = [s \in Streams |-> 0]
    /\ cancelled = FALSE /\ expired = FALSE
    /\ pc = "admit" /\ after = "none"
    /\ status = "none" /\ override = "none" /\ failed = FALSE
    /\ done = 0
    /\ kept = [s \in Streams |-> 0]
    /\ queue = <<>> /\ receiver = FALSE /\ stop = "none"
    /\ reader = [s \in Streams |-> "none"]
    /\ taken = [s \in Streams |-> 0]
    /\ writer = "none"
    /\ result = "none"
    /\ strays = FALSE

-----------------------------------------------------------------------------
(* The process tree, which nobody schedules.                               *)

HoldsOpen(s) ==
    \/ ~closed /\ (leader = "running" \/ members)
    \/ s \in EscapedTo /\ escaped

Owner(l, m) == IF l \in {"running", "exited"} \/ m THEN "ours" ELSE "free"

TreeMoves(s) ==
    \/ \* the leader starts another process in its group
       /\ leader = "running" /\ ~members
       /\ members' = TRUE
       /\ UNCHANGED <<leader, code, escaped, group, closed, written>>
    \/ \* a member leaves the group and its session, and keeps its output
       /\ members /\ ~escaped /\ ~closed /\ EscapedTo # {}
       /\ escaped' = TRUE
       /\ UNCHANGED <<leader, code, members, group, closed, written>>
    \/ \* the last member of the group ends
       /\ members
       /\ members' = FALSE
       /\ group' = Owner(leader, FALSE)
       /\ UNCHANGED <<leader, code, escaped, closed, written>>
    \/ /\ leader = "running"
       /\ leader' = "exited"
       /\ code' \in {"exit", "signal"}
       /\ UNCHANGED <<members, escaped, group, closed, written>>
    \/ /\ HoldsOpen(s) /\ written[s] < MaxWrites[s]
       /\ written' = [written EXCEPT ![s] = @ + 1]
       /\ UNCHANGED tree
    \/ /\ ~closed /\ leader = "running"
       /\ closed' = TRUE
       /\ UNCHANGED <<ids, written>>
    \/ \* the kernel gives the id to a process of somebody else
       /\ group = "free" /\ leader = "reaped"
       /\ group' = "stranger"
       /\ UNCHANGED <<leader, code, members, escaped, closed, written>>

ProcessTree ==
    /\ \E s \in Streams : TreeMoves(s)
    /\ UNCHANGED <<clocks, pc, after, verdict, done, kept, receiver, stop, streams, writer,
                   result, strays>>

Cancel == ~cancelled /\ cancelled' = TRUE /\ UNCHANGED expired
Expire == ~expired /\ expired' = TRUE /\ UNCHANGED cancelled
World ==
    /\ Cancel \/ Expire
    /\ UNCHANGED <<tree, written, pc, after, verdict, done, kept, receiver, stop, streams,
                   writer, result, strays>>

-----------------------------------------------------------------------------
(* The reader threads and the stdin writer.                                *)

\* The thread of such a reader holds no sender any more.
Ended == {"none", "ended"}

ReaderGoes(s, where) == reader' = [reader EXCEPT ![s] = where]

\* poll, then read: a chunk or the end of the stream, once there is one.
Read(s) ==
    /\ reader[s] = "polling"
    /\ \/ /\ taken[s] < written[s]
          /\ taken' = [taken EXCEPT ![s] = @ + 1]
          /\ ReaderGoes(s, "chunk")
       \/ /\ taken[s] = written[s] /\ ~HoldsOpen(s)
          /\ ReaderGoes(s, "done")
          /\ UNCHANGED taken
    /\ UNCHANGED queue

ReadFails(s) ==
    /\ reader[s] = "polling"
    /\ ReaderGoes(s, "failed")
    /\ UNCHANGED <<queue, taken>>

StopReader(s) ==
    /\ reader[s] = "polling" /\ stop # "none"
    /\ ReaderGoes(s, "ended")
    /\ UNCHANGED <<queue, taken>>

Event(s) == CASE reader[s] = "chunk" -> Chunk(s)
              [] reader[s] = "done" -> Done
              [] reader[s] = "failed" -> Failed

\* send blocks while the channel is full, and fails once the receiver is
\* dropped; only a chunk that was sent lets the thread go on.
Send(s) ==
    /\ reader[s] \in {"chunk", "done", "failed"}
    /\ \/ /\ receiver
          /\ Len(queue) < Depth
          /\ queue' = Append(queue, Event(s))
          /\ ReaderGoes(s, IF reader[s] = "chunk" THEN "polling" ELSE "ended")
       \/ /\ ~receiver
          /\ ReaderGoes(s, "ended")
          /\ UNCHANGED queue
    /\ UNCHANGED taken

ReaderOnly ==
    UNCHANGED <<tree, written, clocks, pc, after, verdict, done, kept, receiver, stop,
                   writer, result, strays>>
Reader(s) == (Read(s) \/ StopReader(s) \/ Send(s)) /\ ReaderOnly
BrokenPipe(s) == ReadFails(s) /\ ReaderOnly

\* The writer ends by itself, at a broken pipe, or when it is told to stop.
Writer ==
    /\ writer = "writing"
    /\ writer' = "ended"
    /\ UNCHANGED <<tree, written, clocks, pc, after, verdict, done, kept, receiver, stop,
                   streams, result, strays>>

-----------------------------------------------------------------------------
(* execute_until and execute_spawned, up to the collecting loop.           *)

ThreadsIdle == UNCHANGED <<done, kept, streams, writer>>

Returns(r) == pc' = "returned" /\ result' = r

\* The three checks before dispatch, each with the work that follows it and may
\* be refused: the permit and the executable, the command, and the spawn.
Unstarted(here, ready) ==
    /\ pc = here
    /\ IF cancelled \/ expired
       THEN Returns("not_dispatched")
       ELSE \/ Returns("refused")
            \/ pc' = ready /\ UNCHANGED result
    /\ UNCHANGED <<tree, written, clocks, after, verdict, receiver, stop, strays>>
    /\ ThreadsIdle

Admit == Unstarted("admit", "prepared")
Prepare == Unstarted("prepared", "launching")
Launch == Unstarted("launching", "spawn")

Spawn ==
    /\ pc = "spawn"
    /\ leader' = "running" /\ group' = "ours"
    /\ receiver' = TRUE
    /\ pc' = "setup"
    /\ UNCHANGED <<code, members, escaped, closed, written, clocks, after, verdict, stop, result,
                   strays>>
    /\ ThreadsIdle

Terminates(then) == pc' = "sigterm" /\ after' = then

\* The threads are started one after the other, and each may fail to.
Setup ==
    /\ pc = "setup"
    /\ \/ \* stdout's reader: the guard alone cleans up
          /\ Terminates("returned") /\ result' = "error" /\ receiver' = FALSE
          /\ UNCHANGED <<failed, reader, writer>>
       \/ \* stderr's reader: the first one has to be stopped
          /\ Terminates("teardown") /\ failed' = TRUE
          /\ reader' = [reader EXCEPT !["stdout"] = "polling"]
          /\ UNCHANGED <<writer, result, receiver>>
       \/ \* the writer: both have to be
          /\ WithStdin
          /\ Terminates("teardown") /\ failed' = TRUE
          /\ reader' = [s \in Streams |-> "polling"]
          /\ UNCHANGED <<writer, result, receiver>>
       \/ /\ pc' = "reap"
          /\ reader' = [s \in Streams |-> "polling"]
          /\ writer' = IF WithStdin THEN "writing" ELSE "none"
          /\ UNCHANGED <<after, failed, result, receiver>>
    /\ UNCHANGED <<tree, written, clocks, status, override, done, kept, queue, taken, stop, strays>>

-----------------------------------------------------------------------------
(* ProcessTreeGuard.                                                       *)

\* try_wait that reaps the leader first and leaves its group alone.
ReapsLeaderOnly ==
    /\ leader' = "reaped" /\ status' = code
    /\ group' = Owner("reaped", members)
    /\ UNCHANGED <<code, members, escaped, closed>>

\* try_wait: the exit is observed without reaping, so that the group can be
\* killed while its leader still pins the id.
Reaps ==
    /\ leader' = "reaped" /\ status' = code
    /\ members' = FALSE
    /\ group' = "free"
    /\ UNCHANGED <<code, escaped, closed>>

\* try_wait that fails: the exit cannot be observed, or the leader cannot be
\* waited for once its group was killed.  Another part of the host may have
\* reaped it.
WaitFails ==
    /\ WaitsFail /\ status = "none"
    /\ leader' \in IF leader = "exited" THEN {"exited", "reaped"} ELSE {leader}
    /\ members' \in IF leader = "exited" THEN {members, FALSE} ELSE {members}
    /\ group' = Owner(leader', members')
    /\ UNCHANGED <<code, escaped, closed, status>>

\* terminate_process_group, with its grace period between the two signals;
\* the second is only sent if the first reached somebody.
Sigterm ==
    /\ pc = "sigterm"
    /\ IF group = "free"
       THEN pc' = after /\ after' = "none"
       ELSE pc' = "sigkill" /\ UNCHANGED after
    /\ strays' = (strays \/ group = "stranger")
    /\ UNCHANGED tree

\* The group is killed, and the leader is killed and waited for if the guard
\* still owns it.
Sigkill ==
    /\ pc = "sigkill"
    /\ pc' = after /\ after' = "none"
    /\ strays' = (strays \/ group = "stranger")
    /\ members' = FALSE
    /\ code' = IF leader = "running" THEN "signal" ELSE code
    /\ leader' = "reaped"
    /\ group' = IF group = "stranger" THEN group ELSE "free"
    /\ UNCHANGED <<escaped, closed>>

Terminate ==
    /\ Sigterm \/ Sigkill
    /\ UNCHANGED <<written, clocks, verdict, receiver, stop, result>>
    /\ ThreadsIdle

-----------------------------------------------------------------------------
(* collect: reap, look at the clock, sample, take one event, and again.    *)

\* An error of try_wait is returned at once: the receiver and the handles of the
\* threads are dropped, which tells none of them to stop and joins none, and
\* then the guard, which still has the child.
StillOpen == UNCHANGED <<receiver, result>>
Abandons ==
    /\ WaitFails
    /\ receiver' = FALSE /\ result' = "error"
    /\ Terminates("returned")

Reap ==
    /\ pc = "reap"
    /\ \/ /\ IF status = "none" /\ leader = "exited"
             THEN Reaps
             ELSE UNCHANGED <<tree, status>>
          /\ pc' = "check" /\ StillOpen
          /\ UNCHANGED after
       \/ Abandons
    /\ UNCHANGED <<override, failed, done, kept, queue>>

\* The run is over for another reason than the leader's own end.
Overrides(terminal) ==
    /\ override' = terminal
    /\ Terminates("teardown")

\* An exit that was reaped stands: the clock is no longer asked.
AlwaysAsks == TRUE
StillAsks == status = "none"

Watch ==
    \/ /\ pc' = "receive" /\ StillOpen
       /\ UNCHANGED <<tree, after, verdict>>
    \/ /\ Watched /\ status = "none"
       /\ Overrides("limit") /\ StillOpen
       /\ UNCHANGED <<tree, status, failed>>
    \/ /\ Watched /\ status = "none" /\ leader = "exited"
       /\ Reaps
       /\ pc' = "receive" /\ StillOpen
       /\ UNCHANGED <<after, override, failed>>
    \/ \* the jail can no longer be observed
       /\ Watched /\ status = "none" /\ leader = "running"
       /\ failed' = TRUE
       /\ Terminates("teardown") /\ StillOpen
       /\ UNCHANGED <<tree, status, override>>
    \/ \* whatever the jail's sample said, the leader is waited for
       /\ Watched
       /\ Abandons
       /\ UNCHANGED <<override, failed>>

\* The clock, the caller and then the sampled ceilings of memory and jail.  A
\* jail sample is only believed of a leader that has still not ended.
CheckBounds ==
    /\ pc = "check"
    /\ \/ /\ StillAsks /\ cancelled
          /\ Overrides("cancelled") /\ StillOpen
          /\ UNCHANGED <<tree, status, failed>>
       \/ /\ StillAsks /\ ~cancelled /\ expired
          /\ Overrides("timed_out") /\ StillOpen
          /\ UNCHANGED <<tree, status, failed>>
       \/ /\ ~(StillAsks /\ (cancelled \/ expired))
          /\ Watch
    /\ UNCHANGED <<done, kept, queue>>

\* append_bounded: what is kept never exceeds the intent's bound.
HasRoom(s) == kept[s] < MaxOutput[s]

AllEnded == \A s \in Streams : reader[s] \in Ended

\* An event was dealt with, or none came: the loop ends once the leader is
\* reaped and both streams are at their end.
EndsOnExit(n) == status # "none"
EndsOnDrain(n) == status # "none" /\ n >= 2
LoopEnds(n) == EndsOnDrain(n)
GoesOn(n) ==
    /\ pc' = IF LoopEnds(n) THEN "teardown" ELSE "reap"
    /\ UNCHANGED <<after, override, failed>>

Receive ==
    /\ pc = "receive"
    /\ \/ \E s \in Streams :
             /\ queue # <<>> /\ Head(queue) = Chunk(s)
             /\ IF HasRoom(s)
                THEN kept' = [kept EXCEPT ![s] = @ + 1] /\ GoesOn(done)
                ELSE Overrides("output_limit") /\ UNCHANGED <<kept, failed>>
             /\ queue' = Tail(queue)
             /\ UNCHANGED done
       \/ /\ queue # <<>> /\ Head(queue) = Done
          /\ done' = done + 1
          /\ GoesOn(done + 1)
          /\ queue' = Tail(queue)
          /\ UNCHANGED kept
       \/ /\ queue # <<>> /\ Head(queue) = Failed
          /\ failed' = TRUE
          /\ Terminates("teardown")
          /\ queue' = Tail(queue)
          /\ UNCHANGED <<override, done, kept>>
       \/ \* the poll interval passed
          /\ queue = <<>> /\ ~AllEnded
          /\ GoesOn(done)
          /\ UNCHANGED <<done, kept, queue>>
       \/ \* both readers are gone
          /\ queue = <<>> /\ AllEnded
          /\ IF done < 2
             THEN failed' = TRUE /\ pc' = "teardown" /\ UNCHANGED <<after, override>>
             ELSE GoesOn(done)
          /\ UNCHANGED <<done, kept, queue>>
    /\ StillOpen
    /\ UNCHANGED <<tree, status>>

Collect ==
    /\ Reap \/ CheckBounds \/ Receive
    /\ UNCHANGED <<written, clocks, stop, reader, taken, writer, strays>>

-----------------------------------------------------------------------------
(* The end of collect: the receiver goes first, so that no reader stays    *)
(* blocked in send, and every thread is joined before the result is made.  *)

KeepsReceiver == TRUE
DropsReceiver == FALSE
ReceiverAfter == DropsReceiver

Teardown ==
    /\ pc = "teardown"
    /\ receiver' = ReceiverAfter
    /\ stop' = "readers"
    /\ pc' = "join_readers"
    /\ UNCHANGED <<after, result>>

JoinReaders ==
    /\ pc = "join_readers"
    /\ AllEnded
    /\ stop' = "all"
    /\ pc' = "join_writer"
    /\ UNCHANGED <<after, receiver, result>>

\* An exit by itself stands for success and for a non-zero exit, a signal for
\* the terminals of the signals that enforce a limit.
TerminalOf(exit) == IF exit = "exit" THEN "exited" ELSE "runtime_failure"

\* The first error wins over any terminal; an override over the exit.  The
\* writer's error counts only without a status and an override, when the loop
\* has ended with an error of its own.
Verdict ==
    IF failed \/ (override = "none" /\ status = "none") THEN "error"
    ELSE IF override # "none" THEN override
    ELSE TerminalOf(status)

\* The guard is dropped on return, and terminates a tree it still owns.
JoinWriter ==
    /\ pc = "join_writer"
    /\ writer # "writing"
    /\ result' = Verdict
    /\ IF leader = "reaped"
       THEN pc' = "returned" /\ UNCHANGED after
       ELSE Terminates("returned")
    /\ UNCHANGED <<receiver, stop>>

Finish ==
    /\ Teardown \/ JoinReaders \/ JoinWriter
    /\ UNCHANGED <<tree, written, clocks, verdict, strays>>
    /\ ThreadsIdle

-----------------------------------------------------------------------------

Collector == Admit \/ Prepare \/ Launch \/ Spawn \/ Setup \/ Collect \/ Terminate \/ Finish

Next ==
    \/ ProcessTree
    \/ World
    \/ Collector
    \/ \E s \in Streams : Reader(s) \/ BrokenPipe(s)
    \/ Writer

\* A writer that was told to stop ends, and one that nobody reads from.
WriterEnds ==
    /\ stop = "all" \/ (leader = "reaped" /\ ~members /\ ~escaped)
    /\ Writer

\* Every thread of the library is scheduled.  Nothing is asked of the process
\* tree, of the caller that may cancel or of the clock, and no read and no wait
\* has to fail.
Fairness ==
    /\ WF_vars(Collector)
    /\ \A s \in Streams : WF_vars(Reader(s))
    /\ WF_vars(WriterEnds)

Spec == Init /\ [][Next]_vars /\ Fairness
-----------------------------------------------------------------------------
(* Properties.                                                             *)

Terminals == {"cancelled", "timed_out", "limit", "output_limit"}
Exits == {"exited", "runtime_failure"}

TypeOK ==
    /\ leader \in {"unborn", "running", "exited", "reaped"}
    /\ code \in {"none", "exit", "signal"}
    /\ members \in BOOLEAN /\ escaped \in BOOLEAN
    /\ group \in {"ours", "free", "stranger"}
    /\ closed \in BOOLEAN
    /\ written \in [Streams -> Nat]
    /\ pc \in {"admit", "prepared", "launching", "spawn", "setup", "reap", "check", "receive",
               "sigterm", "sigkill", "teardown", "join_readers", "join_writer", "returned"}
    /\ status \in {"none", "exit", "signal"}
    /\ override \in Terminals \cup {"none"}
    /\ done \in 0..2
    /\ \A s \in Streams : kept[s] <= MaxOutput[s] /\ kept[s] <= taken[s] /\ taken[s] <= written[s]
    /\ Len(queue) <= Depth
    /\ stop \in {"none", "readers", "all"}
    /\ reader \in [Streams -> {"none", "polling", "chunk", "done", "failed", "ended"}]
    /\ writer \in {"none", "writing", "ended"}
    /\ result \in {"none", "not_dispatched", "refused", "error"} \cup Terminals \cup Exits

\* However a call returns, with a result or with an error, no process of what it
\* started is left: the leader is reaped and no member of its group is alive.  The
\* reader and writer threads have ended, except when the call has nothing to
\* answer with, no exit, no limit and no failure of a stream, because a wait for
\* the leader failed: then they were never told to stop, and nothing receives
\* from them (try_wait, terminate_and_reap, the guard's drop,
\* stop_and_join_readers).
Unanswered == result = "error" /\ status = "none" /\ override = "none" /\ ~failed

NothingSurvives ==
    pc = "returned" =>
        /\ leader \in {"unborn", "reaped"}
        /\ ~members
        /\ ~receiver
        /\ (AllEnded /\ writer # "writing") \/ (Unanswered /\ stop = "none")

\* A result that reports the process's own exit carries everything the process
\* tree ever wrote, to both streams, whatever the order of exit, end of file and
\* reading was.
ExitCarriesAllOutput ==
    pc = "returned" /\ result \in Exits => kept = written

\* An exit that was reaped is never reported as a cancellation, a timeout or a
\* sampled limit: the effect happened (the comment at the top of collect's loop).
ExitIsAuthoritative ==
    result \in {"cancelled", "timed_out", "limit"} => status = "none"

\* Every signal goes to the group of this execution, never to the group of a
\* stranger that was given the id after the leader was reaped.
SignalsOwnGroup == ~strays

\* Once the caller cancels, the deadline passes or the process ends, the call
\* returns and its threads end, those that it did not wait for too, unless a
\* process left the group with the output: no thread waits for another that
\* waits for it.
CallReturns ==
    cancelled \/ expired \/ leader \in {"exited", "reaped"}
        ~> (pc = "returned" /\ AllEnded /\ writer # "writing") \/ escaped

\* The deadline alone bounds the call.
DeadlineBounds == expired ~> (pc = "returned")
=============================================================================
