------------------------------ MODULE PtyProcess ------------------------------
(***************************************************************************)
(* One governed interactive execution                                      *)
(* (src/tool-runtime-core/src/governed_pty_process.rs): the collecting     *)
(* thread, which also calls the host's bridge, a reader and a writer       *)
(* thread on the master of a pseudo-terminal, two bounded channels, and    *)
(* the process tree on the other side.                                     *)
(*                                                                         *)
(* Output is counted in chunks and input in events.  A chunk is wholly     *)
(* withheld by the redactor, or wholly shown to the bridge.  The idle      *)
(* timer runs out whenever it likes, since its length is a parameter.      *)
(***************************************************************************)
EXTENDS Integers, Sequences

CONSTANTS
    MaxWrites,     \* chunks the process tree writes at most
    MaxOutput,     \* the intent's bound on the output
    MaxInput,      \* max_total_input_bytes, in events
    InitialInput,  \* input events the intent supplies: 0 or 1
    Depth,         \* PTY_STREAM_CHANNEL_DEPTH
    InputDepth,    \* PTY_INPUT_CHANNEL_DEPTH
    MaxIdle        \* max_idle_decisions

ASSUME PtyAssumption ==
    /\ {MaxWrites, MaxOutput, MaxIdle} \subseteq Nat
    /\ {MaxInput, Depth, InputDepth} \subseteq Nat \ {0}
    /\ InitialInput \in 0..1

VARIABLES
    leader, code,    \* unborn, running, exited (a zombie) or reaped; how it ended
    members,         \* others in the group: none, or some that are on the terminal or off it
    escaped,         \* a process that left the group keeps the terminal open
    written,         \* chunks the tree wrote to the terminal
    cancelled, expired,
    pc,              \* the collecting thread
    status,          \* the exit status it reaped
    override,        \* terminal_override
    failed,          \* first_error is set
    done,            \* reader_done
    idle,            \* idle_decisions
    captured,        \* chunks taken from the channel
    total_input,     \* input events accepted
    queue, receiver, \* the stream channel and its receiving end
    inputs, open,    \* events in the input channel, and its sending end
    reader, taken,   \* the reader thread, and the chunks it has read
    writer,          \* the writer thread
    stop,            \* whom a stop flag is set for
    result

tree == <<leader, code, members, escaped>>
clocks == <<cancelled, expired>>
verdict == <<status, override, failed, done, idle, captured>>
threads == <<queue, inputs, reader, taken, writer>>
input == <<total_input, open>>
vars == <<tree, written, clocks, pc, verdict, input, threads, receiver, stop, result>>

Init ==
    /\ leader = "unborn" /\ code = "none" /\ members = "none" /\ escaped = FALSE
    /\ written = 0
    /\ cancelled = FALSE /\ expired = FALSE
    /\ pc = "admit"
    /\ status = "none" /\ override = "none" /\ failed = FALSE /\ done = FALSE /\ idle = 0
    /\ captured = 0
    /\ total_input = 0 /\ open = FALSE
    /\ queue = <<>> /\ receiver = FALSE
    /\ inputs = 0
    /\ reader = "none" /\ taken = 0 /\ writer = "none"
    /\ stop = {}
    /\ result = "none"

-----------------------------------------------------------------------------
(* The process tree and the clock, which nobody schedules.                 *)

OnTerminal == leader = "running" \/ members = "on" \/ escaped

ProcessTree ==
    /\ \/ /\ leader = "running" /\ members = "none"
          /\ members' \in {"on", "off"} /\ UNCHANGED <<leader, code, escaped, written>>
       \/ /\ members = "on" /\ ~escaped
          /\ escaped' = TRUE /\ UNCHANGED <<leader, code, members, written>>
       \/ /\ members # "none"
          /\ members' = "none" /\ UNCHANGED <<leader, code, escaped, written>>
       \/ /\ escaped
          /\ escaped' = FALSE /\ UNCHANGED <<leader, code, members, written>>
       \/ /\ leader = "running"
          /\ leader' = "exited" /\ code' \in {"success", "failure"}
          /\ UNCHANGED <<members, escaped, written>>
       \/ /\ OnTerminal /\ written < MaxWrites
          /\ written' = written + 1 /\ UNCHANGED tree
    /\ UNCHANGED <<clocks, pc, verdict, input, threads, receiver, stop, result>>

Cancel ==
    /\ cancelled' = TRUE
    /\ UNCHANGED <<tree, written, expired, pc, verdict, input, threads, receiver, stop, result>>
Expire ==
    /\ expired' = TRUE
    /\ UNCHANGED <<tree, written, cancelled, pc, verdict, input, threads, receiver, stop, result>>

-----------------------------------------------------------------------------
(* The reader and the writer thread.                                       *)

ThreadOnly == UNCHANGED <<tree, written, clocks, pc, verdict, input, receiver, stop, result>>

\* A read without blocking: a chunk, the end (EOF or EIO), or it sleeps.
Read ==
    /\ reader = "reading" /\ "reader" \notin stop
    /\ \/ taken < written /\ taken' = taken + 1 /\ reader' = "chunk"
       \/ taken = written /\ ~OnTerminal /\ reader' = "done" /\ UNCHANGED taken
    /\ UNCHANGED <<queue, inputs, writer>>

ReadFails ==
    /\ reader = "reading"
    /\ reader' = "failed"
    /\ UNCHANGED <<queue, inputs, taken, writer>>
    /\ ThreadOnly

ReaderStops ==
    /\ reader = "reading" /\ "reader" \in stop
    /\ reader' = "ended"
    /\ UNCHANGED <<queue, inputs, taken, writer>>

\* send blocks on a full channel, and fails once the receiver is dropped.
Sends(event, after) ==
    IF receiver
    THEN Len(queue) < Depth /\ queue' = Append(queue, event) /\ after
    ELSE UNCHANGED queue

ReaderSends ==
    /\ reader \in {"chunk", "done", "failed"}
    /\ Sends(reader, TRUE)
    /\ reader' = IF reader = "chunk" /\ receiver THEN "reading" ELSE "ended"
    /\ UNCHANGED <<inputs, taken, writer>>

Reader == (Read \/ ReaderStops \/ ReaderSends) /\ ThreadOnly

\* recv, which still returns what was queued when the sender is dropped.
Receives ==
    /\ writer = "waiting"
    /\ \/ inputs > 0 /\ inputs' = inputs - 1 /\ writer' = "writing"
       \/ inputs = 0 /\ ~open /\ writer' = "ended" /\ UNCHANGED inputs
    /\ UNCHANGED <<queue, reader, taken>>

\* The stop flag ends a write that does not get on, and then the thread.
WriterStops ==
    /\ writer = "writing" /\ "writer" \in stop
    /\ writer' = "ended"
    /\ UNCHANGED <<queue, inputs, reader, taken>>

WriteFailureSent ==
    /\ writer = "failed"
    /\ Sends("write_failed", TRUE)
    /\ writer' = "ended"
    /\ UNCHANGED <<inputs, reader, taken>>

Writer == (Receives \/ WriterStops \/ WriteFailureSent) /\ ThreadOnly

\* The terminal takes the input when it likes, and refuses it when the other
\* side is gone.
Written ==
    /\ writer = "writing"
    /\ \/ writer' = IF "writer" \in stop THEN "ended" ELSE "waiting"
       \/ ~OnTerminal /\ writer' = "failed"
    /\ UNCHANGED <<queue, inputs, reader, taken>>
    /\ ThreadOnly

-----------------------------------------------------------------------------
(* execute_until and execute_spawned, up to the collecting loop.           *)

Goto(step) == pc' = step /\ UNCHANGED result
Returns(r) == pc' = "returned" /\ result' = r

\* Each check of the caller and the clock, and what follows it: the permit and
\* the authority; the terminal and the command.
Unstarted(here, ready) ==
    /\ pc = here
    /\ IF cancelled \/ expired
       THEN Returns("not_dispatched")
       ELSE Returns("refused") \/ Goto(ready)
    /\ UNCHANGED <<tree, written, clocks, verdict, input, threads, receiver, stop>>

Admit == Unstarted("admit", "admitted")
Open == Unstarted("admitted", "opened")
Prepare == Unstarted("opened", "spawning")

Spawn ==
    /\ pc = "spawning"
    /\ leader' = "running"
    /\ receiver' = TRUE
    /\ Goto("setup")
    /\ UNCHANGED <<code, members, escaped, written, clocks, verdict, input, threads, stop>>

\* terminate_and_reap: the group is killed, the leader killed and waited for.
Killed ==
    /\ members' = "none"
    /\ leader' = "reaped"
    /\ code' = IF leader = "running" THEN "failure" ELSE code
    /\ UNCHANGED escaped

\* The writer is started, then the reader, then the intent's input is queued,
\* which has room for it; a failure before leaves by the guard.
Setup ==
    /\ pc = "setup"
    /\ \/ \* no writer: the guard cleans up
          /\ Returns("error") /\ Killed /\ receiver' = FALSE
          /\ UNCHANGED <<failed, open, writer, reader, inputs, total_input, stop>>
       \/ \* no reader: the writer has to be stopped
          /\ Goto("join") /\ Killed /\ receiver' = FALSE /\ failed' = TRUE
          /\ writer' = "waiting" /\ open' = FALSE /\ stop' = {"writer"}
          /\ UNCHANGED <<reader, inputs, total_input>>
       \/ /\ Goto("look")
          /\ writer' = "waiting" /\ reader' = "reading" /\ open' = TRUE
          /\ inputs' = InitialInput /\ total_input' = InitialInput
          /\ UNCHANGED <<tree, receiver, failed, stop>>
    /\ UNCHANGED <<written, clocks, status, override, done, idle, captured, queue, taken>>

-----------------------------------------------------------------------------
(* The loop of collect.                                                    *)

LoopOnly == UNCHANGED <<written, clocks, reader, taken, writer, receiver>>

\* The caller and the clock are asked in every round.
Look ==
    /\ pc = "look"
    /\ IF cancelled THEN override' = "cancelled" /\ Goto("close")
       ELSE IF expired THEN override' = "timed_out" /\ Goto("close")
       ELSE Goto("wait") /\ UNCHANGED override
    /\ UNCHANGED <<tree, status, failed, done, idle, captured, input, queue, inputs, stop>>
    /\ LoopOnly

\* An exit is observed, the rest of the group is killed, then it is reaped.
ReapsLeaderOnly == leader' = "reaped" /\ UNCHANGED <<members, code, escaped>>
ReapsGroup == leader' = "reaped" /\ members' = "none" /\ UNCHANGED <<code, escaped>>
Reaps == ReapsGroup

LoopEnds(s, d) == s # "none" /\ d

TryWait ==
    /\ pc = "wait"
    /\ \/ /\ status = "none" /\ leader = "exited"
          /\ Reaps
          /\ status' = code
          /\ Goto(IF LoopEnds(code, done) THEN "close" ELSE "receive")
          /\ UNCHANGED failed
       \/ /\ status = "none"
          /\ failed' = TRUE
          /\ Goto("close")
          /\ UNCHANGED <<tree, status>>
       \/ /\ status # "none" \/ leader = "running"
          /\ Goto(IF LoopEnds(status, done) THEN "close" ELSE "receive")
          /\ UNCHANGED <<tree, status, failed>>
    /\ UNCHANGED <<override, done, idle, captured, input, queue, inputs, stop>>
    /\ LoopOnly

\* The idle timer ran out, and the bridge is asked so often at most.
Idle ==
    /\ pc = "receive"
    /\ IF idle + 1 > MaxIdle
       THEN override' = "timed_out" /\ Goto("close")
       ELSE Goto("bridge_idle") /\ UNCHANGED override
    /\ idle' = idle + 1
    /\ UNCHANGED <<tree, status, failed, done, captured, input, queue, inputs, stop>>
    /\ LoopOnly

\* apply_action: an action of the bridge, or its refusal or panic; input is
\* refused beyond its limit, on a full channel, and once it was closed.
Fits == total_input < MaxInput /\ open /\ inputs < InputDepth

Acts(then, activity) ==
    \/ \* Continue
       /\ Goto(then)
       /\ UNCHANGED <<override, failed, idle, input, inputs, stop>>
    \/ \* Resize
       /\ Goto(then)
       /\ idle' = activity
       /\ UNCHANGED <<override, failed, input, inputs, stop>>
    \/ \* Write
       /\ Fits
       /\ total_input' = total_input + 1 /\ inputs' = inputs + 1
       /\ idle' = activity
       /\ Goto(then)
       /\ UNCHANGED <<override, failed, open, stop>>
    \/ \* CloseInput
       /\ open' = FALSE /\ stop' = stop \cup {"writer"}
       /\ Goto(then)
       /\ UNCHANGED <<override, failed, idle, total_input, inputs>>
    \/ \* Complete, Cancel
       /\ override' \in {"complete", "cancelled"}
       /\ Goto("close")
       /\ UNCHANGED <<failed, idle, input, inputs, stop>>
    \/ \* an error, an unwanted input, a failed resize, a panic
       /\ failed' = TRUE
       /\ Goto("close")
       /\ UNCHANGED <<override, idle, input, inputs, stop>>

BridgeOnly == UNCHANGED <<tree, status, done, captured, queue>> /\ LoopOnly

\* on_idle: an action of the controller starts the count again.
BridgeIdle == pc = "bridge_idle" /\ Acts("take", 0) /\ BridgeOnly

BridgeOutput == pc = "bridge_output" /\ Acts("look", idle) /\ BridgeOnly

\* recv_timeout.  The redactor may hold a chunk back and may give up.
Take ==
    /\ pc \in {"receive", "take"}
    /\ \/ /\ queue # <<>> /\ Head(queue) = "chunk"
          /\ queue' = Tail(queue)
          /\ idle' = 0
          /\ IF captured + 1 > MaxOutput
             THEN override' = "output_limit" /\ Goto("close") /\ UNCHANGED <<captured, failed>>
             ELSE /\ captured' = captured + 1
                  /\ \/ Goto("look") /\ UNCHANGED failed
                     \/ Goto("bridge_output") /\ UNCHANGED failed
                     \/ Goto("close") /\ failed' = TRUE
                  /\ UNCHANGED override
          /\ UNCHANGED done
       \/ /\ queue # <<>> /\ Head(queue) = "done"
          /\ queue' = Tail(queue)
          /\ done' = TRUE
          /\ Goto("look")
          /\ UNCHANGED <<override, failed, idle, captured>>
       \/ /\ queue # <<>> /\ Head(queue) \in {"failed", "write_failed"}
          /\ queue' = Tail(queue)
          /\ failed' = TRUE
          /\ Goto("close")
          /\ UNCHANGED <<override, done, idle, captured>>
       \/ \* the poll interval passed, or both senders are gone after the end
          /\ queue = <<>>
          /\ Goto("look")
          /\ UNCHANGED <<override, failed, done, idle, captured, queue>>
    /\ UNCHANGED <<tree, status, input, inputs, stop>>
    /\ LoopOnly

-----------------------------------------------------------------------------
(* The end of collect.                                                     *)

KeepsReceiver == TRUE
DropsReceiver == FALSE
ReceiverAfter == DropsReceiver

Close ==
    /\ pc = "close"
    /\ open' = FALSE
    /\ IF status = "none" \/ override # "none" \/ failed THEN Killed ELSE UNCHANGED tree
    /\ receiver' = ReceiverAfter
    /\ stop' = {"reader", "writer"}
    /\ Goto("join")
    /\ UNCHANGED <<written, clocks, verdict, total_input, threads>>

\* The first error wins over any terminal, and an override over the exit.
Verdict ==
    CASE failed -> "error"
      [] ~failed /\ override # "none" -> override
      [] OTHER -> status

Join ==
    /\ pc = "join"
    /\ reader \in {"none", "ended"} /\ writer = "ended"
    /\ Returns(Verdict)
    /\ UNCHANGED <<tree, written, clocks, verdict, input, threads, receiver, stop>>

Collector ==
    Admit \/ Open \/ Prepare \/ Spawn \/ Setup \/ Look \/ TryWait \/ Take \/ Close \/ Join
Bridge == BridgeIdle \/ BridgeOutput

Next ==
    \/ ProcessTree \/ Cancel \/ Expire
    \/ Reader \/ ReadFails \/ Writer \/ Written
    \/ Collector \/ Idle \/ Bridge

\* The threads are scheduled, and the bridge observes the deadline it is given;
\* nothing is asked of the process tree, of the caller or of the idle timer.
Fairness ==
    /\ WF_vars(Collector) /\ WF_vars(Bridge)
    /\ WF_vars(Reader) /\ WF_vars(Writer)

Spec == Init /\ [][Next]_vars /\ Fairness
-----------------------------------------------------------------------------
(* Properties.                                                             *)

\* However an interactive call returns, also when the bridge completed it while
\* the process was still running, the leader is reaped, its group is dead and
\* both threads have ended; and before dispatch nothing was started.
PtyLeavesNothing ==
    pc = "returned" =>
        /\ leader \in {"unborn", "reaped"} /\ members = "none"
        /\ reader \in {"none", "ended"} /\ writer \in {"none", "ended"}
        /\ result \in {"not_dispatched", "refused"} <=> leader = "unborn"

\* The exit of the process is reported only after everything the tree wrote to
\* the terminal was captured, and the status is the leader's own.
PtyExitCarriesOutput ==
    pc = "returned" /\ result \in {"success", "failure"} =>
        captured = written /\ result = code /\ status = code

\* The answer of an interactive call answers for its process: both of the above
\* (execute_until, collect).
PtyAnswersForItsProcess == PtyLeavesNothing /\ PtyExitCarriesOutput

\* The deadline or a cancellation ends the call, whoever holds the terminal and
\* whichever channel is full, as long as the bridge returns.
PtyReturns == (cancelled \/ expired) ~> pc = "returned"
=============================================================================
