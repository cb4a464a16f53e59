---------------------------- MODULE JailExecStatus ----------------------------
(***************************************************************************)
(* The exec-status channel of a Linux jail: the shim that is the first     *)
(* program of the jail (exec_shim in governed_process_jail/                *)
(* egress_forwarder.rs) reports on a socket whether it will execute the    *)
(* command, and the runner (JailExecStatus in governed_batch_process.rs)   *)
(* decides by the report whether anything was dispatched.                  *)
(*                                                                         *)
(* The jail's init holds the shim's end too for a while, and the command   *)
(* can take it from there and write to it.                                 *)
(***************************************************************************)
EXTENDS Integers, Sequences

CONSTANTS
    MaxForged       \* bytes the command writes at most

ChannelAssumption == MaxForged \in Nat

VARIABLES
    shim,      \* where the shim is; it ends by exec, by exit or by a signal
    ran,       \* the command was executed
    command,   \* the command, or something it left in the jail, is alive
    lent,      \* the jail's init holds a copy of the shim's end
    channel,   \* the bytes written, in order
    runner     \* waiting, or what it concluded

vars == <<shim, ran, command, lent, channel, runner>>

Refused == "R"
Dispatching == "D"

Init ==
    /\ shim = "parsing"
    /\ ran = FALSE /\ command = FALSE
    /\ lent = TRUE
    /\ channel = <<>>
    /\ runner = "waiting"

Reports(byte) == channel' = Append(channel, byte)

\* refuse: the report is sent if it can be, and the shim exits.
Refuse ==
    /\ shim' = "ended"
    /\ Reports(Refused) \/ UNCHANGED channel

\* A malformed invocation or a bad descriptor ends the shim without a report; a
\* task ceiling may have to be applied.
Parse ==
    /\ shim = "parsing"
    /\ shim' \in {"ceiling", "closing", "ended"}
    /\ UNCHANGED <<ran, command, lent, channel, runner>>

\* The namespace is checked and the limit set, then every descriptor is marked
\* close-on-exec, the channel last; each may fail.
Advance(here, next) ==
    /\ shim = here
    /\ \/ shim' = next /\ UNCHANGED channel
       \/ Refuse
    /\ UNCHANGED <<ran, command, lent, runner>>

ApplyCeiling == Advance("ceiling", "closing")
CloseDescriptors == Advance("closing", "reporting")

\* The report precedes exec; without it the shim gives up.
ReportDispatch ==
    /\ shim = "reporting"
    /\ \/ Reports(Dispatching) /\ shim' = "executing"
       \/ Refuse
    /\ UNCHANGED <<ran, command, lent, runner>>

Exec ==
    /\ shim = "executing"
    /\ \/ /\ shim' = "ended" /\ ran' = TRUE /\ command' = TRUE
          /\ UNCHANGED channel
       \/ Refuse /\ UNCHANGED <<ran, command>>
    /\ UNCHANGED <<lent, runner>>

Shim == Parse \/ ApplyCeiling \/ CloseDescriptors \/ ReportDispatch \/ Exec

-----------------------------------------------------------------------------

\* What the command does with an end it took from the jail's init.
Forge(byte) ==
    /\ command /\ lent
    /\ Len(channel) <= MaxForged
    /\ Reports(byte)
    /\ UNCHANGED <<shim, ran, command, lent, runner>>

InitCloses ==
    /\ lent
    /\ lent' = FALSE
    /\ UNCHANGED <<shim, ran, command, channel, runner>>

\* The command ends, or everything is killed at a limit or a cancellation, the
\* shim wherever it is.
CommandEnds ==
    /\ command
    /\ command' = FALSE
    /\ UNCHANGED <<shim, ran, lent, channel, runner>>

Kill ==
    /\ runner = "waiting"
    /\ shim' = "ended" /\ command' = FALSE /\ lent' = FALSE
    /\ UNCHANGED <<ran, channel, runner>>

\* jail_exec_report_refused.
ReportRefused(report) == report # <<>> /\ Head(report) = Refused

\* refused: read once the launcher has exited, without waiting for more; an
\* error of the execution is returned before, with an unknown dispatch.
Conclude ==
    /\ runner = "waiting" /\ shim = "ended" /\ ~command
    /\ \/ runner' = IF ReportRefused(channel) THEN "not_dispatched" ELSE "dispatched"
       \/ runner' = "unknown"
    /\ UNCHANGED <<shim, ran, command, lent, channel>>

Next ==
    \/ Shim
    \/ \E byte \in {Refused, Dispatching} : Forge(byte)
    \/ InitCloses \/ CommandEnds \/ Kill \/ Conclude

Spec == Init /\ [][Next]_vars
-----------------------------------------------------------------------------
(* Properties.                                                             *)

\* The runner says that nothing was dispatched only if the command never ran,
\* whatever the command wrote to the channel and wherever a kill found the shim.
RefusalMeansNothingRan == runner = "not_dispatched" => ~ran
=============================================================================
