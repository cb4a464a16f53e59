--------------------------- MODULE EgressForwarder ---------------------------
(***************************************************************************)
(* The relay inside a brokered jail                                        *)
(* (src/tool-runtime-core/src/governed_process_jail/egress_forwarder.rs,   *)
(* run): one thread that starts the command, accepts its connections,      *)
(* moves bytes both ways between each and the broker's socket, and drains  *)
(* what the command has sent when it exits.                                *)
(*                                                                         *)
(* Bytes are counted.  How much one wake-up moves is left open, since the  *)
(* kernel's buffers decide it, and so is when a hang-up is noticed.        *)
(***************************************************************************)
EXTENDS Integers, FiniteSets

CONSTANTS
    Clients,   \* connections the command or a descendant may open
    MaxBytes,  \* client -> bytes each side of its connection sends at most
    Buffer,    \* RELAY_BUFFER_BYTES
    Capacity   \* connection_capacity

ForwarderAssumption ==
    /\ MaxBytes \in [Clients -> Nat]
    /\ Buffer \in Nat \ {0} /\ Capacity \in Nat \ {0}

VARIABLES
    child,     \* running, or exited
    pc,        \* the forwarder: loop, pump, sweep, drain or exited
    overdue,   \* the drain's deadline has passed, or its poll has failed
    conn,      \* client -> absent, queued, connecting, relaying, closed
    peer,      \* client -> side -> what that side has sent, and how it stands
    pipe,      \* client -> source -> what was moved from that side to the other
    gone,      \* client -> sides that were seen to have hung up
    failed     \* clients whose relay failed

vars == <<child, pc, overdue, conn, peer, pipe, gone, failed>>

Sides == {"client", "upstream"}
Other(s) == CHOOSE o \in Sides : o # s
Fresh == [read |-> 0, written |-> 0, closed |-> FALSE, shut |-> FALSE]

Init ==
    /\ child = "running" /\ pc = "loop" /\ overdue = FALSE
    /\ conn = [c \in Clients |-> "absent"]
    /\ peer = [c \in Clients |-> [s \in Sides |-> [sent |-> 0, eof |-> FALSE, hup |-> FALSE]]]
    /\ pipe = [c \in Clients |-> [s \in Sides |-> Fresh]]
    /\ gone = [c \in Clients |-> {}]
    /\ failed = {}

-----------------------------------------------------------------------------
(* The command, its descendants, and the broker.                           *)

Forwarder == <<pc, overdue, pipe, gone, failed>>

Connect(c) ==
    /\ conn[c] = "absent" /\ pc # "exited"
    /\ conn' = [conn EXCEPT ![c] = "queued"]
    /\ UNCHANGED <<child, peer, Forwarder>>

\* A connection that waits in the listen queue takes bytes already.
Present(c, s) == conn[c] \in IF s = "client" THEN {"queued", "connecting", "relaying"} ELSE {"relaying"}

Send(c, s) ==
    /\ Present(c, s) /\ ~peer[c][s].eof
    /\ peer[c][s].sent < MaxBytes[c]
    /\ peer' = [peer EXCEPT ![c][s].sent = @ + 1]
    /\ UNCHANGED <<child, conn, Forwarder>>

\* A half-close, or the end of the whole connection.
Shut(c, s, hup) ==
    /\ Present(c, s) /\ ~peer[c][s].hup
    /\ peer[c][s].eof => hup
    /\ peer' = [peer EXCEPT ![c][s].eof = TRUE, ![c][s].hup = hup]
    /\ UNCHANGED <<child, conn, Forwarder>>

ChildExits ==
    /\ child = "running"
    /\ child' = "exited"
    /\ UNCHANGED <<conn, peer, Forwarder>>

-----------------------------------------------------------------------------
(* One connection.                                                         *)

Open == {c \in Clients : conn[c] \in {"connecting", "relaying"}}

\* Pipe::pump: some of what is there is read as far as the buffer goes, some of
\* what is buffered is written, and once all of it is the end is passed on.
ShutsAtEof(p) == p.closed
ShutsWhenEmpty(p) == p.closed /\ p.read = p.written
Shuts(p) == ShutsWhenEmpty(p)

Pumped(p, source) ==
    {[q EXCEPT !.shut = p.shut \/ Shuts(q)] :
        q \in {m \in [read : p.read..(IF p.closed THEN p.read ELSE source.sent),
                      written : p.written..source.sent, closed : BOOLEAN, shut : {p.shut}] :
                 /\ m.written <= m.read /\ m.read - m.written <= Buffer
                 /\ p.closed => m.closed
                 /\ m.closed => p.closed \/ (source.eof /\ m.read = source.sent)}}

Drained(p) == p.closed /\ p.read = p.written /\ p.shut

\* pump_outbound, and pump for the other direction: bytes from side s move to
\* the other side, unless that one was seen to be gone; a write may find out.
Moves(c, s) ==
    /\ conn[c] = "relaying" /\ c \notin failed
    /\ Other(s) \notin gone[c]
    /\ \/ \E p \in Pumped(pipe[c][s], peer[c][s]) : pipe' = [pipe EXCEPT ![c][s] = p]
          /\ UNCHANGED gone
       \/ /\ peer[c][Other(s)].hup
          /\ gone' = [gone EXCEPT ![c] = @ \cup {Other(s)}]
          /\ UNCHANGED pipe
    /\ UNCHANGED <<child, pc, overdue, conn, peer, failed>>

OutboundSettled(c) == c \in failed \/ "upstream" \in gone[c] \/ Drained(pipe[c]["client"])
Finished(c) ==
    \/ c \in failed
    \/ OutboundSettled(c) /\ ("client" \in gone[c] \/ Drained(pipe[c]["upstream"]))

\* retain: connections that are done with are dropped, and both sockets closed.
Drops(done) ==
    conn' = [c \in Clients |-> IF c \in done THEN "closed" ELSE conn[c]]

\* poll_round and observe: hang-ups are noted; a broker connection that was in
\* progress is made, or fails, or its client has given up.
Observe(c) ==
    /\ pc \in {"loop", "drain"}
    /\ \/ /\ conn[c] = "relaying"
          /\ \E s \in Sides :
                /\ peer[c][s].hup
                /\ gone' = [gone EXCEPT ![c] = @ \cup {s}]
          /\ UNCHANGED <<conn, failed>>
       \/ /\ conn[c] = "connecting" /\ c \notin failed
          /\ conn' = [conn EXCEPT ![c] = "relaying"]
          /\ UNCHANGED <<gone, failed>>
       \/ /\ conn[c] = "connecting" /\ c \notin failed
          /\ failed' = failed \cup {c}
          /\ UNCHANGED <<gone, conn>>
    /\ UNCHANGED <<child, pc, overdue, peer, pipe>>

\* accept_pending for one client: it is relayed at once or after a connect in
\* progress, or closed when the broker cannot be reached at once.
HasRoom == Cardinality(Open) < Capacity

Accept(c) ==
    /\ conn[c] = "queued" /\ HasRoom
    /\ \/ \E state \in {"connecting", "relaying"} : conn' = [conn EXCEPT ![c] = state]
          /\ UNCHANGED failed
       \/ conn' = [conn EXCEPT ![c] = "closed"] /\ failed' = failed \cup {c}
    /\ UNCHANGED <<child, overdue, peer, pipe, gone>>

-----------------------------------------------------------------------------
(* run, and drain_outbound after the command's exit.                       *)

TryWait ==
    /\ pc = "loop"
    /\ pc' = IF child = "exited" THEN "sweep" ELSE "pump"
    /\ UNCHANGED <<child, overdue, conn, peer, pipe, gone, failed>>

Pump(c) ==
    \/ pc = "pump" /\ Accept(c) /\ UNCHANGED pc
    \/ pc = "pump" /\ \E s \in Sides : Moves(c, s)

Retain ==
    /\ pc = "pump"
    /\ Drops({c \in Open : Finished(c)})
    /\ pc' = "loop"
    /\ UNCHANGED <<child, overdue, peer, pipe, gone, failed>>

\* The queue is accepted once more, as far as there is room.
SweepAccepts(c) == pc = "sweep" /\ Accept(c) /\ UNCHANGED pc

QueueEmpty == HasRoom => \A c \in Clients : conn[c] # "queued"
SweepEnds ==
    /\ pc = "sweep" /\ QueueEmpty
    /\ pc' = "drain"
    /\ UNCHANGED <<child, overdue, conn, peer, pipe, gone, failed>>

DrainMoves(c) == pc = "drain" /\ Moves(c, "client")

DrainDrops ==
    /\ pc = "drain"
    /\ Drops({c \in Open : OutboundSettled(c)})
    /\ pc' = IF overdue \/ \A c \in Open : OutboundSettled(c) THEN "exited" ELSE "drain"
    /\ UNCHANGED <<child, overdue, peer, pipe, gone, failed>>

DrainExpires ==
    /\ pc = "drain" /\ ~overdue
    /\ overdue' = TRUE
    /\ UNCHANGED <<child, pc, conn, peer, pipe, gone, failed>>

Next ==
    \/ \E c \in Clients :
          \/ Connect(c)
          \/ \E s \in Sides : Send(c, s) \/ \E hup \in BOOLEAN : Shut(c, s, hup)
          \/ Observe(c) \/ Pump(c) \/ SweepAccepts(c) \/ DrainMoves(c)
    \/ ChildExits \/ TryWait \/ Retain \/ SweepEnds \/ DrainDrops \/ DrainExpires

Spec == Init /\ [][Next]_vars
-----------------------------------------------------------------------------
(* Properties.                                                             *)

\* What side s of a connection sent has reached the other side, if that side
\* stayed to take it.
Delivered(c, s) == pipe[c][s].written = peer[c][s].sent \/ peer[c][Other(s)].hup

\* The end of a stream is passed on only behind everything that was sent before
\* it, in both directions (Pipe::pump).
EndComesLast == \A c \in Clients, s \in Sides : pipe[c][s].shut => pipe[c][s].written = peer[c][s].sent

\* While the command runs, a relay is dropped only when both directions are
\* complete or have nobody left to take them (finished).  When the forwarder
\* exits in time, what was sent over every connection it accepted has reached the
\* broker, also when the command had closed it already (drain_outbound).
RelayLosesNothing ==
    /\ EndComesLast
    /\ child = "running" =>
          \A c \in Clients \ failed :
             conn[c] = "closed" => Delivered(c, "client") /\ Delivered(c, "upstream")
    /\ pc = "exited" /\ ~overdue =>
          \A c \in Clients \ failed : conn[c] \notin {"absent", "queued"} => Delivered(c, "client")
=============================================================================
