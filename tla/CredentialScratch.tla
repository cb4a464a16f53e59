-------------------------- MODULE CredentialScratch --------------------------
(***************************************************************************)
(* The scratch container of one scope                                      *)
(* (src/tool-runtime-core/src/credential_filesystem.rs,                    *)
(* CredentialScratchAuthority): the directories that hold the credential   *)
(* files of calls, one per call and named after it, made by start_session, *)
(* removed by cleanup or by Drop, and after a crash by                     *)
(* recover_stale_sessions of a later process.                              *)
(*                                                                         *)
(* A directory is its maker: what inspect_private_directory tells apart by *)
(* device and inode.  Orphan is a directory its maker no longer stands for.*)
(***************************************************************************)
EXTENDS Integers, FiniteSets

CONSTANTS
    Processes,
    Threads,      \* thread -> its process, as a function
    Recoverers,   \* the threads that call recover_stale_sessions
    Names,        \* session names: digests of call ids
    MaxSessions,  \* MAX_RECOVERABLE_SESSIONS
    MaxFaults,    \* operations of the file system that fail
    MaxCrashes

Callers == DOMAIN Threads

Absent == "absent"
Orphan == "orphan"
Nobody == "nobody"

ScratchAssumption ==
    /\ Threads \in [Callers -> Processes] /\ Recoverers \subseteq Callers
    /\ Nobody \notin Processes /\ {Absent, Orphan} \cap Callers = {}
    /\ MaxSessions \in Nat \ {0} /\ MaxFaults \in Nat /\ MaxCrashes \in Nat

\* Recovery is for the bootstrap, and one thread of a process does it.  Nothing
\* in the code keeps a second one out: it may have listed what the first removes,
\* and then remove what a session that started in between has made of the name.
OneRecoverer == \A t, u \in Recoverers : Threads[t] = Threads[u] => t = u

VARIABLES
    lease,    \* the process that holds the flock
    active,   \* process -> active_sessions
    dirs,     \* name -> absent, orphan, or the thread that made it
    pc,       \* thread -> where it is
    name,     \* thread -> the session it starts or owns
    todo,     \* thread -> what its recovery has listed and not yet removed
    faults, crashes

vars == <<lease, active, dirs, pc, name, todo, faults, crashes>>

NoName == "none"

Init ==
    /\ lease = Nobody
    /\ active = [p \in Processes |-> {}]
    /\ dirs = [n \in Names |-> Absent]
    /\ pc = [t \in Callers |-> "idle"]
    /\ name = [t \in Callers |-> NoName]
    /\ todo = [t \in Callers |-> {}]
    /\ faults = 0 /\ crashes = 0

Goes(t, where) == pc' = [pc EXCEPT ![t] = where]
Faults == faults < MaxFaults /\ faults' = faults + 1
Deactivates(t) == active' = [active EXCEPT ![Threads[t]] = @ \ {name[t]}]
Mine(t) == dirs[name[t]] = t

-----------------------------------------------------------------------------

\* open_or_create: the first handle of a process takes the lease, later ones
\* share it; the last one to be dropped, sessions included, gives it back.
MayLease == lease = Nobody

Open(p) ==
    /\ MayLease
    /\ lease' = p
    /\ UNCHANGED <<active, dirs, pc, name, todo, faults, crashes>>

Close(p) ==
    /\ lease = p
    /\ \A t \in Callers : Threads[t] = p => pc[t] = "idle"
    /\ lease' = Nobody
    /\ UNCHANGED <<active, dirs, pc, name, todo, faults, crashes>>

Crash(p) ==
    /\ lease = p /\ crashes < MaxCrashes
    /\ crashes' = crashes + 1
    /\ lease' = Nobody
    /\ active' = [active EXCEPT ![p] = {}]
    /\ dirs' = [n \in Names |->
                  IF dirs[n] \in Callers /\ Threads[dirs[n]] = p THEN Orphan ELSE dirs[n]]
    /\ pc' = [t \in Callers |-> IF Threads[t] = p THEN "idle" ELSE pc[t]]
    /\ name' = [t \in Callers |-> IF Threads[t] = p THEN NoName ELSE name[t]]
    /\ todo' = [t \in Callers |-> IF Threads[t] = p THEN {} ELSE todo[t]]
    /\ UNCHANGED faults

\* start_session, first half: the name is reserved under the mutex.
Reserve(t, n) ==
    LET p == Threads[t] IN
    /\ pc[t] = "idle" /\ lease = p
    /\ Cardinality(active[p]) < MaxSessions
    /\ n \notin active[p]
    /\ active' = [active EXCEPT ![p] = @ \cup {n}]
    /\ name' = [name EXCEPT ![t] = n]
    /\ Goes(t, "reserved")
    /\ UNCHANGED <<lease, dirs, todo, faults, crashes>>

Abandons(t) ==
    /\ Deactivates(t)
    /\ name' = [name EXCEPT ![t] = NoName]
    /\ Goes(t, "idle")

\* Second half: the directory is created, exclusively, then inspected and the
\* container synced; when one of these fails what was created is left.
MayCreate(t) == dirs[name[t]] = Absent

Create(t) ==
    /\ pc[t] = "reserved"
    /\ \/ /\ MayCreate(t)
          /\ dirs' = [dirs EXCEPT ![name[t]] = t]
          /\ Goes(t, "live")
          /\ UNCHANGED <<active, name, faults>>
       \/ /\ MayCreate(t) /\ Faults
          /\ dirs' = [dirs EXCEPT ![name[t]] = Orphan]
          /\ Abandons(t)
       \/ /\ ~MayCreate(t)
          /\ Abandons(t) /\ UNCHANGED <<dirs, faults>>
    /\ UNCHANGED <<lease, todo, crashes>>

\* cleanup: only the session's own directory is removed.  It fails before or
\* after the removal; the reservation then stays until the owner is dropped.
Cleanup(t) ==
    /\ pc[t] \in {"live", "failed"}
    /\ \/ /\ Mine(t)
          /\ dirs' = [dirs EXCEPT ![name[t]] = Absent]
          /\ Abandons(t) /\ UNCHANGED faults
       \/ /\ Mine(t) /\ Faults
          /\ \/ dirs' = [dirs EXCEPT ![name[t]] = Absent]
             \/ UNCHANGED dirs
          /\ Goes(t, "failed") /\ UNCHANGED <<active, name>>
       \/ /\ ~Mine(t)
          /\ Goes(t, "failed") /\ UNCHANGED <<active, dirs, name, faults>>
    /\ UNCHANGED <<lease, todo, crashes>>

\* Drop, after its own attempt at cleanup has failed.
DropFailed(t) ==
    /\ pc[t] = "failed"
    /\ dirs' = IF Mine(t) THEN [dirs EXCEPT ![name[t]] = Orphan] ELSE dirs
    /\ Abandons(t)
    /\ UNCHANGED <<lease, todo, faults, crashes>>

-----------------------------------------------------------------------------

Present == {n \in Names : dirs[n] # Absent}

\* recover_stale_sessions under the mutex: no session may be active, and the
\* directories are listed, up to the limit.
NoneActive(p) == active[p] = {}
AnyActive(p) == TRUE
MayRecover(p) == NoneActive(p)

List(t) ==
    /\ t \in Recoverers /\ pc[t] = "idle" /\ lease = Threads[t]
    /\ MayRecover(Threads[t])
    /\ Cardinality(Present) <= MaxSessions
    /\ todo' = [todo EXCEPT ![t] = Present]
    /\ Goes(t, "recovering")
    /\ UNCHANGED <<lease, active, dirs, name, faults, crashes>>

\* The mutex released, the candidates are inspected and removed one by one; the
\* first error ends the recovery.
Remove(t, n) ==
    /\ pc[t] = "recovering" /\ n \in todo[t] /\ dirs[n] # Absent
    /\ dirs' = [dirs EXCEPT ![n] = Absent]
    /\ todo' = [todo EXCEPT ![t] = @ \ {n}]
    /\ UNCHANGED <<lease, active, pc, name, faults, crashes>>

RecoveryEnds(t) ==
    /\ pc[t] = "recovering"
    /\ \/ (todo[t] = {} \/ \E n \in todo[t] : dirs[n] = Absent) /\ UNCHANGED faults
       \/ Faults
    /\ todo' = [todo EXCEPT ![t] = {}]
    /\ Goes(t, "idle")
    /\ UNCHANGED <<lease, active, dirs, name, crashes>>

Next ==
    \/ \E p \in Processes : Open(p) \/ Close(p) \/ Crash(p)
    \/ \E t \in Callers :
          \/ \E n \in Names : Reserve(t, n) \/ Remove(t, n)
          \/ Create(t) \/ Cleanup(t) \/ DropFailed(t)
          \/ List(t) \/ RecoveryEnds(t)

Spec == Init /\ [][Next]_vars
-----------------------------------------------------------------------------
(* Properties.                                                             *)

\* Until its owner asks for cleanup, the directory of a session is there and is
\* the one the session made: no other session, no recovery and no other process
\* takes the credentials of a running call away (start_session, cleanup,
\* recover_stale_sessions), provided OneRecoverer.
SessionsKeepTheirFiles == \A t \in Callers : pc[t] = "live" => Mine(t)
=============================================================================
