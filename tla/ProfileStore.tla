---------------------------- MODULE ProfileStore ----------------------------
(***************************************************************************)
(* The registry of credential profiles on disk                             *)
(* (src/tool-runtime-core/src/credential_profile_store.rs): threads of     *)
(* several registry objects read, change and replace one file, under a     *)
(* mutex of the object and a lock on a second file.                        *)
(*                                                                         *)
(* The lock belongs to an inode, and somebody may give its name to another *)
(* file.  A rename is seen at once and survives a loss of power once the   *)
(* directory was synced.  A staging file a crash leaves behind is never    *)
(* opened again (O_EXCL and a fresh number), so it is left out; a reader   *)
(* takes the file as it is and changes nothing.                            *)
(***************************************************************************)
EXTENDS Integers, FiniteSets

CONSTANTS
    Threads, Registries,
    Assigned,         \* how threads may share registries: functions to them
    Keys,             \* credential profile keys of the scope
    GroupOf,          \* key -> its provider and binding
    Legacy,           \* registry -> key -> the reference configured for it
    Metadata,         \* what may be recorded of a profile; bounds its revision
    MaxReplacements,  \* how often the lock file is replaced, at most
    MaxCrashes,       \* how often a process or the machine stops, at most
    NoProfile, Nobody

Tables == [Keys -> Metadata \cup {NoProfile}]

StoreAssumption ==
    /\ Keys # {}
    /\ \A m \in Metadata : m.revision \in Nat \ {0} /\ ~(m.default /\ m.disabled)
    /\ MaxReplacements \in Nat
    /\ MaxCrashes \in Nat
    /\ Assigned \subseteq [Threads -> Registries]
    /\ Legacy \in [Registries -> Tables]
    /\ NoProfile \notin Metadata
    /\ Nobody \notin Threads

VARIABLES
    file,        \* the profiles a process finds in the registry file
    survivors,   \* what a loss of power may leave in its place
    lock_file,   \* which of its inodes the lock's name stands for
    holder,      \* inode -> the thread that holds the lock on it
    object,      \* thread -> the registry object it works with
    local_write, \* registry -> the thread in its mutex
    pc, held,    \* thread -> its step, and the inode it opened as the lock
    view,        \* thread -> what it read, then what it wants to publish
    changed,     \* thread -> the key its operation concerns
    crashes,
    acked,       \* history: key -> the last metadata a caller got for a success
    usurped,     \* history: threads whose lock was replaced after their last look at it
    contested,   \* history: such a thread has published
    outrun       \* history: threads that have read a file that was replaced since

locks == <<lock_file, holder, local_write>>
work == <<held, view, changed>>
disk == <<file, survivors>>
history == <<acked, usurped, contested, outrun>>
vars == <<disk, locks, object, pc, work, crashes, history>>

Inodes == 1..(MaxReplacements + 1)
Empty == [k \in Keys |-> NoProfile]

Init ==
    /\ file = Empty /\ survivors = {Empty}
    /\ lock_file = 1
    /\ holder = [i \in Inodes |-> Nobody]
    /\ object \in Assigned
    /\ local_write = [r \in Registries |-> Nobody]
    /\ pc = [t \in Threads |-> "idle"]
    /\ held = [t \in Threads |-> 0]
    /\ view = [t \in Threads |-> Empty]
    /\ changed \in {[t \in Threads |-> k] : k \in {CHOOSE k \in Keys : TRUE}}
    /\ crashes = 0
    /\ acked = Empty
    /\ usurped = {} /\ contested = FALSE /\ outrun = {}

Goto(t, step) == pc' = [pc EXCEPT ![t] = step]

\* The guards of the call are dropped: the file lock, then the mutex.
Unlocks(threads) ==
    /\ pc' = [t \in Threads |-> IF t \in threads THEN "idle" ELSE pc[t]]
    /\ holder' = [i \in Inodes |-> IF holder[i] \in threads THEN Nobody ELSE holder[i]]
    /\ local_write' = [r \in Registries |-> IF local_write[r] \in threads THEN Nobody ELSE local_write[r]]
    /\ held' = [t \in Threads |-> IF t \in threads THEN 0 ELSE held[t]]
    /\ view' = [t \in Threads |-> IF t \in threads THEN Empty ELSE view[t]]
    /\ changed' = [t \in Threads |-> IF t \in threads THEN CHOOSE k \in Keys : TRUE ELSE changed[t]]
    /\ usurped' = usurped \ threads
    /\ outrun' = outrun \ threads

Returns(t) == Unlocks({t}) /\ UNCHANGED <<lock_file, object, crashes>>

-----------------------------------------------------------------------------
(* What an operation makes of the profiles it read.                        *)

\* The stored profiles, and the references of the configuration they do not
\* overlay.
Merged(r, table) == [k \in Keys |-> IF table[k] # NoProfile THEN table[k] ELSE Legacy[r][k]]

\* A snapshot has at most one default for a provider and binding.
OneDefault(table) ==
    \A j, k \in Keys :
        /\ table[j] # NoProfile /\ table[k] # NoProfile
        /\ GroupOf[j] = GroupOf[k] /\ table[j].default /\ table[k].default
        => j = k

Create(table, k, m) ==
    table[k] = NoProfile /\ m.revision = 1 /\ ~m.disabled

\* update_metadata keeps the availability, set_disabled everything else; both
\* start from what the caller saw, which may be a reference still unstored.
Expects(current, expected) == current.revision = expected

Revise(table, k, m, expected) ==
    /\ table[k] # NoProfile
    /\ Expects(table[k], expected)
    /\ m.revision = table[k].revision + 1
    /\ \/ m.disabled = table[k].disabled
       \/ m.default = table[k].default

\* The operation succeeds on what was read, and its result is a valid snapshot.
Accepts(t, k, m) ==
    LET merged == Merged(object[t], view[t])
    IN  /\ \/ Create(merged, k, m)
           \/ \E seen \in Metadata : Revise(merged, k, m, seen.revision)
        /\ OneDefault([merged EXCEPT ![k] = m])

-----------------------------------------------------------------------------
(* mutate, and write_store_atomic at its end.                              *)

Begin(t) ==
    /\ pc[t] = "idle"
    /\ local_write[object[t]] = Nobody
    /\ local_write' = [local_write EXCEPT ![object[t]] = t]
    /\ held' = [held EXCEPT ![t] = lock_file]
    /\ Goto(t, "locking")
    /\ UNCHANGED <<disk, lock_file, holder, object, view, changed, crashes, history>>

\* flock without waiting, tried again while another holds the lock.
LockFree(inode) == holder[inode] = Nobody

Lock(t) ==
    /\ pc[t] = "locking"
    /\ LockFree(held[t])
    /\ holder' = [holder EXCEPT ![held[t]] = t]
    /\ Goto(t, "locked")
    /\ UNCHANGED <<disk, lock_file, local_write, object, work, crashes, history>>

\* RegistryFileLock::revalidate: the name still stands for the inode it holds.
BelievesItHolds(t) == TRUE
HoldsNamed(t) == held[t] = lock_file
StillHolds(t) == HoldsNamed(t)

Load(t) ==
    /\ pc[t] = "locked"
    /\ StillHolds(t)
    /\ view' = [view EXCEPT ![t] = file]
    /\ Goto(t, "loaded")
    /\ UNCHANGED <<disk, locks, object, held, changed, crashes, history>>

\* The operation runs on what was read, behind another look at the lock.
Apply(t) ==
    /\ pc[t] = "loaded"
    /\ StillHolds(t)
    /\ \E k \in Keys, m \in Metadata :
          /\ Accepts(t, k, m)
          /\ view' = [view EXCEPT ![t][k] = m]
          /\ changed' = [changed EXCEPT ![t] = k]
    /\ Goto(t, "staged")
    /\ UNCHANGED <<disk, locks, object, held, crashes, history>>

Recheck(t) ==
    /\ pc[t] = "staged"
    /\ StillHolds(t)
    /\ Goto(t, "checked")
    /\ UNCHANGED <<disk, locks, object, work, crashes, history>>

Rename(t) ==
    /\ pc[t] = "checked"
    /\ file' = view[t]
    /\ survivors' = survivors \cup {view[t]}
    /\ contested' = (contested \/ t \in usurped)
    /\ outrun' = outrun \cup {o \in Threads \ {t} : pc[o] \in {"loaded", "staged", "checked"}}
    /\ Goto(t, "renamed")
    /\ UNCHANGED <<locks, object, work, crashes, acked, usurped>>

\* The directory is synced and the caller gets the metadata, or the caller is
\* told that the state of the commit is unknown.
AcksAnyway(synced) == TRUE
AcksSynced(synced) == synced
Acknowledges(synced) == AcksSynced(synced)

Sync(t, synced) ==
    /\ pc[t] = "renamed"
    /\ survivors' = IF synced THEN {file} ELSE survivors
    /\ acked' = IF Acknowledges(synced) THEN [acked EXCEPT ![changed[t]] = view[t][changed[t]]] ELSE acked
    /\ Returns(t)
    /\ UNCHANGED <<file, contested>>

\* The lock is busy for all tries, a check fails, the operation is refused, or
\* the file system fails; what was staged is unlinked.
Fails(t) ==
    /\ pc[t] \in {"locking", "locked", "loaded", "staged", "checked"}
    /\ Returns(t)
    /\ UNCHANGED <<disk, acked, contested>>

-----------------------------------------------------------------------------
(* The world around the registry.                                          *)

ReplaceLock ==
    /\ lock_file <= MaxReplacements
    /\ lock_file' = lock_file + 1
    /\ usurped' = usurped \cup {t \in Threads : pc[t] = "checked"}
    /\ UNCHANGED <<disk, holder, local_write, object, pc, work, crashes, acked, contested, outrun>>

\* A process dies, and the kernel drops its locks.
Crash(r) ==
    /\ crashes < MaxCrashes
    /\ crashes' = crashes + 1
    /\ Unlocks({t \in Threads : object[t] = r})
    /\ UNCHANGED <<disk, lock_file, object, acked, contested>>

LosePower ==
    /\ crashes < MaxCrashes
    /\ crashes' = crashes + 1
    /\ file' \in survivors
    /\ survivors' = {file'}
    /\ Unlocks(Threads)
    /\ UNCHANGED <<lock_file, object, acked, contested>>

Call(t) ==
    \/ Begin(t)
    \/ Lock(t)
    \/ Load(t)
    \/ Apply(t)
    \/ Recheck(t)
    \/ Rename(t)
    \/ \E synced \in BOOLEAN : Sync(t, synced)
    \/ Fails(t)

Next ==
    \/ \E t \in Threads : Call(t)
    \/ ReplaceLock
    \/ \E r \in Registries : Crash(r)
    \/ LosePower

Spec == Init /\ [][Next]_vars
-----------------------------------------------------------------------------
(* Properties.                                                             *)

\* A registry is only replaced by one that was made from it: no update is lost
\* between two threads, two objects or two processes, whatever crashed.  The
\* exception is a lock file replaced in the gap between the last look at it and
\* the rename (mutate and write_store_atomic).
ReplacesWhatItRead ==
    \A t \in Threads :
        pc[t] = "checked" /\ pc'[t] = "renamed" => t \notin outrun \/ t \in usurped \/ contested

\* What a caller was told has succeeded is what the registry holds, or was
\* built upon, ever after: through other writers, crashes and a loss of power
\* (the sync before the acknowledgement, and the revision every update names).
AcknowledgedSurvives ==
    ~contested =>
        \A k \in Keys :
            acked[k] # NoProfile =>
                \A table \in survivors :
                    /\ table[k] # NoProfile
                    /\ table[k] = acked[k] \/ table[k].revision > acked[k].revision
=============================================================================
