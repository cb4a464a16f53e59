----------------------- MODULE Components_proofs -----------------------
(***************************************************************************)
(* Theorems about the components of a call, for every value of their       *)
(* constants, each with the inductive invariant that it needs.  A part is  *)
(* proved about by itself: that its own specification implies what the     *)
(* run over all of them checks while it is its turn.  What a call prints   *)
(* and leaves behind is proved about in GovernedExecution_proofs.          *)
(***************************************************************************)
EXTENDS Components, FiniteSetTheorems, SequenceTheorems, TLAPS

-----------------------------------------------------------------------------
(* The registry of profiles.                                               *)

Profiles == ps_Metadata \cup {ps_NoProfile}
Reading == {"loaded", "staged", "checked"}
Guarded == Reading \cup {"locked", "renamed"}

\* A profile is the one it was, or a later revision; a table has every profile of
\* another, or a later revision of it.
Kept(new, old) ==
    old # ps_NoProfile => new # ps_NoProfile /\ (new = old \/ new.revision > old.revision)
Builds(new, old) == \A k \in ps_Keys : Kept(new[k], old[k])

StoreTypes ==
    /\ ps_file \in ps_survivors /\ ps_survivors \subseteq Store!Tables
    /\ ps_lock_file \in Store!Inodes
    /\ ps_holder \in [Store!Inodes -> ps_Threads \cup {ps_Nobody}]
    /\ ps_pc \in [ps_Threads -> Guarded \cup {"idle", "locking"}]
    /\ ps_held \in [ps_Threads -> 0..ps_lock_file]
    /\ ps_view \in [ps_Threads -> Store!Tables]
    /\ ps_changed \in [ps_Threads -> ps_Keys]
    /\ ps_acked \in Store!Tables

\* Who is past the lock holds it, on the inode that was opened.
Locked ==
    \A t \in ps_Threads :
        /\ ps_pc[t] # "idle" => ps_held[t] \in Store!Inodes
        /\ ps_pc[t] \in Guarded => ps_holder[ps_held[t]] = t

\* The lock's name stood for that inode at the last look at it, and since then
\* unless it was replaced.
LookedAt == \A t \in ps_Threads : ps_pc[t] = "checked" /\ t \notin ps_usurped => ps_held[t] = ps_lock_file

OutrunReaders == \A t \in ps_Threads : t \in ps_outrun => ps_pc[t] \in Reading \cup {"renamed"}

\* While no one has published under a replaced lock: what was acknowledged is in
\* all that may survive, whoever holds the lock builds on the file as it is, and
\* what was renamed and not yet acknowledged is in the file.
Built ==
    ~ps_contested =>
        /\ \A table \in ps_survivors : Builds(table, ps_acked)
        /\ \A t \in ps_Threads :
              /\ ps_pc[t] \in Reading /\ ps_held[t] = ps_lock_file =>
                    t \notin ps_outrun /\ Builds(ps_view[t], ps_file)
              /\ ps_pc[t] = "renamed" => Kept(ps_file[ps_changed[t]], ps_view[t][ps_changed[t]])

StoreInv == StoreTypes /\ Locked /\ LookedAt /\ OutrunReaders /\ Built

\* What is assumed of the keys and the metadata of the store.
LEMMA StoreAssumed ==
    /\ ps_Keys # {} /\ ps_MaxReplacements \in Nat
    /\ \A m \in ps_Metadata : m.revision \in Nat
    /\ ps_NoProfile \notin ps_Metadata
    /\ Store!Tables = [ps_Keys -> Profiles]
    /\ (CHOOSE k \in ps_Keys : TRUE) \in ps_Keys
BY ComponentAssumption DEF Store!StoreAssumption, Store!Tables, Profiles

\* What is kept through two changes is kept through both.
LEMMA KeptTwice ==
    ASSUME NEW a \in Profiles, NEW b \in Profiles, NEW c \in Profiles, Kept(b, a), Kept(c, b)
    PROVE  Kept(c, a)
<1> SUFFICES ASSUME a # ps_NoProfile
             PROVE  c # ps_NoProfile /\ (c = a \/ c.revision > a.revision)
  BY DEF Kept
<1>1. b # ps_NoProfile /\ (b = a \/ b.revision > a.revision)
  BY DEF Kept
<1>2. c # ps_NoProfile /\ (c = b \/ c.revision > b.revision)
  BY <1>1 DEF Kept
<1>3. a.revision \in Nat /\ b.revision \in Nat /\ c.revision \in Nat
  BY <1>1, <1>2, StoreAssumed DEF Profiles
<1> QED
  BY <1>1, <1>2, <1>3

\* A registry that builds on one that builds on a third builds on the third.
LEMMA BuildsTwice ==
    ASSUME NEW a \in Store!Tables, NEW b \in Store!Tables, NEW c \in Store!Tables,
           Builds(b, a), Builds(c, b)
    PROVE  Builds(c, a)
<1> SUFFICES ASSUME NEW k \in ps_Keys
             PROVE  Kept(c[k], a[k])
  BY DEF Builds
<1>1. a[k] \in Profiles /\ b[k] \in Profiles /\ c[k] \in Profiles
  BY StoreAssumed
<1>2. Kept(b[k], a[k]) /\ Kept(c[k], b[k])
  BY DEF Builds
<1> QED
  BY <1>1, <1>2, KeptTwice

\* Who is past the lock on one inode is one.
LEMMA OneGuarded ==
    ASSUME StoreInv, NEW t \in ps_Threads, NEW u \in ps_Threads,
           ps_pc[t] \in Guarded, ps_pc[u] \in Guarded, ps_held[t] = ps_held[u]
    PROVE  t = u
BY DEF StoreInv, Locked

\* What is left when threads have dropped their guards.
LEMMA UnlocksKeep ==
    ASSUME StoreInv, NEW threads \in SUBSET ps_Threads, Store!Unlocks(threads), UNCHANGED ps_lock_file
    PROVE  /\ ps_holder' \in [Store!Inodes -> ps_Threads \cup {ps_Nobody}]
           /\ ps_pc' \in [ps_Threads -> Guarded \cup {"idle", "locking"}]
           /\ ps_held' \in [ps_Threads -> 0..ps_lock_file]
           /\ ps_view' \in [ps_Threads -> Store!Tables]
           /\ ps_changed' \in [ps_Threads -> ps_Keys]
           /\ Locked' /\ LookedAt' /\ OutrunReaders'
           /\ \A t \in threads : ps_pc'[t] = "idle"
           /\ \A t \in ps_Threads \ threads :
                 /\ ps_pc'[t] = ps_pc[t] /\ ps_held'[t] = ps_held[t] /\ ps_view'[t] = ps_view[t]
                 /\ ps_changed'[t] = ps_changed[t] /\ (t \in ps_outrun' => t \in ps_outrun)
<1>1. /\ \A t \in threads : ps_pc'[t] = "idle"
      /\ \A t \in ps_Threads \ threads :
            /\ ps_pc'[t] = ps_pc[t] /\ ps_held'[t] = ps_held[t] /\ ps_view'[t] = ps_view[t]
            /\ ps_changed'[t] = ps_changed[t]
      /\ ps_outrun' = ps_outrun \ threads /\ ps_usurped' = ps_usurped \ threads
  BY DEF Store!Unlocks
<1>2. /\ ps_pc' \in [ps_Threads -> Guarded \cup {"idle", "locking"}]
      /\ ps_changed' \in [ps_Threads -> ps_Keys]
      /\ ps_holder' \in [Store!Inodes -> ps_Threads \cup {ps_Nobody}]
  BY StoreAssumed DEF StoreInv, StoreTypes, Store!Unlocks
<1>3. ps_held' \in [ps_Threads -> 0..ps_lock_file]
  <2>1. ps_lock_file \in Nat /\ 0 \in 0..ps_lock_file
    BY DEF StoreInv, StoreTypes, Store!Inodes
  <2> QED
    BY <2>1 DEF StoreInv, StoreTypes, Store!Unlocks
<1>4. ps_view' \in [ps_Threads -> Store!Tables]
  <2>1. Store!Empty \in Store!Tables
    BY DEF Store!Empty, Store!Tables
  <2> QED
    BY <2>1 DEF StoreInv, StoreTypes, Store!Unlocks
<1>5. Locked'
  <2>1. ASSUME NEW t \in ps_Threads \ threads, ps_pc[t] \in Guarded
        PROVE  ps_holder'[ps_held[t]] = t
    BY <2>1 DEF StoreInv, Locked, Guarded, Reading, Store!Unlocks
  <2> QED
    BY <1>1, <2>1 DEF StoreInv, Locked, Guarded, Reading
<1>6. LookedAt' /\ OutrunReaders'
  BY <1>1 DEF StoreInv, LookedAt, OutrunReaders
<1> QED
  BY <1>1, <1>2, <1>3, <1>4, <1>5, <1>6

\* What the invariant says of tables depends on who reads or has renamed: a step
\* that adds none of these keeps it.
LEMMA BuiltKept ==
    ASSUME StoreInv, UNCHANGED <<ps_file, ps_survivors, ps_acked, ps_contested>>,
           \A t \in ps_Threads :
              /\ ps_pc'[t] \in Reading /\ ps_held'[t] = ps_lock_file' =>
                    /\ ps_pc[t] \in Reading /\ ps_held[t] = ps_lock_file
                    /\ ps_view'[t] = ps_view[t] /\ (t \in ps_outrun' => t \in ps_outrun)
              /\ ps_pc'[t] = "renamed" =>
                    ps_pc[t] = "renamed" /\ ps_view'[t] = ps_view[t] /\ ps_changed'[t] = ps_changed[t]
    PROVE  Built'
BY DEF StoreInv, Built, Builds

\* mutate takes the mutex and opens the lock's file.
LEMMA BeginStep ==
    ASSUME StoreInv, NEW t \in ps_Threads, Store!Begin(t)
    PROVE  StoreInv'
<1>0. /\ ps_pc[t] = "idle" /\ ps_pc' = [ps_pc EXCEPT ![t] = "locking"]
      /\ ps_held' = [ps_held EXCEPT ![t] = ps_lock_file]
      /\ UNCHANGED <<ps_file, ps_survivors, ps_lock_file, ps_holder, ps_view, ps_changed,
                     ps_acked, ps_usurped, ps_contested, ps_outrun>>
  BY DEF Store!Begin, Store!Goto, Store!disk, Store!history
<1>1. StoreTypes'
  BY <1>0 DEF StoreInv, StoreTypes, Store!Inodes
<1>2. /\ ps_pc'[t] = "locking" /\ ps_held'[t] = ps_lock_file
      /\ \A u \in ps_Threads : u # t => ps_pc'[u] = ps_pc[u] /\ ps_held'[u] = ps_held[u]
  BY <1>0 DEF StoreInv, StoreTypes
<1>3. Locked' /\ LookedAt' /\ OutrunReaders'
  BY <1>0, <1>2 DEF StoreInv, StoreTypes, Locked, LookedAt, OutrunReaders, Guarded, Reading
<1>4. Built'
  BY <1>0, <1>2, BuiltKept DEF Reading
<1> QED
  BY <1>1, <1>3, <1>4 DEF StoreInv

\* A thread whose lock still has its name goes on to another step, and at most its
\* view and its key change.
LEMMA GoesOn ==
    ASSUME StoreInv, NEW t \in ps_Threads, NEW step \in Reading, ps_pc[t] \in Guarded,
           ps_pc' = [ps_pc EXCEPT ![t] = step],
           ps_view' \in [ps_Threads -> Store!Tables], ps_changed' \in [ps_Threads -> ps_Keys],
           \A u \in ps_Threads : u # t => ps_view'[u] = ps_view[u] /\ ps_changed'[u] = ps_changed[u],
           ps_held[t] = ps_lock_file,
           ps_contested \/ (t \notin ps_outrun /\ Builds(ps_view'[t], ps_file)),
           UNCHANGED <<ps_file, ps_survivors, ps_lock_file, ps_holder, ps_held,
                       ps_acked, ps_usurped, ps_contested, ps_outrun>>
    PROVE  StoreInv'
<1>1. /\ ps_pc'[t] = step
      /\ \A u \in ps_Threads : u # t => ps_pc'[u] = ps_pc[u]
  BY DEF StoreInv, StoreTypes
<1>2. StoreTypes'
  BY DEF StoreInv, StoreTypes, Store!Inodes, Guarded
<1>3. Locked' /\ LookedAt' /\ OutrunReaders'
  BY <1>1 DEF StoreInv, Locked, LookedAt, OutrunReaders, Guarded, Reading
<1>4. Built'
  BY <1>1 DEF StoreInv, Built, Builds, Reading
<1> QED
  BY <1>2, <1>3, <1>4 DEF StoreInv

\* The lock is taken.
LEMMA LockStep ==
    ASSUME StoreInv, NEW t \in ps_Threads, Store!Lock(t)
    PROVE  StoreInv'
<1>0. /\ ps_pc[t] = "locking" /\ ps_holder[ps_held[t]] = ps_Nobody
      /\ ps_pc' = [ps_pc EXCEPT ![t] = "locked"]
      /\ ps_holder' = [ps_holder EXCEPT ![ps_held[t]] = t]
      /\ UNCHANGED <<ps_file, ps_survivors, ps_lock_file, ps_held, ps_view, ps_changed,
                     ps_acked, ps_usurped, ps_contested, ps_outrun>>
  BY DEF Store!Lock, Store!LockFree, Store!Goto, Store!disk, Store!history, Store!work
<1>1. StoreTypes'
  BY <1>0 DEF StoreInv, StoreTypes, Guarded, Store!Inodes
<1>2. /\ ps_pc'[t] = "locked"
      /\ \A u \in ps_Threads : u # t => ps_pc'[u] = ps_pc[u]
  BY <1>0 DEF StoreInv, StoreTypes
<1>3. Locked'
  <2>1. ps_held[t] \in Store!Inodes /\ ps_holder'[ps_held[t]] = t
    BY <1>0 DEF StoreInv, StoreTypes, Locked
  <2>2. \A i \in Store!Inodes : i # ps_held[t] => ps_holder'[i] = ps_holder[i]
    BY <1>0 DEF StoreInv, StoreTypes
  <2>3. ps_Nobody \notin ps_Threads
    BY ComponentAssumption DEF Store!StoreAssumption
  <2>4. \A u \in ps_Threads : u # t /\ ps_pc[u] \in Guarded => ps_held[u] # ps_held[t]
    BY <1>0, <2>3 DEF StoreInv, Locked
  <2>5. \A u \in ps_Threads : ps_pc[u] \in Guarded => ps_held[u] \in Store!Inodes
    BY DEF StoreInv, Locked, Guarded, Reading
  <2> QED
    BY <1>0, <1>2, <2>1, <2>2, <2>4, <2>5 DEF StoreInv, Locked
<1>4. LookedAt' /\ OutrunReaders'
  BY <1>0, <1>2 DEF StoreInv, LookedAt, OutrunReaders, Reading
<1>5. Built'
  BY <1>0, <1>2, BuiltKept DEF Reading
<1> QED
  BY <1>1, <1>3, <1>4, <1>5 DEF StoreInv

\* Every registry builds on itself.
LEMMA BuildsItself ==
    ASSUME NEW a
    PROVE  Builds(a, a)
BY DEF Builds, Kept

\* The file is read while the lock still has its name.
LEMMA LoadStep ==
    ASSUME StoreInv, NEW t \in ps_Threads, Store!Load(t)
    PROVE  StoreInv'
<1>0. /\ ps_pc[t] = "locked" /\ ps_held[t] = ps_lock_file
      /\ ps_pc' = [ps_pc EXCEPT ![t] = "loaded"]
      /\ ps_view' = [ps_view EXCEPT ![t] = ps_file]
      /\ UNCHANGED <<ps_file, ps_survivors, ps_lock_file, ps_holder, ps_held, ps_changed,
                     ps_acked, ps_usurped, ps_contested, ps_outrun>>
  BY DEF Store!Load, Store!StillHolds, Store!HoldsNamed, Store!Goto, Store!disk, Store!history, Store!locks
<1>1. ps_file \in Store!Tables
  BY DEF StoreInv, StoreTypes
<1>2. /\ ps_view' \in [ps_Threads -> Store!Tables] /\ ps_view'[t] = ps_file
      /\ \A u \in ps_Threads : u # t => ps_view'[u] = ps_view[u]
      /\ ps_changed \in [ps_Threads -> ps_Keys]
  BY <1>0, <1>1 DEF StoreInv, StoreTypes
<1>3. Builds(ps_view'[t], ps_file)
  BY <1>2, BuildsItself
<1>4. t \notin ps_outrun
  BY <1>0 DEF StoreInv, OutrunReaders, Reading
<1> QED
  BY <1>0, <1>2, <1>3, <1>4, GoesOn DEF Guarded, Reading

\* What an operation makes of a profile it has read builds upon it.
LEMMA AcceptedBuilds ==
    ASSUME StoreInv, NEW t \in ps_Threads, NEW k \in ps_Keys, NEW m \in ps_Metadata,
           Store!Accepts(t, k, m)
    PROVE  Kept(m, ps_view[t][k])
<1> DEFINE table == ps_view[t]
           merged == Store!Merged(ps_object[t], table)
<1> SUFFICES ASSUME table[k] # ps_NoProfile
             PROVE  m # ps_NoProfile /\ m.revision > table[k].revision
  BY DEF Kept
<1>1. table[k] \in ps_Metadata
  BY StoreAssumed DEF StoreInv, StoreTypes, Profiles
<1>2. merged[k] = table[k]
  BY DEF Store!Merged
<1>3. Store!Create(merged, k, m) \/ \E seen \in ps_Metadata : Store!Revise(merged, k, m, seen.revision)
  BY DEF Store!Accepts
<1>4. m.revision = table[k].revision + 1
  BY <1>2, <1>3 DEF Store!Create, Store!Revise
<1> QED
  BY <1>1, <1>4, StoreAssumed

\* The operation runs on what was read.
LEMMA ApplyStep ==
    ASSUME StoreInv, NEW t \in ps_Threads, Store!Apply(t)
    PROVE  StoreInv'
<1>0. PICK k \in ps_Keys, m \in ps_Metadata :
        /\ Store!Accepts(t, k, m)
        /\ ps_view' = [ps_view EXCEPT ![t][k] = m]
        /\ ps_changed' = [ps_changed EXCEPT ![t] = k]
  BY DEF Store!Apply
<1>1. /\ ps_pc[t] = "loaded" /\ ps_held[t] = ps_lock_file
      /\ ps_pc' = [ps_pc EXCEPT ![t] = "staged"]
      /\ UNCHANGED <<ps_file, ps_survivors, ps_lock_file, ps_holder, ps_held,
                     ps_acked, ps_usurped, ps_contested, ps_outrun>>
  BY DEF Store!Apply, Store!StillHolds, Store!HoldsNamed, Store!Goto, Store!disk, Store!history, Store!locks
<1>2. ps_view[t] \in Store!Tables /\ ps_file \in Store!Tables
  BY DEF StoreInv, StoreTypes
<1>3. /\ ps_changed' \in [ps_Threads -> ps_Keys]
      /\ \A u \in ps_Threads : u # t => ps_view'[u] = ps_view[u] /\ ps_changed'[u] = ps_changed[u]
  BY <1>0 DEF StoreInv, StoreTypes
<1>4. /\ ps_view'[t] \in Store!Tables /\ ps_view'[t][k] = m
      /\ \A j \in ps_Keys : j # k => ps_view'[t][j] = ps_view[t][j]
  <2>1. ps_view'[t] = [ps_view[t] EXCEPT ![k] = m]
    BY <1>0 DEF StoreInv, StoreTypes
  <2> QED
    BY <1>2, <2>1, StoreAssumed DEF Profiles
<1>5. ps_view' \in [ps_Threads -> Store!Tables]
  <2>1. ps_view' = [ps_view EXCEPT ![t] = ps_view'[t]]
    BY <1>0 DEF StoreInv, StoreTypes
  <2> QED
    BY <1>4, <2>1 DEF StoreInv, StoreTypes
<1>6. Builds(ps_view'[t], ps_view[t])
  <2>1. Kept(m, ps_view[t][k])
    BY <1>0, AcceptedBuilds
  <2> QED
    BY <1>4, <2>1 DEF Builds, Kept
<1>7. ps_contested \/ (t \notin ps_outrun /\ Builds(ps_view'[t], ps_file))
  <2>1. ps_contested \/ (t \notin ps_outrun /\ Builds(ps_view[t], ps_file))
    BY <1>1 DEF StoreInv, Built, Reading
  <2> QED
    BY <1>2, <1>4, <1>6, <2>1, BuildsTwice
<1> QED
  BY <1>1, <1>3, <1>5, <1>7, GoesOn DEF Guarded, Reading

\* The last look at the lock before the rename.
LEMMA RecheckStep ==
    ASSUME StoreInv, NEW t \in ps_Threads, Store!Recheck(t)
    PROVE  StoreInv'
<1>1. /\ ps_pc[t] = "staged" /\ ps_held[t] = ps_lock_file
      /\ ps_pc' = [ps_pc EXCEPT ![t] = "checked"]
      /\ UNCHANGED <<ps_file, ps_survivors, ps_lock_file, ps_holder, ps_held, ps_view, ps_changed,
                     ps_acked, ps_usurped, ps_contested, ps_outrun>>
  BY DEF Store!Recheck, Store!StillHolds, Store!HoldsNamed, Store!Goto, Store!disk, Store!history,
     Store!locks, Store!work
<1>2. ps_contested \/ (t \notin ps_outrun /\ Builds(ps_view[t], ps_file))
  BY <1>1 DEF StoreInv, Built, Reading
<1>3. ps_view \in [ps_Threads -> Store!Tables] /\ ps_changed \in [ps_Threads -> ps_Keys]
  BY DEF StoreInv, StoreTypes
<1> QED
  BY <1>1, <1>2, <1>3, GoesOn DEF Guarded, Reading

\* The rename: what is published was made from the file as it is, unless the lock
\* was replaced after the last look at it.
LEMMA RenameStep ==
    ASSUME StoreInv, NEW t \in ps_Threads, Store!Rename(t)
    PROVE  StoreInv'
<1>0. /\ ps_pc[t] = "checked" /\ ps_pc' = [ps_pc EXCEPT ![t] = "renamed"]
      /\ ps_file' = ps_view[t] /\ ps_survivors' = ps_survivors \cup {ps_view[t]}
      /\ ps_contested' = (ps_contested \/ t \in ps_usurped)
      /\ ps_outrun' = ps_outrun \cup {o \in ps_Threads \ {t} : ps_pc[o] \in Reading}
      /\ UNCHANGED <<ps_lock_file, ps_holder, ps_held, ps_view, ps_changed, ps_acked, ps_usurped>>
  BY DEF Store!Rename, Store!Goto, Store!locks, Store!work, Reading
<1>1. StoreTypes'
  BY <1>0 DEF StoreInv, StoreTypes, Guarded
<1>2. /\ ps_pc'[t] = "renamed"
      /\ \A u \in ps_Threads : u # t => ps_pc'[u] = ps_pc[u]
  BY <1>0 DEF StoreInv, StoreTypes
<1>3. Locked' /\ LookedAt' /\ OutrunReaders'
  BY <1>0, <1>2 DEF StoreInv, Locked, LookedAt, OutrunReaders, Guarded, Reading
<1>4. Built'
  <2> SUFFICES ASSUME ~ps_contested, t \notin ps_usurped
               PROVE  Built'
    BY <1>0 DEF Built
  <2>1. /\ ps_held[t] = ps_lock_file
        /\ Builds(ps_view[t], ps_file)
    BY <1>0 DEF StoreInv, LookedAt, Built, Reading
  <2>2. /\ ps_view[t] \in Store!Tables /\ ps_file \in Store!Tables /\ ps_acked \in Store!Tables
        /\ Builds(ps_file, ps_acked)
    BY DEF StoreInv, StoreTypes, Built
  <2>3. \A table \in ps_survivors' : Builds(table, ps_acked)
    BY <1>0, <2>1, <2>2, BuildsTwice DEF StoreInv, Built
  <2>4. \A u \in ps_Threads : ~(ps_pc'[u] \in Reading /\ ps_held[u] = ps_lock_file)
    <3>1. \A u \in ps_Threads : u # t /\ ps_pc[u] \in Reading => ps_held[u] # ps_lock_file
      BY <1>0, <2>1, OneGuarded DEF Guarded, Reading
    <3> QED
      BY <1>2, <3>1 DEF Reading
  <2>5. ASSUME NEW u \in ps_Threads, ps_pc'[u] = "renamed"
        PROVE  Kept(ps_file'[ps_changed[u]], ps_view[u][ps_changed[u]])
    <3> DEFINE k == ps_changed[u]
    <3>1. CASE u = t
      BY <1>0, <3>1 DEF Kept
    <3>2. CASE u # t
      <4>1. k \in ps_Keys /\ ps_view[u] \in Store!Tables
        BY DEF StoreInv, StoreTypes
      <4>2. ps_view[u][k] \in Profiles /\ ps_file[k] \in Profiles /\ ps_view[t][k] \in Profiles
        BY <2>2, <4>1, StoreAssumed
      <4>3. Kept(ps_file[k], ps_view[u][k])
        BY <1>2, <2>5, <3>2 DEF StoreInv, Built
      <4>4. Kept(ps_view[t][k], ps_file[k])
        BY <2>1, <4>1 DEF Builds
      <4> HIDE DEF k
      <4>5. Kept(ps_view[t][k], ps_view[u][k])
        BY <4>2, <4>3, <4>4, KeptTwice
      <4> QED
        BY <1>0, <4>5 DEF k
    <3> QED
      BY <3>1, <3>2
  <2> QED
    BY <1>0, <2>3, <2>4, <2>5 DEF Built, Builds
<1> QED
  BY <1>1, <1>3, <1>4 DEF StoreInv

\* Guards are dropped while the disk stays as it is.
LEMMA GuardsDropped ==
    ASSUME StoreInv, NEW threads \in SUBSET ps_Threads, Store!Unlocks(threads),
           UNCHANGED <<ps_file, ps_survivors, ps_lock_file, ps_acked, ps_contested>>
    PROVE  StoreInv'
<1>1. /\ ps_holder' \in [Store!Inodes -> ps_Threads \cup {ps_Nobody}]
      /\ ps_pc' \in [ps_Threads -> Guarded \cup {"idle", "locking"}]
      /\ ps_held' \in [ps_Threads -> 0..ps_lock_file]
      /\ ps_view' \in [ps_Threads -> Store!Tables]
      /\ ps_changed' \in [ps_Threads -> ps_Keys]
      /\ Locked' /\ LookedAt' /\ OutrunReaders'
      /\ \A t \in threads : ps_pc'[t] = "idle"
      /\ \A t \in ps_Threads \ threads :
            /\ ps_pc'[t] = ps_pc[t] /\ ps_held'[t] = ps_held[t] /\ ps_view'[t] = ps_view[t]
            /\ ps_changed'[t] = ps_changed[t] /\ (t \in ps_outrun' => t \in ps_outrun)
  BY UnlocksKeep
<1>2. StoreTypes'
  BY <1>1 DEF StoreInv, StoreTypes
<1>3. Built'
  BY <1>1, BuiltKept DEF Reading
<1> QED
  BY <1>1, <1>2, <1>3 DEF StoreInv

\* The caller is told that its change is there, once it is all that may survive.
LEMMA SyncStep ==
    ASSUME StoreInv, NEW t \in ps_Threads, NEW synced \in BOOLEAN, Store!Sync(t, synced)
    PROVE  StoreInv'
<1> DEFINE k == ps_changed[t]
<1>0. /\ ps_pc[t] = "renamed" /\ Store!Unlocks({t})
      /\ ps_survivors' = IF synced THEN {ps_file} ELSE ps_survivors
      /\ ps_acked' = IF synced THEN [ps_acked EXCEPT ![k] = ps_view[t][k]] ELSE ps_acked
      /\ UNCHANGED <<ps_file, ps_lock_file, ps_contested>>
  BY DEF Store!Sync, Store!Acknowledges, Store!AcksSynced, Store!Returns
<1>1. CASE ~synced
  BY <1>0, <1>1, GuardsDropped
<1>2. CASE synced
  <2>1. /\ ps_holder' \in [Store!Inodes -> ps_Threads \cup {ps_Nobody}]
        /\ ps_pc' \in [ps_Threads -> Guarded \cup {"idle", "locking"}]
        /\ ps_held' \in [ps_Threads -> 0..ps_lock_file]
        /\ ps_view' \in [ps_Threads -> Store!Tables]
        /\ ps_changed' \in [ps_Threads -> ps_Keys]
        /\ Locked' /\ LookedAt' /\ OutrunReaders'
        /\ ps_pc'[t] = "idle"
        /\ \A u \in ps_Threads \ {t} :
              /\ ps_pc'[u] = ps_pc[u] /\ ps_held'[u] = ps_held[u] /\ ps_view'[u] = ps_view[u]
              /\ ps_changed'[u] = ps_changed[u] /\ (u \in ps_outrun' => u \in ps_outrun)
    BY <1>0, UnlocksKeep
  <2>2. /\ k \in ps_Keys /\ ps_view[t] \in Store!Tables /\ ps_acked \in Store!Tables
        /\ ps_file \in ps_survivors /\ ps_survivors \subseteq Store!Tables
        /\ ps_lock_file \in Store!Inodes
    BY DEF StoreInv, StoreTypes
  <2>3. ps_view[t][k] \in Profiles
    BY <2>2, StoreAssumed
  <2>4. /\ ps_acked' \in Store!Tables /\ ps_acked'[k] = ps_view[t][k]
        /\ \A j \in ps_Keys : j # k => ps_acked'[j] = ps_acked[j]
    BY <1>0, <1>2, <2>2, <2>3, StoreAssumed
  <2>5. StoreTypes'
    BY <1>0, <1>2, <2>1, <2>2, <2>4 DEF StoreTypes
  <2>6. Built'
    <3> SUFFICES ASSUME ~ps_contested
                 PROVE  Built'
      BY <1>0 DEF Built
    <3>1. Builds(ps_file, ps_acked) /\ Kept(ps_file[k], ps_view[t][k])
      BY <1>0, <2>2 DEF StoreInv, Built
    <3>2. Builds(ps_file, ps_acked')
      BY <2>4, <3>1 DEF Builds
    <3>3. \A u \in ps_Threads \ {t} :
            /\ ps_pc[u] \in Reading /\ ps_held[u] = ps_lock_file =>
                  u \notin ps_outrun /\ Builds(ps_view[u], ps_file)
            /\ ps_pc[u] = "renamed" => Kept(ps_file[ps_changed[u]], ps_view[u][ps_changed[u]])
      BY DEF StoreInv, Built
    <3>4. ~(ps_pc'[t] \in Reading) /\ ps_pc'[t] # "renamed"
      BY <2>1 DEF Reading
    <3>5. \A table \in ps_survivors' : Builds(table, ps_acked')
      BY <1>0, <1>2, <3>2
    <3> QED
      BY <1>0, <2>1, <3>3, <3>4, <3>5 DEF Built, Builds
  <2> QED
    BY <2>1, <2>5, <2>6 DEF StoreInv
<1> QED
  BY <1>1, <1>2

\* The lock's file is replaced: whoever is about to rename has lost its lock.
LEMMA ReplaceLockStep ==
    ASSUME StoreInv, Store!ReplaceLock
    PROVE  StoreInv'
<1>0. /\ ps_lock_file <= ps_MaxReplacements /\ ps_lock_file' = ps_lock_file + 1
      /\ ps_usurped' = ps_usurped \cup {t \in ps_Threads : ps_pc[t] = "checked"}
      /\ UNCHANGED <<ps_file, ps_survivors, ps_holder, ps_pc, ps_held, ps_view, ps_changed,
                     ps_acked, ps_contested, ps_outrun>>
  BY DEF Store!ReplaceLock, Store!disk, Store!work
<1>1. ps_lock_file \in Nat /\ ps_lock_file' \in Store!Inodes
  BY <1>0, StoreAssumed DEF StoreInv, StoreTypes, Store!Inodes
<1>2. \A t \in ps_Threads : ps_held[t] \in 0..ps_lock_file' /\ ps_held[t] # ps_lock_file'
  BY <1>0, <1>1 DEF StoreInv, StoreTypes
<1>3. StoreTypes'
  <2>1. ps_held \in [ps_Threads -> 0..ps_lock_file']
    BY <1>2 DEF StoreInv, StoreTypes
  <2> QED
    BY <1>0, <1>1, <2>1 DEF StoreInv, StoreTypes
<1>4. Locked' /\ LookedAt' /\ OutrunReaders'
  BY <1>0 DEF StoreInv, Locked, LookedAt, OutrunReaders
<1>5. Built'
  BY <1>0, <1>2, BuiltKept
<1> QED
  BY <1>3, <1>4, <1>5 DEF StoreInv

\* Power is lost: everybody is gone, and what is found may be an older file.
LEMMA PowerStep ==
    ASSUME StoreInv, Store!LosePower
    PROVE  StoreInv'
<1>0. /\ ps_file' \in ps_survivors /\ ps_survivors' = {ps_file'} /\ Store!Unlocks(ps_Threads)
      /\ UNCHANGED <<ps_lock_file, ps_acked, ps_contested>>
  BY DEF Store!LosePower
<1>1. /\ ps_holder' \in [Store!Inodes -> ps_Threads \cup {ps_Nobody}]
      /\ ps_pc' \in [ps_Threads -> Guarded \cup {"idle", "locking"}]
      /\ ps_held' \in [ps_Threads -> 0..ps_lock_file]
      /\ ps_view' \in [ps_Threads -> Store!Tables]
      /\ ps_changed' \in [ps_Threads -> ps_Keys]
      /\ Locked' /\ LookedAt' /\ OutrunReaders'
      /\ \A t \in ps_Threads : ps_pc'[t] = "idle"
  BY <1>0, UnlocksKeep
<1>2. StoreTypes'
  BY <1>0, <1>1 DEF StoreInv, StoreTypes
<1>3. Built'
  BY <1>0, <1>1 DEF StoreInv, Built, Builds, Reading
<1> QED
  BY <1>1, <1>2, <1>3 DEF StoreInv

\* The invariant of the store holds throughout.
LEMMA StoreInvariant == Store!Spec => []StoreInv
<1>1. Store!Init => StoreInv
  <2> SUFFICES ASSUME Store!Init
               PROVE  StoreInv
    OBVIOUS
  <2>1. Store!Empty \in Store!Tables /\ 1 \in Store!Inodes
    BY StoreAssumed DEF Store!Empty, Store!Tables, Store!Inodes
  <2>2. StoreTypes
    BY <2>1, StoreAssumed DEF Store!Init, StoreTypes
  <2>3. \A t \in ps_Threads : ps_pc[t] = "idle"
    BY DEF Store!Init
  <2>4. Built
    BY <2>3 DEF Store!Init, Built, Builds, Kept, Store!Empty, Reading
  <2> QED
    BY <2>2, <2>3, <2>4 DEF Store!Init, StoreInv, Locked, LookedAt, OutrunReaders, Guarded, Reading
<1>2. StoreInv /\ [Store!Next]_(Store!vars) => StoreInv'
  <2> SUFFICES ASSUME StoreInv, [Store!Next]_(Store!vars)
               PROVE  StoreInv'
    OBVIOUS
  <2>1. CASE UNCHANGED Store!vars
    BY <2>1 DEF Store!vars, Store!disk, Store!locks, Store!work, Store!history, StoreInv, StoreTypes,
       Locked, LookedAt, OutrunReaders, Built, Builds
  <2>2. ASSUME NEW t \in ps_Threads, Store!Call(t)
        PROVE  StoreInv'
    <3>1. CASE Store!Fails(t)
      <4>1. Store!Unlocks({t}) /\ UNCHANGED <<ps_file, ps_survivors, ps_lock_file, ps_acked, ps_contested>>
        BY <3>1 DEF Store!Fails, Store!Returns, Store!disk
      <4> QED
        BY <4>1, GuardsDropped
    <3>2. CASE \E synced \in BOOLEAN : Store!Sync(t, synced)
      BY <3>2, SyncStep
    <3> QED
      BY <2>2, <3>1, <3>2, BeginStep, LockStep, LoadStep, ApplyStep, RecheckStep, RenameStep
      DEF Store!Call
  <2>3. ASSUME NEW r \in ps_Registries, Store!Crash(r)
        PROVE  StoreInv'
    <3>1. /\ Store!Unlocks({t \in ps_Threads : ps_object[t] = r})
          /\ UNCHANGED <<ps_file, ps_survivors, ps_lock_file, ps_acked, ps_contested>>
      BY <2>3 DEF Store!Crash, Store!disk
    <3> QED
      BY <3>1, GuardsDropped
  <2> QED
    BY <2>1, <2>2, <2>3, ReplaceLockStep, PowerStep DEF Store!Next
<1> QED
  BY <1>1, <1>2, PTL DEF Store!Spec

\* What a caller was told is there is there, or was built upon, through any number
\* of writers, registries, crashes and losses of power, while no one publishes
\* under a lock that was replaced (write_store_atomic, the revision an update names).
THEOREM AcknowledgedStays == Store!Spec => []AcknowledgedSurvives
<1>1. StoreInv => AcknowledgedSurvives
  BY DEF StoreInv, Built, Builds, Kept, AcknowledgedSurvives, Store!AcknowledgedSurvives
<1> QED
  BY <1>1, StoreInvariant, PTL

\* No writer publishes over a change it has not read, for any writers and any
\* replacements of the lock's file, except behind its last look (mutate).
THEOREM NothingIsOverwritten == Store!Spec => NoLostUpdate
<1>1. StoreInv => [part = "store" => Store!ReplacesWhatItRead]_ps
  BY DEF StoreInv, LookedAt, Built, Reading, Store!ReplacesWhatItRead
<1> QED
  BY <1>1, StoreInvariant, PTL DEF NoLostUpdate

-----------------------------------------------------------------------------
(* The scratch directories of sessions.                                    *)

Sessions == {"reserved", "live", "failed"}
Holding(t) == cs_pc[t] \in Sessions
Owning(t) == cs_pc[t] \in {"live", "failed"} /\ Scratch!Mine(t)

ScratchTypes ==
    /\ cs_lease \in cs_Processes \cup {Scratch!Nobody}
    /\ cs_active \in [cs_Processes -> SUBSET cs_Names]
    /\ cs_dirs \in [cs_Names -> {Scratch!Absent, Scratch!Orphan} \cup Scratch!Callers]
    /\ cs_pc \in [Scratch!Callers -> Sessions \cup {"idle", "recovering"}]
    /\ cs_name \in [Scratch!Callers -> cs_Names \cup {Scratch!NoName}]
    /\ cs_todo \in [Scratch!Callers -> SUBSET cs_Names]

\* Whoever is at work belongs to the process that holds the lease.
AtWork == \A t \in Scratch!Callers : cs_pc[t] # "idle" => cs_lease = cs_Threads[t]

\* A session has reserved its name, and no other has the same.
Reserved ==
    /\ \A t \in Scratch!Callers : Holding(t) => cs_name[t] \in cs_active[cs_Threads[t]]
    /\ \A t, u \in Scratch!Callers : Holding(t) /\ Holding(u) /\ cs_name[t] = cs_name[u] => t = u

\* What a recovery has still to remove is there, and belongs to no session.
Stale ==
    \A t \in Scratch!Callers : cs_pc[t] = "recovering" =>
        /\ t \in cs_Recoverers
        /\ \A n \in cs_todo[t] :
              /\ cs_dirs[n] # Scratch!Absent
              /\ \A u \in Scratch!Callers : Owning(u) => cs_name[u] # n

ScratchInv ==
    /\ ScratchTypes
    /\ AtWork
    /\ Reserved
    /\ Stale
    /\ Scratch!SessionsKeepTheirFiles

\* What is assumed of the threads.
LEMMA ThreadsAssumed ==
    /\ cs_Threads \in [Scratch!Callers -> cs_Processes]
    /\ Scratch!Nobody \notin cs_Processes
    /\ Scratch!Absent \notin Scratch!Callers /\ Scratch!Orphan \notin Scratch!Callers
    /\ \A t, u \in cs_Recoverers : cs_Threads[t] = cs_Threads[u] => t = u
    /\ cs_Recoverers \subseteq Scratch!Callers
BY ComponentAssumption DEF Scratch!ScratchAssumption, Scratch!OneRecoverer

\* A session's name is one.
LEMMA HeldName ==
    ASSUME ScratchInv, NEW t \in Scratch!Callers, Holding(t)
    PROVE  cs_name[t] \in cs_Names
BY ThreadsAssumed DEF ScratchInv, ScratchTypes, Reserved

\* Only one thread recovers at a time.
LEMMA OneRecovery ==
    ASSUME ScratchInv, NEW t \in Scratch!Callers, NEW u \in Scratch!Callers,
           cs_pc[t] = "recovering", cs_pc[u] = "recovering"
    PROVE  t = u
BY ThreadsAssumed DEF ScratchInv, Stale, AtWork

\* The lease is taken and given back while no thread is at work.
LEMMA LeaseStep ==
    ASSUME ScratchInv, NEW p \in cs_Processes, Scratch!Open(p) \/ Scratch!Close(p)
    PROVE  ScratchInv'
<1>1. \A t \in Scratch!Callers : cs_pc[t] = "idle"
  BY ThreadsAssumed DEF ScratchInv, AtWork, Scratch!Open, Scratch!Close, Scratch!MayLease
<1>2. /\ UNCHANGED <<cs_active, cs_dirs, cs_pc, cs_name, cs_todo>>
      /\ cs_lease' \in cs_Processes \cup {Scratch!Nobody}
  BY DEF Scratch!Open, Scratch!Close
<1> QED
  BY <1>1, <1>2 DEF ScratchInv, ScratchTypes, AtWork, Reserved, Stale, Holding, Owning, Sessions,
     Scratch!Mine, Scratch!SessionsKeepTheirFiles

\* A crash ends everything that was at work.
LEMMA ScratchCrashStep ==
    ASSUME ScratchInv, NEW p \in cs_Processes, Scratch!Crash(p)
    PROVE  ScratchInv'
<1>1. \A t \in Scratch!Callers : cs_pc'[t] = "idle"
  BY ThreadsAssumed DEF ScratchInv, ScratchTypes, AtWork, Scratch!Crash
<1>2. ScratchTypes'
  <2>1. cs_active' \in [cs_Processes -> SUBSET cs_Names]
    BY DEF ScratchInv, ScratchTypes, Scratch!Crash
  <2>2. cs_dirs' \in [cs_Names -> {Scratch!Absent, Scratch!Orphan} \cup Scratch!Callers]
    BY DEF ScratchInv, ScratchTypes, Scratch!Crash
  <2>3. /\ cs_pc' \in [Scratch!Callers -> Sessions \cup {"idle", "recovering"}]
        /\ cs_name' \in [Scratch!Callers -> cs_Names \cup {Scratch!NoName}]
        /\ cs_todo' \in [Scratch!Callers -> SUBSET cs_Names]
    BY DEF ScratchInv, ScratchTypes, Scratch!Crash
  <2> QED
    BY <2>1, <2>2, <2>3 DEF ScratchTypes, Scratch!Crash
<1> QED
  BY <1>1, <1>2 DEF ScratchInv, AtWork, Reserved, Stale, Holding, Owning, Sessions,
     Scratch!Mine, Scratch!SessionsKeepTheirFiles

\* start_session reserves a name.
LEMMA ReserveStep ==
    ASSUME ScratchInv, NEW t \in Scratch!Callers, NEW n \in cs_Names, Scratch!Reserve(t, n)
    PROVE  ScratchInv'
<1> DEFINE p == cs_Threads[t]
<1>0. /\ p \in cs_Processes /\ cs_pc[t] = "idle" /\ cs_lease = p /\ n \notin cs_active[p]
      /\ cs_active' = [cs_active EXCEPT ![p] = @ \cup {n}]
      /\ cs_name' = [cs_name EXCEPT ![t] = n]
      /\ cs_pc' = [cs_pc EXCEPT ![t] = "reserved"]
      /\ UNCHANGED <<cs_lease, cs_dirs, cs_todo>>
  BY ThreadsAssumed DEF Scratch!Reserve, Scratch!Goes
<1> HIDE DEF p
<1>1. ScratchTypes'
  BY <1>0 DEF ScratchInv, ScratchTypes, Sessions
<1>2. \A u \in Scratch!Callers :
        u # t => cs_pc'[u] = cs_pc[u] /\ cs_name'[u] = cs_name[u]
  BY <1>0 DEF ScratchInv, ScratchTypes
<1>3. cs_pc'[t] = "reserved" /\ cs_name'[t] = n
  BY <1>0 DEF ScratchInv, ScratchTypes
<1>4. AtWork'
  BY <1>0, <1>2, <1>3 DEF ScratchInv, AtWork, p
<1>5. Reserved'
  <2>1. \A q \in cs_Processes : cs_active[q] \subseteq cs_active'[q]
    BY <1>0 DEF ScratchInv, ScratchTypes
  <2>2. n \in cs_active'[p]
    BY <1>0 DEF ScratchInv, ScratchTypes
  <2>3. \A u \in Scratch!Callers : Holding(u) => cs_name[u] # n
    BY <1>0 DEF ScratchInv, Reserved, AtWork, Holding, Sessions
  <2> QED
    BY <1>2, <1>3, <2>1, <2>2, <2>3, ThreadsAssumed DEF ScratchInv, Reserved, Holding, p
<1>6. Stale' /\ Scratch!SessionsKeepTheirFiles'
  BY <1>0, <1>2, <1>3
  DEF ScratchInv, Stale, Owning, Scratch!Mine, Scratch!SessionsKeepTheirFiles
<1> QED
  BY <1>1, <1>4, <1>5, <1>6 DEF ScratchInv

\* A thread gives its reservation up.
LEMMA AbandonKeeps ==
    ASSUME ScratchInv, NEW t \in Scratch!Callers, Holding(t), Scratch!Abandons(t),
           UNCHANGED <<cs_lease, cs_todo>>
    PROVE  /\ AtWork' /\ Reserved'
           /\ cs_active' \in [cs_Processes -> SUBSET cs_Names]
           /\ cs_pc' \in [Scratch!Callers -> Sessions \cup {"idle", "recovering"}]
           /\ cs_name' \in [Scratch!Callers -> cs_Names \cup {Scratch!NoName}]
           /\ cs_pc'[t] = "idle"
           /\ \A u \in Scratch!Callers : u # t => cs_pc'[u] = cs_pc[u] /\ cs_name'[u] = cs_name[u]
<1> DEFINE p == cs_Threads[t]
<1>0. /\ p \in cs_Processes
      /\ cs_active' = [cs_active EXCEPT ![p] = @ \ {cs_name[t]}]
      /\ cs_name' = [cs_name EXCEPT ![t] = Scratch!NoName]
      /\ cs_pc' = [cs_pc EXCEPT ![t] = "idle"]
  BY ThreadsAssumed DEF Scratch!Abandons, Scratch!Deactivates, Scratch!Goes
<1> HIDE DEF p
<1>1. /\ cs_active' \in [cs_Processes -> SUBSET cs_Names]
      /\ cs_pc' \in [Scratch!Callers -> Sessions \cup {"idle", "recovering"}]
      /\ cs_name' \in [Scratch!Callers -> cs_Names \cup {Scratch!NoName}]
  BY <1>0 DEF ScratchInv, ScratchTypes
<1>2. /\ cs_pc'[t] = "idle"
      /\ \A u \in Scratch!Callers : u # t => cs_pc'[u] = cs_pc[u] /\ cs_name'[u] = cs_name[u]
  BY <1>0 DEF ScratchInv, ScratchTypes
<1>3. AtWork'
  BY <1>2 DEF ScratchInv, AtWork
<1>4. Reserved'
  <2>1. \A q \in cs_Processes : \A m \in cs_active[q] : m # cs_name[t] => m \in cs_active'[q]
    BY <1>0 DEF ScratchInv, ScratchTypes
  <2>2. ~Holding(t)'
    BY <1>2 DEF Holding, Sessions
  <2> QED
    BY <1>2, <2>1, <2>2, ThreadsAssumed DEF ScratchInv, Reserved, Holding
<1> QED
  BY <1>1, <1>2, <1>3, <1>4

\* start_session makes the directory, or gives up.
LEMMA CreateStep ==
    ASSUME ScratchInv, NEW t \in Scratch!Callers, Scratch!Create(t)
    PROVE  ScratchInv'
<1>0. cs_pc[t] = "reserved" /\ Holding(t) /\ cs_name[t] \in cs_Names /\ UNCHANGED <<cs_lease, cs_todo>>
  BY HeldName DEF Scratch!Create, Holding, Sessions
<1>1. CASE /\ Scratch!MayCreate(t)
           /\ cs_dirs' = [cs_dirs EXCEPT ![cs_name[t]] = t]
           /\ Scratch!Goes(t, "live")
           /\ UNCHANGED <<cs_active, cs_name>>
  <2>1. cs_dirs[cs_name[t]] = Scratch!Absent /\ cs_pc' = [cs_pc EXCEPT ![t] = "live"]
    BY <1>1 DEF Scratch!MayCreate, Scratch!Goes
  <2>2. ScratchTypes'
    BY <1>0, <1>1, <2>1 DEF ScratchInv, ScratchTypes, Sessions
  <2>3. /\ cs_pc'[t] = "live" /\ cs_dirs'[cs_name[t]] = t
        /\ \A u \in Scratch!Callers : u # t => cs_pc'[u] = cs_pc[u]
        /\ \A n \in cs_Names : n # cs_name[t] => cs_dirs'[n] = cs_dirs[n]
    BY <1>0, <1>1, <2>1 DEF ScratchInv, ScratchTypes
  <2>4. AtWork' /\ Reserved'
    BY <1>0, <1>1, <2>3 DEF ScratchInv, AtWork, Reserved, Holding, Sessions
  <2>5. \A u \in Scratch!Callers : Holding(u) /\ u # t => cs_name[u] \in cs_Names /\ cs_name[u] # cs_name[t]
    BY <1>0, HeldName DEF ScratchInv, Reserved
  <2>6. Stale'
    <3>1. \A u \in Scratch!Callers : u # t /\ Owning(u)' => Owning(u)
      BY <1>1, <2>3, <2>5 DEF Owning, Scratch!Mine, Holding, Sessions
    <3>2. \A u \in Scratch!Callers : cs_pc[u] = "recovering" => cs_name[t] \notin cs_todo[u]
      BY <2>1 DEF ScratchInv, Stale
    <3>3. \A u \in Scratch!Callers : cs_pc[u] = "recovering" => cs_todo[u] \subseteq cs_Names
      BY DEF ScratchInv, ScratchTypes
    <3> QED
      BY <1>0, <1>1, <2>3, <3>1, <3>2, <3>3 DEF ScratchInv, Stale
  <2>7. Scratch!SessionsKeepTheirFiles'
    BY <1>1, <2>3, <2>5 DEF ScratchInv, Scratch!SessionsKeepTheirFiles, Scratch!Mine, Holding, Sessions
  <2> QED
    BY <2>2, <2>4, <2>6, <2>7 DEF ScratchInv
<1>2. CASE /\ Scratch!Abandons(t)
           /\ \/ Scratch!MayCreate(t) /\ cs_dirs' = [cs_dirs EXCEPT ![cs_name[t]] = Scratch!Orphan]
              \/ UNCHANGED cs_dirs
  <2>1. /\ AtWork' /\ Reserved' /\ cs_pc'[t] = "idle"
        /\ cs_active' \in [cs_Processes -> SUBSET cs_Names]
        /\ cs_pc' \in [Scratch!Callers -> Sessions \cup {"idle", "recovering"}]
        /\ cs_name' \in [Scratch!Callers -> cs_Names \cup {Scratch!NoName}]
        /\ \A u \in Scratch!Callers : u # t => cs_pc'[u] = cs_pc[u] /\ cs_name'[u] = cs_name[u]
    BY <1>0, <1>2, AbandonKeeps
  <2>2. cs_dirs' \in [cs_Names -> {Scratch!Absent, Scratch!Orphan} \cup Scratch!Callers]
    BY <1>2 DEF ScratchInv, ScratchTypes
  <2>3. \A n \in cs_Names :
          \/ cs_dirs'[n] = cs_dirs[n]
          \/ cs_dirs[n] = Scratch!Absent /\ cs_dirs'[n] = Scratch!Orphan
    BY <1>0, <1>2 DEF ScratchInv, ScratchTypes, Scratch!MayCreate
  <2>4. Scratch!Absent # Scratch!Orphan
    BY DEF Scratch!Absent, Scratch!Orphan
  <2>5. \A u \in Scratch!Callers : Holding(u) => cs_name[u] \in cs_Names
    BY HeldName
  <2>6. Stale'
    <3>1. \A u \in Scratch!Callers : Owning(u)' => Owning(u) /\ u # t
      BY <2>1, <2>3, <2>5, ThreadsAssumed DEF Owning, Scratch!Mine, Holding, Sessions
    <3>2. \A u \in Scratch!Callers : cs_todo[u] \subseteq cs_Names
      BY DEF ScratchInv, ScratchTypes
    <3>3. \A u \in Scratch!Callers, n \in cs_Names :
              cs_dirs[n] # Scratch!Absent => cs_dirs'[n] # Scratch!Absent
      BY <2>3, <2>4
    <3> QED
      BY <1>0, <2>1, <3>1, <3>2, <3>3 DEF ScratchInv, Stale
  <2>7. Scratch!SessionsKeepTheirFiles'
    BY <2>1, <2>3, <2>5, ThreadsAssumed
    DEF ScratchInv, Scratch!SessionsKeepTheirFiles, Scratch!Mine, Holding, Sessions
  <2> QED
    BY <1>0, <2>1, <2>2, <2>6, <2>7 DEF ScratchInv, ScratchTypes
<1> QED
  BY <1>1, <1>2 DEF Scratch!Create

\* A session in its last steps: what it does to a directory it does to its own,
\* and only while that is its own.
LEMMA OwnDirectory ==
    ASSUME ScratchInv, NEW t \in Scratch!Callers, cs_pc[t] \in {"live", "failed"},
           NEW d \in {Scratch!Absent, Scratch!Orphan},
           \/ UNCHANGED cs_dirs
           \/ Scratch!Mine(t) /\ cs_dirs' = [cs_dirs EXCEPT ![cs_name[t]] = d],
           cs_pc'[t] \in {"idle", "failed"},
           \A u \in Scratch!Callers : u # t => cs_pc'[u] = cs_pc[u] /\ cs_name'[u] = cs_name[u],
           cs_pc'[t] = "failed" => cs_name'[t] = cs_name[t],
           UNCHANGED cs_todo
    PROVE  /\ cs_dirs' \in [cs_Names -> {Scratch!Absent, Scratch!Orphan} \cup Scratch!Callers]
           /\ Stale' /\ Scratch!SessionsKeepTheirFiles'
<1>1. Holding(t) /\ cs_name[t] \in cs_Names
  BY HeldName DEF Holding, Sessions
<1>2. cs_dirs' \in [cs_Names -> {Scratch!Absent, Scratch!Orphan} \cup Scratch!Callers]
  BY DEF ScratchInv, ScratchTypes
<1>3. \A n \in cs_Names : n # cs_name[t] => cs_dirs'[n] = cs_dirs[n]
  BY DEF ScratchInv, ScratchTypes
<1>4. cs_dirs'[cs_name[t]] = cs_dirs[cs_name[t]] \/ (Scratch!Mine(t) /\ cs_dirs'[cs_name[t]] # t)
  BY <1>1, ThreadsAssumed DEF ScratchInv, ScratchTypes
<1>5. \A u \in Scratch!Callers : Holding(u) /\ u # t => cs_name[u] \in cs_Names /\ cs_name[u] # cs_name[t]
  BY <1>1, HeldName DEF ScratchInv, Reserved
<1>6. \A u \in Scratch!Callers : Owning(u)' => Owning(u)
  <2>1. ASSUME NEW u \in Scratch!Callers, u # t, Owning(u)'
        PROVE  Owning(u)
    BY <1>3, <1>5, <2>1 DEF Owning, Scratch!Mine, Holding, Sessions
  <2>2. Owning(t)' => Owning(t)
    BY <1>4 DEF Owning, Scratch!Mine
  <2> QED
    BY <2>1, <2>2
<1>7. Stale'
  <2>1. ASSUME NEW u \in Scratch!Callers, cs_pc'[u] = "recovering", NEW n \in cs_todo[u]
        PROVE  cs_dirs'[n] # Scratch!Absent
    <3>1. u # t /\ cs_pc[u] = "recovering" /\ n \in cs_Names
      BY <2>1 DEF ScratchInv, ScratchTypes
    <3>2. cs_dirs[n] # Scratch!Absent /\ (Scratch!Mine(t) => n # cs_name[t])
      BY <2>1, <3>1 DEF ScratchInv, Stale, Owning
    <3>3. CASE n = cs_name[t]
      BY <3>2, <3>3, <1>4
    <3>4. CASE n # cs_name[t]
      BY <3>1, <3>2, <3>4, <1>3
    <3> QED
      BY <3>3, <3>4
  <2>2. ASSUME NEW u \in Scratch!Callers, cs_pc'[u] = "recovering"
        PROVE  u \in cs_Recoverers /\ cs_pc[u] = "recovering"
    BY <2>2 DEF ScratchInv, Stale
  <2>3. ASSUME NEW u \in Scratch!Callers, cs_pc'[u] = "recovering", NEW n \in cs_todo[u],
               NEW v \in Scratch!Callers, Owning(v)'
        PROVE  cs_name'[v] # n
    <3>1. cs_name'[v] = cs_name[v]
      BY <2>3 DEF Owning
    <3> QED
      BY <2>2, <2>3, <3>1, <1>6 DEF ScratchInv, Stale
  <2> QED
    BY <2>1, <2>2, <2>3 DEF Stale
<1>8. Scratch!SessionsKeepTheirFiles'
  BY <1>3, <1>5 DEF ScratchInv, Scratch!SessionsKeepTheirFiles, Scratch!Mine, Holding, Sessions
<1> QED
  BY <1>2, <1>7, <1>8

\* cleanup of a session.
LEMMA CleanupStep ==
    ASSUME ScratchInv, NEW t \in Scratch!Callers, Scratch!Cleanup(t)
    PROVE  ScratchInv'
<1>0. /\ cs_pc[t] \in {"live", "failed"} /\ Holding(t)
      /\ UNCHANGED <<cs_lease, cs_todo>>
      /\ \/ UNCHANGED cs_dirs
         \/ Scratch!Mine(t) /\ cs_dirs' = [cs_dirs EXCEPT ![cs_name[t]] = Scratch!Absent]
  BY DEF Scratch!Cleanup, Holding, Sessions
<1>1. CASE Scratch!Abandons(t)
  <2>1. /\ AtWork' /\ Reserved' /\ cs_pc'[t] = "idle"
        /\ cs_active' \in [cs_Processes -> SUBSET cs_Names]
        /\ cs_pc' \in [Scratch!Callers -> Sessions \cup {"idle", "recovering"}]
        /\ cs_name' \in [Scratch!Callers -> cs_Names \cup {Scratch!NoName}]
        /\ \A u \in Scratch!Callers : u # t => cs_pc'[u] = cs_pc[u] /\ cs_name'[u] = cs_name[u]
    BY <1>0, <1>1, AbandonKeeps
  <2>2. /\ cs_dirs' \in [cs_Names -> {Scratch!Absent, Scratch!Orphan} \cup Scratch!Callers]
        /\ Stale' /\ Scratch!SessionsKeepTheirFiles'
    BY <1>0, <2>1, OwnDirectory
  <2> QED
    BY <1>0, <2>1, <2>2 DEF ScratchInv, ScratchTypes
<1>2. CASE Scratch!Goes(t, "failed") /\ UNCHANGED <<cs_active, cs_name>>
  <2>1. /\ cs_pc'[t] = "failed"
        /\ \A u \in Scratch!Callers : u # t => cs_pc'[u] = cs_pc[u]
        /\ cs_pc' \in [Scratch!Callers -> Sessions \cup {"idle", "recovering"}]
    BY <1>2 DEF ScratchInv, ScratchTypes, Scratch!Goes, Sessions
  <2>2. /\ cs_dirs' \in [cs_Names -> {Scratch!Absent, Scratch!Orphan} \cup Scratch!Callers]
        /\ Stale' /\ Scratch!SessionsKeepTheirFiles'
    BY <1>0, <1>2, <2>1, OwnDirectory
  <2>3. AtWork' /\ Reserved'
    BY <1>0, <1>2, <2>1 DEF ScratchInv, AtWork, Reserved, Holding, Sessions
  <2> QED
    BY <1>0, <1>2, <2>1, <2>2, <2>3 DEF ScratchInv, ScratchTypes
<1> QED
  BY <1>1, <1>2 DEF Scratch!Cleanup

\* Drop of a session whose cleanup has failed.
LEMMA DropFailedStep ==
    ASSUME ScratchInv, NEW t \in Scratch!Callers, Scratch!DropFailed(t)
    PROVE  ScratchInv'
<1>0. /\ cs_pc[t] = "failed" /\ Holding(t) /\ Scratch!Abandons(t)
      /\ UNCHANGED <<cs_lease, cs_todo>>
      /\ \/ UNCHANGED cs_dirs
         \/ Scratch!Mine(t) /\ cs_dirs' = [cs_dirs EXCEPT ![cs_name[t]] = Scratch!Orphan]
  BY DEF Scratch!DropFailed, Holding, Sessions
<1>1. /\ AtWork' /\ Reserved' /\ cs_pc'[t] = "idle"
      /\ cs_active' \in [cs_Processes -> SUBSET cs_Names]
      /\ cs_pc' \in [Scratch!Callers -> Sessions \cup {"idle", "recovering"}]
      /\ cs_name' \in [Scratch!Callers -> cs_Names \cup {Scratch!NoName}]
      /\ \A u \in Scratch!Callers : u # t => cs_pc'[u] = cs_pc[u] /\ cs_name'[u] = cs_name[u]
  BY <1>0, AbandonKeeps
<1>2. /\ cs_dirs' \in [cs_Names -> {Scratch!Absent, Scratch!Orphan} \cup Scratch!Callers]
      /\ Stale' /\ Scratch!SessionsKeepTheirFiles'
  BY <1>0, <1>1, OwnDirectory
<1> QED
  BY <1>0, <1>1, <1>2 DEF ScratchInv, ScratchTypes

\* A recovery lists what is there, while its process has no session; no other
\* process has one either, for it would hold the lease.
LEMMA ListStep ==
    ASSUME ScratchInv, NEW t \in Scratch!Callers, Scratch!List(t)
    PROVE  ScratchInv'
<1> DEFINE p == cs_Threads[t]
<1>0. /\ t \in cs_Recoverers /\ cs_pc[t] = "idle" /\ cs_lease = p /\ cs_active[p] = {}
      /\ cs_todo' = [cs_todo EXCEPT ![t] = Scratch!Present]
      /\ cs_pc' = [cs_pc EXCEPT ![t] = "recovering"]
      /\ UNCHANGED <<cs_lease, cs_active, cs_dirs, cs_name>>
  BY DEF Scratch!List, Scratch!MayRecover, Scratch!NoneActive, Scratch!Goes
<1> HIDE DEF p
<1>1. \A u \in Scratch!Callers : ~Holding(u)
  <2>1. \A u \in Scratch!Callers : Holding(u) => cs_Threads[u] = p
    BY <1>0 DEF ScratchInv, AtWork, Holding, Sessions
  <2> QED
    BY <1>0, <2>1 DEF ScratchInv, Reserved
<1>2. /\ cs_pc'[t] = "recovering" /\ cs_todo'[t] = Scratch!Present
      /\ \A u \in Scratch!Callers : u # t => cs_pc'[u] = cs_pc[u] /\ cs_todo'[u] = cs_todo[u]
  BY <1>0 DEF ScratchInv, ScratchTypes
<1>3. ScratchTypes'
  <2>1. Scratch!Present \subseteq cs_Names
    BY DEF Scratch!Present
  <2>2. cs_todo' \in [Scratch!Callers -> SUBSET cs_Names]
    BY <1>0, <2>1 DEF ScratchInv, ScratchTypes
  <2>3. cs_pc' \in [Scratch!Callers -> Sessions \cup {"idle", "recovering"}]
    BY <1>0 DEF ScratchInv, ScratchTypes
  <2> QED
    BY <1>0, <2>2, <2>3 DEF ScratchInv, ScratchTypes
<1>4. AtWork'
  BY <1>0, <1>2 DEF ScratchInv, AtWork, p
<1>5. \A u \in Scratch!Callers : ~Holding(u)'
  BY <1>1, <1>2 DEF Holding, Sessions
<1>6. Reserved' /\ Scratch!SessionsKeepTheirFiles'
  BY <1>5 DEF Reserved, Holding, Sessions, Scratch!SessionsKeepTheirFiles
<1>7. Stale'
  <2>1. \A n \in Scratch!Present : cs_dirs'[n] # Scratch!Absent
    BY <1>0 DEF Scratch!Present
  <2>2. \A u \in Scratch!Callers : ~Owning(u)'
    BY <1>5 DEF Owning, Holding, Sessions
  <2> QED
    BY <1>0, <1>2, <2>1, <2>2 DEF ScratchInv, Stale
<1> QED
  BY <1>3, <1>4, <1>6, <1>7 DEF ScratchInv

\* A recovery removes a directory that it has listed, of which no session owns
\* one; and no other recovery has listed it too.
LEMMA RemoveStep ==
    ASSUME ScratchInv, NEW t \in Scratch!Callers, NEW n \in cs_Names, Scratch!Remove(t, n)
    PROVE  ScratchInv'
<1>0. /\ cs_pc[t] = "recovering" /\ n \in cs_todo[t]
      /\ cs_dirs' = [cs_dirs EXCEPT ![n] = Scratch!Absent]
      /\ cs_todo' = [cs_todo EXCEPT ![t] = @ \ {n}]
      /\ UNCHANGED <<cs_lease, cs_active, cs_pc, cs_name>>
  BY DEF Scratch!Remove
<1>1. ScratchTypes'
  BY <1>0 DEF ScratchInv, ScratchTypes
<1>2. AtWork' /\ Reserved'
  BY <1>0 DEF ScratchInv, AtWork, Reserved, Holding
<1>3. \A m \in cs_Names : m # n => cs_dirs'[m] = cs_dirs[m]
  BY <1>0 DEF ScratchInv, ScratchTypes
<1>4. cs_todo'[t] = cs_todo[t] \ {n}
  BY <1>0 DEF ScratchInv, ScratchTypes
<1>5. cs_dirs'[n] = Scratch!Absent
  BY <1>0 DEF ScratchInv, ScratchTypes
<1>6. \A u \in Scratch!Callers : Owning(u) => cs_name[u] # n
  BY <1>0 DEF ScratchInv, Stale
<1>7. \A u \in Scratch!Callers : Holding(u) => cs_name[u] \in cs_Names
  BY HeldName
<1>8. Stale'
  <2>1. \A u \in Scratch!Callers : cs_pc[u] = "recovering" => u = t
    BY <1>0, OneRecovery
  <2>2. \A u \in Scratch!Callers : Owning(u)' => Owning(u)
    BY <1>0, <1>3, <1>5, <1>7, ThreadsAssumed DEF Owning, Scratch!Mine, Holding, Sessions
  <2>3. cs_todo[t] \subseteq cs_Names
    BY DEF ScratchInv, ScratchTypes
  <2> QED
    BY <1>0, <1>3, <1>4, <2>1, <2>2, <2>3 DEF ScratchInv, Stale
<1>9. Scratch!SessionsKeepTheirFiles'
  BY <1>0, <1>3, <1>6, <1>7
  DEF ScratchInv, Scratch!SessionsKeepTheirFiles, Owning, Scratch!Mine, Holding, Sessions
<1> QED
  BY <1>1, <1>2, <1>8, <1>9 DEF ScratchInv

\* The end of a recovery.
LEMMA RecoveryEndsStep ==
    ASSUME ScratchInv, NEW t \in Scratch!Callers, Scratch!RecoveryEnds(t)
    PROVE  ScratchInv'
<1>0. /\ cs_pc[t] = "recovering"
      /\ cs_todo' = [cs_todo EXCEPT ![t] = {}]
      /\ cs_pc' = [cs_pc EXCEPT ![t] = "idle"]
      /\ UNCHANGED <<cs_lease, cs_active, cs_dirs, cs_name>>
  BY DEF Scratch!RecoveryEnds, Scratch!Goes
<1>1. ScratchTypes'
  BY <1>0 DEF ScratchInv, ScratchTypes, Sessions
<1>2. /\ cs_pc'[t] = "idle"
      /\ \A u \in Scratch!Callers : u # t => cs_pc'[u] = cs_pc[u] /\ cs_todo'[u] = cs_todo[u]
  BY <1>0 DEF ScratchInv, ScratchTypes
<1>3. \A u \in Scratch!Callers : (Holding(u)' => Holding(u)) /\ (Owning(u)' => Owning(u))
  BY <1>0, <1>2 DEF Holding, Owning, Scratch!Mine, Sessions
<1>4. AtWork' /\ Reserved'
  BY <1>0, <1>2, <1>3 DEF ScratchInv, AtWork, Reserved
<1>5. Stale'
  BY <1>0, <1>2, <1>3 DEF ScratchInv, Stale
<1>6. Scratch!SessionsKeepTheirFiles'
  BY <1>0, <1>2 DEF ScratchInv, Scratch!SessionsKeepTheirFiles, Scratch!Mine
<1> QED
  BY <1>1, <1>4, <1>5, <1>6 DEF ScratchInv

\* Until its owner asks for cleanup, a session has the directory that it made, for
\* any number of processes, threads and names, with one thread of a process that
\* recovers (start_session, cleanup, Drop, recover_stale_sessions).
THEOREM SessionsKeep == Scratch!Spec => []SessionsKeepTheirFiles
<1>1. Scratch!Init => ScratchInv
  <2> SUFFICES ASSUME Scratch!Init
               PROVE  ScratchInv
    OBVIOUS
  <2>1. ScratchTypes
    BY DEF Scratch!Init, ScratchTypes, Sessions
  <2>2. \A t \in Scratch!Callers : cs_pc[t] = "idle"
    BY DEF Scratch!Init
  <2> QED
    BY <2>1, <2>2
    DEF ScratchInv, AtWork, Reserved, Stale, Holding, Sessions, Scratch!SessionsKeepTheirFiles
<1>2. ScratchInv /\ [Scratch!Next]_(Scratch!vars) => ScratchInv'
  <2> SUFFICES ASSUME ScratchInv, [Scratch!Next]_(Scratch!vars)
               PROVE  ScratchInv'
    OBVIOUS
  <2>1. CASE UNCHANGED Scratch!vars
    BY <2>1 DEF Scratch!vars, ScratchInv, ScratchTypes, AtWork, Reserved, Stale, Holding, Owning,
       Scratch!Mine, Scratch!SessionsKeepTheirFiles
  <2>2. ASSUME NEW p \in cs_Processes, Scratch!Open(p) \/ Scratch!Close(p) \/ Scratch!Crash(p)
        PROVE  ScratchInv'
    BY <2>2, LeaseStep, ScratchCrashStep
  <2>3. ASSUME NEW t \in Scratch!Callers, NEW n \in cs_Names,
               Scratch!Reserve(t, n) \/ Scratch!Remove(t, n)
        PROVE  ScratchInv'
    BY <2>3, ReserveStep, RemoveStep
  <2>4. ASSUME NEW t \in Scratch!Callers,
               \/ Scratch!Create(t) \/ Scratch!Cleanup(t) \/ Scratch!DropFailed(t)
               \/ Scratch!List(t) \/ Scratch!RecoveryEnds(t)
        PROVE  ScratchInv'
    BY <2>4, CreateStep, CleanupStep, DropFailedStep, ListStep, RecoveryEndsStep
  <2> QED
    BY <2>1, <2>2, <2>3, <2>4 DEF Scratch!Next
<1>3. ScratchInv => SessionsKeepTheirFiles
  BY DEF ScratchInv, SessionsKeepTheirFiles
<1> QED
  BY <1>1, <1>2, <1>3, PTL DEF Scratch!Spec

-----------------------------------------------------------------------------
(* The channel on which a jail reports a refusal.                          *)

Unreported == {"parsing", "ceiling", "closing", "reporting"}

\* The first byte is the shim's, and a command runs only behind a dispatch.
StatusInv ==
    /\ je_channel \in Seq({Status!Refused, Status!Dispatching})
    /\ je_shim \in Unreported \cup {"executing", "ended"}
    /\ je_shim \in Unreported => je_channel = <<>>
    /\ je_shim = "executing" => je_channel = <<Status!Dispatching>>
    /\ je_ran => je_shim = "ended" /\ je_channel # <<>> /\ Head(je_channel) = Status!Dispatching
    /\ je_command => je_ran
    /\ je_runner # "waiting" => je_shim = "ended" /\ ~je_command
    /\ je_runner = "not_dispatched" => ~je_ran

\* What is written goes behind what was written before.
LEMMA AppendKeepsHead ==
    ASSUME NEW S, NEW s \in Seq(S), NEW x \in S
    PROVE  /\ Append(s, x) \in Seq(S) /\ Append(s, x) # <<>>
           /\ s # <<>> => Head(Append(s, x)) = Head(s)
           /\ s = <<>> => Append(s, x) = <<x>>
<1>1. Append(s, x) \in Seq(S) /\ Len(Append(s, x)) = Len(s) + 1 /\ Len(s) \in Nat
  OBVIOUS
<1>2. Append(s, x) # <<>>
  BY <1>1
<1>3. s # <<>> => Head(Append(s, x)) = Head(s)
  OBVIOUS
<1>4. s = <<>> => Append(s, x) = <<x>>
  OBVIOUS
<1> QED
  BY <1>1, <1>2, <1>3, <1>4

\* The shim's steps, up to the exec.
LEMMA ShimStep ==
    ASSUME StatusInv, Status!Shim
    PROVE  StatusInv'
<1> DEFINE Byte == {Status!Refused, Status!Dispatching}
<1>0. /\ je_channel \in Seq(Byte)
      /\ \A b \in Byte :
            /\ Append(je_channel, b) \in Seq(Byte)
            /\ je_channel = <<>> => Append(je_channel, b) = <<b>>
  BY AppendKeepsHead, Zenon DEF StatusInv
<1>1. CASE Status!Parse
  BY <1>1 DEF StatusInv, Unreported, Status!Parse
<1>2. CASE Status!ApplyCeiling \/ Status!CloseDescriptors
  <2>1. /\ je_shim \in {"ceiling", "closing"}
        /\ \/ je_shim' \in {"closing", "reporting"} /\ UNCHANGED je_channel
           \/ je_shim' = "ended" /\ (je_channel' = Append(je_channel, Status!Refused) \/ UNCHANGED je_channel)
        /\ UNCHANGED <<je_ran, je_command, je_runner>>
    BY <1>2 DEF Status!ApplyCeiling, Status!CloseDescriptors, Status!Advance, Status!Refuse, Status!Reports
  <2>2. je_channel' \in Seq(Byte)
    BY <1>0, <2>1
  <2> QED
    BY <2>1, <2>2 DEF StatusInv, Unreported
<1>3. CASE Status!ReportDispatch
  <2>1. je_channel' \in Seq(Byte)
    BY <1>0, <1>3 DEF Status!ReportDispatch, Status!Refuse, Status!Reports
  <2>2. je_shim' = "executing" => je_channel' = <<Status!Dispatching>>
    BY <1>0, <1>3 DEF Status!ReportDispatch, Status!Refuse, Status!Reports, StatusInv, Unreported
  <2>3. /\ je_shim = "reporting" /\ je_shim' \in {"executing", "ended"}
        /\ UNCHANGED <<je_ran, je_command, je_runner>>
    BY <1>3 DEF Status!ReportDispatch, Status!Refuse
  <2> QED
    BY <2>1, <2>2, <2>3 DEF StatusInv, Unreported
<1>4. CASE Status!Exec
  <2>0. /\ je_shim = "executing" /\ je_channel = <<Status!Dispatching>>
        /\ je_channel # <<>> /\ Head(je_channel) = Status!Dispatching
    BY <1>4 DEF Status!Exec, StatusInv
  <2>1. je_channel' \in Seq(Byte)
    BY <1>0, <1>4 DEF Status!Exec, Status!Refuse, Status!Reports
  <2>2. /\ je_shim' = "ended" /\ UNCHANGED je_runner
        /\ \/ je_ran' /\ je_command' /\ UNCHANGED je_channel
           \/ UNCHANGED <<je_ran, je_command>>
    BY <1>4 DEF Status!Exec, Status!Refuse
  <2>3. ~je_ran /\ ~je_command /\ je_runner = "waiting"
    BY <2>0 DEF StatusInv
  <2> QED
    BY <2>0, <2>1, <2>2, <2>3 DEF StatusInv, Unreported
<1> QED
  BY <1>1, <1>2, <1>3, <1>4 DEF Status!Shim

\* The steps of the command, of the jail's init and of the runner.
LEMMA RunnerStep ==
    ASSUME StatusInv,
           \/ \E byte \in {Status!Refused, Status!Dispatching} : Status!Forge(byte)
           \/ Status!InitCloses \/ Status!CommandEnds \/ Status!Kill \/ Status!Conclude
    PROVE  StatusInv'
<1> USE DEF Status!Refused, Status!Dispatching
<1>1. CASE \E byte \in {Status!Refused, Status!Dispatching} : Status!Forge(byte)
  <2>1. PICK byte \in {Status!Refused, Status!Dispatching} : Status!Forge(byte)
    BY <1>1
  <2>2. /\ je_channel' # <<>> /\ Head(je_channel') = Head(je_channel)
        /\ je_channel' \in Seq({Status!Refused, Status!Dispatching})
    <3>1. je_channel # <<>> /\ je_channel' = Append(je_channel, byte)
      BY <2>1 DEF StatusInv, Status!Forge, Status!Reports
    <3>2. je_channel \in Seq({Status!Refused, Status!Dispatching})
      BY DEF StatusInv
    <3> QED
      BY <3>1, <3>2, AppendKeepsHead, Zenon
  <2> QED
    BY <2>1, <2>2 DEF StatusInv, Unreported, Status!Forge
<1>2. CASE Status!InitCloses \/ Status!CommandEnds \/ Status!Kill
  BY <1>2 DEF StatusInv, Unreported, Status!InitCloses, Status!CommandEnds, Status!Kill
<1>3. CASE Status!Conclude
  BY <1>3 DEF StatusInv, Unreported, Status!Conclude, Status!ReportRefused
<1> QED
  BY <1>1, <1>2, <1>3

\* A jail that reports a refusal ran nothing, for every number of bytes that the
\* command may forge.
LEMMA RefusalIsTrue == Status!Spec => []Status!RefusalMeansNothingRan
<1>1. Status!Init => StatusInv
  BY DEF Status!Init, StatusInv, Unreported
<1>2. StatusInv /\ [Status!Next]_Status!vars => StatusInv'
  <2>1. CASE UNCHANGED Status!vars
    BY <2>1 DEF StatusInv, Status!vars
  <2> QED
    BY <2>1, ShimStep, RunnerStep DEF Status!Next
<1>3. StatusInv => Status!RefusalMeansNothingRan
  BY DEF StatusInv, Status!RefusalMeansNothingRan
<1> QED
  BY <1>1, <1>2, <1>3, PTL DEF Status!Spec

-----------------------------------------------------------------------------
(* The relay of a brokered jail.                                           *)

Peers == [sent : Nat, eof : BOOLEAN, hup : BOOLEAN]
Pipes == [read : Nat, written : Nat, closed : BOOLEAN, shut : BOOLEAN]

RelayTypes ==
    /\ ef_child \in {"running", "exited"}
    /\ ef_pc \in {"loop", "pump", "sweep", "drain", "exited"}
    /\ ef_conn \in [ef_Clients -> {"absent", "queued", "connecting", "relaying", "closed"}]
    /\ ef_peer \in [ef_Clients -> [Forwarder!Sides -> Peers]]
    /\ ef_pipe \in [ef_Clients -> [Forwarder!Sides -> Pipes]]
    /\ ef_gone \in [ef_Clients -> SUBSET Forwarder!Sides]

\* A pipe is never ahead of its source, sees its end behind all its bytes, and
\* passes that on behind them.
Flows(p, source) ==
    /\ p.written <= p.read /\ p.read <= source.sent
    /\ p.closed => source.eof /\ p.read = source.sent
    /\ p.shut => p.closed /\ p.read = p.written

Flowing == \A c \in ef_Clients, s \in Forwarder!Sides : Flows(ef_pipe[c][s], ef_peer[c][s])

\* A side that was seen to have hung up has.
HungUp == \A c \in ef_Clients : \A s \in ef_gone[c] : ef_peer[c][s].hup

\* What the command had sent is delivered before a relay is dropped, and what the
\* broker had sent while the command ran.
Dropped ==
    \A c \in ef_Clients \ ef_failed :
        ef_conn[c] = "closed" =>
            /\ Forwarder!Delivered(c, "client")
            /\ ef_child = "running" => Forwarder!Delivered(c, "upstream")

Stages ==
    /\ ef_pc \in {"sweep", "drain", "exited"} => ef_child = "exited"
    /\ ef_pc = "exited" /\ ~ef_overdue =>
          \A c \in ef_Clients : ef_conn[c] \notin {"connecting", "relaying"}

RelayInv == RelayTypes /\ Flowing /\ HungUp /\ Dropped /\ Stages

\* The two sides of a relay face each other.
LEMMA OtherSide == Forwarder!Other("client") = "upstream" /\ Forwarder!Other("upstream") = "client"
<1>1. \A o \in Forwarder!Sides : o # "client" <=> o = "upstream"
  BY DEF Forwarder!Sides
<1>2. \A o \in Forwarder!Sides : o # "upstream" <=> o = "client"
  BY DEF Forwarder!Sides
<1>3. (CHOOSE o \in Forwarder!Sides : o # "client") = "upstream"
  BY <1>1 DEF Forwarder!Sides
<1>4. (CHOOSE o \in Forwarder!Sides : o # "upstream") = "client"
  BY <1>2 DEF Forwarder!Sides
<1> QED
  BY <1>3, <1>4 DEF Forwarder!Other

\* A side of a connection that is not closed sends, or ends.
LEMMA PeerStep ==
    ASSUME RelayInv, NEW c \in ef_Clients, NEW s \in Forwarder!Sides,
           Forwarder!Send(c, s) \/ \E hup \in BOOLEAN : Forwarder!Shut(c, s, hup)
    PROVE  RelayInv'
<1>0. UNCHANGED <<ef_child, ef_pc, ef_overdue, ef_conn, ef_pipe, ef_gone, ef_failed>>
  BY DEF Forwarder!Send, Forwarder!Shut, Forwarder!Forwarder
<1>1. ef_conn[c] # "closed"
  BY DEF Forwarder!Send, Forwarder!Shut, Forwarder!Present
<1>2. /\ \A d \in ef_Clients : d # c => ef_peer'[d] = ef_peer[d]
      /\ \A r \in Forwarder!Sides : r # s => ef_peer'[c][r] = ef_peer[c][r]
      /\ ef_peer' \in [ef_Clients -> [Forwarder!Sides -> Peers]]
      /\ ef_peer[c][s].hup => ef_peer'[c][s].hup
      /\ \/ ~ef_peer[c][s].eof /\ ef_peer'[c][s].sent = ef_peer[c][s].sent + 1
         \/ ef_peer'[c][s].eof /\ ef_peer'[c][s].sent = ef_peer[c][s].sent
  <2>0. /\ ef_peer \in [ef_Clients -> [Forwarder!Sides -> Peers]]
        /\ ef_peer[c] \in [Forwarder!Sides -> Peers] /\ ef_peer[c][s] \in Peers
    BY DEF RelayInv, RelayTypes
  <2>1. PICK q \in Peers :
          /\ ef_peer' = [ef_peer EXCEPT ![c] = [ef_peer[c] EXCEPT ![s] = q]]
          /\ ef_peer[c][s].hup => q.hup
          /\ \/ ~ef_peer[c][s].eof /\ q.sent = ef_peer[c][s].sent + 1
             \/ q.eof /\ q.sent = ef_peer[c][s].sent
    <3>1. CASE Forwarder!Send(c, s)
      <4> DEFINE q == [ef_peer[c][s] EXCEPT !.sent = @ + 1]
      <4>1. q \in Peers /\ q.sent = ef_peer[c][s].sent + 1 /\ q.hup = ef_peer[c][s].hup
        BY <2>0 DEF Peers
      <4>2. ef_peer' = [ef_peer EXCEPT ![c] = [ef_peer[c] EXCEPT ![s] = q]] /\ ~ef_peer[c][s].eof
        BY <2>0, <3>1 DEF Forwarder!Send
      <4> QED
        BY <4>1, <4>2
    <3>2. CASE \E hup \in BOOLEAN : Forwarder!Shut(c, s, hup)
      <4>1. PICK hup \in BOOLEAN : Forwarder!Shut(c, s, hup)
        BY <3>2
      <4> DEFINE q == [ef_peer[c][s] EXCEPT !.eof = TRUE, !.hup = hup]
      <4>2. q \in Peers /\ q.sent = ef_peer[c][s].sent /\ q.eof
        BY <2>0, <4>1 DEF Peers
      <4> DEFINE once == [ef_peer EXCEPT ![c][s].eof = TRUE]
      <4>3. ~ef_peer[c][s].hup /\ ef_peer' = [once EXCEPT ![c][s].hup = hup]
        BY <4>1 DEF Forwarder!Shut
      <4>4. once = [ef_peer EXCEPT ![c] = [ef_peer[c] EXCEPT ![s] = [ef_peer[c][s] EXCEPT !.eof = TRUE]]]
        BY <2>0
      <4>5. /\ once \in [ef_Clients -> [Forwarder!Sides -> Peers]]
            /\ once[c] = [ef_peer[c] EXCEPT ![s] = [ef_peer[c][s] EXCEPT !.eof = TRUE]]
            /\ once[c][s] = [ef_peer[c][s] EXCEPT !.eof = TRUE]
        <5>1. [ef_peer[c][s] EXCEPT !.eof = TRUE] \in Peers
          BY <2>0 DEF Peers
        <5> HIDE DEF once
        <5> QED
          BY <2>0, <4>4, <5>1
      <4> HIDE DEF once
      <4>6. ef_peer' = [once EXCEPT ![c] = [once[c] EXCEPT ![s] = [once[c][s] EXCEPT !.hup = hup]]]
        BY <4>3, <4>5
      <4>7. ef_peer' = [ef_peer EXCEPT ![c] = [ef_peer[c] EXCEPT ![s] = q]]
        <5>1. [once[c][s] EXCEPT !.hup = hup] = q
          BY <4>5
        <5>2. [once[c] EXCEPT ![s] = q] = [ef_peer[c] EXCEPT ![s] = q]
          BY <2>0, <4>5
        <5>3. [once EXCEPT ![c] = [once[c] EXCEPT ![s] = q]] = [ef_peer EXCEPT ![c] = [once[c] EXCEPT ![s] = q]]
          BY <2>0, <4>4, <4>5
        <5> QED
          BY <4>6, <5>1, <5>2, <5>3
      <4> QED
        BY <4>2, <4>3, <4>7
    <3> QED
      BY <3>1, <3>2
  <2>2. ef_peer'[c] = [ef_peer[c] EXCEPT ![s] = q] /\ ef_peer'[c][s] = q
    BY <2>0, <2>1
  <2>3. ef_peer'[c] \in [Forwarder!Sides -> Peers]
    BY <2>0, <2>2
  <2> QED
    BY <2>0, <2>1, <2>2, <2>3
<1>3. RelayTypes'
  BY <1>0, <1>2 DEF RelayInv, RelayTypes
<1>4. Flowing'
  <2>1. Flows(ef_pipe[c][s], ef_peer'[c][s])
    <3>1. ef_pipe[c][s] \in Pipes /\ ef_peer[c][s] \in Peers /\ Flows(ef_pipe[c][s], ef_peer[c][s])
      BY DEF RelayInv, RelayTypes, Flowing
    <3> QED
      BY <1>2, <3>1 DEF Flows, Pipes, Peers
  <2> QED
    BY <1>0, <1>2, <2>1 DEF RelayInv, Flowing
<1>5. HungUp'
  BY <1>0, <1>2 DEF RelayInv, RelayTypes, HungUp
<1>6. Dropped'
  BY <1>0, <1>1, <1>2 DEF RelayInv, Dropped, Forwarder!Delivered
<1>7. Stages'
  BY <1>0 DEF RelayInv, Stages
<1> QED
  BY <1>3, <1>4, <1>5, <1>6, <1>7 DEF RelayInv

\* A pump keeps its pipe flowing.
LEMMA PumpedFlows ==
    ASSUME NEW p \in Pipes, NEW source \in Peers, Flows(p, source),
           NEW q \in Forwarder!Pumped(p, source)
    PROVE  q \in Pipes /\ Flows(q, source)
<1>1. PICK m \in [read : p.read..(IF p.closed THEN p.read ELSE source.sent),
                  written : p.written..source.sent, closed : BOOLEAN, shut : {p.shut}] :
        /\ m.written <= m.read
        /\ p.closed => m.closed
        /\ m.closed => p.closed \/ (source.eof /\ m.read = source.sent)
        /\ q = [m EXCEPT !.shut = p.shut \/ Forwarder!Shuts(m)]
  BY DEF Forwarder!Pumped
<1>2. /\ p.read \in Nat /\ p.written \in Nat /\ source.sent \in Nat
      /\ p.closed \in BOOLEAN /\ p.shut \in BOOLEAN
      /\ p.written <= p.read /\ p.read <= source.sent
      /\ p.closed => source.eof /\ p.read = source.sent
      /\ p.shut => p.closed /\ p.read = p.written
  BY DEF Pipes, Peers, Flows
<1>3. /\ m.read \in Nat /\ m.written \in Nat /\ m.closed \in BOOLEAN
      /\ m.read <= source.sent /\ p.written <= m.written /\ m.written <= m.read
      /\ p.closed => m.read = p.read
  BY <1>1, <1>2
<1>4. /\ q.read = m.read /\ q.written = m.written /\ q.closed = m.closed
      /\ q.shut = (p.shut \/ Forwarder!Shuts(m))
      /\ q = [read |-> m.read, written |-> m.written, closed |-> m.closed,
              shut |-> p.shut \/ Forwarder!Shuts(m)]
  BY <1>1
<1>5. q \in Pipes
  BY <1>3, <1>4 DEF Pipes, Forwarder!Shuts, Forwarder!ShutsWhenEmpty
<1>6. q.closed => source.eof /\ q.read = source.sent
  BY <1>1, <1>2, <1>3, <1>4
<1>7. q.shut => q.closed /\ q.read = q.written
  BY <1>1, <1>2, <1>3, <1>4 DEF Forwarder!Shuts, Forwarder!ShutsWhenEmpty
<1> QED
  BY <1>3, <1>4, <1>5, <1>6, <1>7 DEF Flows

\* What follows only from what was pumped, sent and seen is left alone by a step
\* that changes none of these.
LEMMA FlowKept ==
    ASSUME RelayInv, UNCHANGED <<ef_peer, ef_pipe, ef_gone>>
    PROVE  Flowing' /\ HungUp'
BY DEF RelayInv, Flowing, HungUp

\* A connection begins, the command exits, or the forwarder goes on.
LEMMA TurnStep ==
    ASSUME RelayInv,
           \/ \E c \in ef_Clients : Forwarder!Connect(c)
           \/ Forwarder!ChildExits \/ Forwarder!TryWait \/ Forwarder!SweepEnds \/ Forwarder!DrainExpires
    PROVE  RelayInv'
<1>0. Flowing' /\ HungUp' /\ UNCHANGED <<ef_peer, ef_pipe, ef_gone, ef_failed>>
  BY FlowKept DEF Forwarder!Connect, Forwarder!ChildExits, Forwarder!TryWait, Forwarder!SweepEnds,
     Forwarder!DrainExpires, Forwarder!Forwarder
<1>1. CASE \E c \in ef_Clients : Forwarder!Connect(c)
  <2>1. PICK c \in ef_Clients : Forwarder!Connect(c)
    BY <1>1
  <2>2. /\ ef_conn' = [ef_conn EXCEPT ![c] = "queued"] /\ ef_pc # "exited"
        /\ UNCHANGED <<ef_child, ef_pc, ef_overdue>>
    BY <2>1 DEF Forwarder!Connect, Forwarder!Forwarder
  <2>3. \A d \in ef_Clients : ef_conn'[d] = "closed" => ef_conn[d] = "closed"
    BY <2>2 DEF RelayInv, RelayTypes
  <2> QED
    BY <1>0, <2>2, <2>3 DEF RelayInv, RelayTypes, Dropped, Stages, Forwarder!Delivered
<1>2. CASE Forwarder!ChildExits
  BY <1>0, <1>2 DEF RelayInv, RelayTypes, Dropped, Stages, Forwarder!Delivered, Forwarder!ChildExits,
     Forwarder!Forwarder
<1>3. CASE Forwarder!TryWait \/ Forwarder!SweepEnds
  BY <1>0, <1>3 DEF RelayInv, RelayTypes, Dropped, Stages, Forwarder!Delivered, Forwarder!TryWait,
     Forwarder!SweepEnds
<1>4. CASE Forwarder!DrainExpires
  BY <1>0, <1>4 DEF RelayInv, RelayTypes, Dropped, Stages, Forwarder!Delivered, Forwarder!DrainExpires
<1> QED
  BY <1>1, <1>2, <1>3, <1>4

\* Bytes move, or a write finds the other side gone.
LEMMA MovesStep ==
    ASSUME RelayInv, NEW c \in ef_Clients, NEW s \in Forwarder!Sides, Forwarder!Moves(c, s)
    PROVE  RelayInv'
<1>0. /\ ef_conn[c] = "relaying"
      /\ UNCHANGED <<ef_child, ef_pc, ef_overdue, ef_conn, ef_peer, ef_failed>>
      /\ ef_pipe[c] \in [Forwarder!Sides -> Pipes] /\ ef_pipe[c][s] \in Pipes
      /\ ef_peer[c][s] \in Peers /\ Flows(ef_pipe[c][s], ef_peer[c][s])
  BY DEF Forwarder!Moves, RelayInv, RelayTypes, Flowing
<1>1. CASE \E p \in Forwarder!Pumped(ef_pipe[c][s], ef_peer[c][s]) : ef_pipe' = [ef_pipe EXCEPT ![c][s] = p] /\ UNCHANGED ef_gone
  <2>1. PICK p \in Forwarder!Pumped(ef_pipe[c][s], ef_peer[c][s]) :
          ef_pipe' = [ef_pipe EXCEPT ![c][s] = p] /\ UNCHANGED ef_gone
    BY <1>1
  <2>2. p \in Pipes /\ Flows(p, ef_peer[c][s])
    BY <1>0, <2>1, PumpedFlows
  <2>3. /\ ef_pipe' \in [ef_Clients -> [Forwarder!Sides -> Pipes]] /\ ef_pipe'[c][s] = p
        /\ \A r \in Forwarder!Sides : r # s => ef_pipe'[c][r] = ef_pipe[c][r]
        /\ \A d \in ef_Clients : d # c => ef_pipe'[d] = ef_pipe[d]
    <3>1. ef_pipe' = [ef_pipe EXCEPT ![c] = [ef_pipe[c] EXCEPT ![s] = p]]
      BY <1>0, <2>1
    <3>2. ef_pipe'[c] = [ef_pipe[c] EXCEPT ![s] = p]
      BY <3>1 DEF RelayInv, RelayTypes
    <3>3. [ef_pipe[c] EXCEPT ![s] = p] \in [Forwarder!Sides -> Pipes]
      BY <1>0, <2>2
    <3> QED
      BY <1>0, <3>1, <3>2, <3>3 DEF RelayInv, RelayTypes
  <2>4. RelayTypes' /\ Flowing' /\ HungUp' /\ Stages'
    BY <1>0, <2>1, <2>2, <2>3 DEF RelayInv, RelayTypes, Flowing, HungUp, Stages
  <2>5. Dropped'
    BY <1>0, <2>3 DEF RelayInv, Dropped, Forwarder!Delivered
  <2> QED
    BY <2>4, <2>5 DEF RelayInv
<1>2. CASE /\ ef_peer[c][Forwarder!Other(s)].hup
           /\ ef_gone' = [ef_gone EXCEPT ![c] = @ \cup {Forwarder!Other(s)}]
           /\ UNCHANGED ef_pipe
  <2>1. Forwarder!Other(s) \in Forwarder!Sides
    BY OtherSide DEF Forwarder!Sides
  <2>2. /\ ef_gone' \in [ef_Clients -> SUBSET Forwarder!Sides]
        /\ ef_gone'[c] = ef_gone[c] \cup {Forwarder!Other(s)}
        /\ \A d \in ef_Clients : d # c => ef_gone'[d] = ef_gone[d]
    BY <1>2, <2>1 DEF RelayInv, RelayTypes
  <2> QED
    BY <1>0, <1>2, <2>2 DEF RelayInv, RelayTypes, Flowing, HungUp, Dropped, Stages, Forwarder!Delivered
<1> QED
  BY <1>1, <1>2 DEF Forwarder!Moves

\* A hang-up is seen, or a connection to the broker is made or fails.
LEMMA RelayObserveStep ==
    ASSUME RelayInv, NEW c \in ef_Clients, Forwarder!Observe(c)
    PROVE  RelayInv'
<1>0. UNCHANGED <<ef_child, ef_pc, ef_overdue, ef_peer, ef_pipe>> /\ ef_pc # "exited"
  BY DEF Forwarder!Observe
<1>1. CASE /\ \E s \in Forwarder!Sides : /\ ef_peer[c][s].hup
                                         /\ ef_gone' = [ef_gone EXCEPT ![c] = @ \cup {s}]
           /\ UNCHANGED <<ef_conn, ef_failed>>
  <2>1. PICK s \in Forwarder!Sides :
          ef_peer[c][s].hup /\ ef_gone' = [ef_gone EXCEPT ![c] = @ \cup {s}]
    BY <1>1
  <2>2. /\ ef_gone' \in [ef_Clients -> SUBSET Forwarder!Sides]
        /\ ef_gone'[c] = ef_gone[c] \cup {s}
        /\ \A d \in ef_Clients : d # c => ef_gone'[d] = ef_gone[d]
    BY <2>1 DEF RelayInv, RelayTypes
  <2> QED
    BY <1>0, <1>1, <2>1, <2>2
    DEF RelayInv, RelayTypes, Flowing, HungUp, Dropped, Stages, Forwarder!Delivered
<1>2. CASE /\ ef_conn' = [ef_conn EXCEPT ![c] = "relaying"] \/ UNCHANGED ef_conn
           /\ ef_failed \subseteq ef_failed' /\ UNCHANGED ef_gone
  <2>1. \A d \in ef_Clients : ef_conn'[d] = "closed" => ef_conn[d] = "closed"
    BY <1>2 DEF RelayInv, RelayTypes
  <2>2. ef_conn' \in [ef_Clients -> {"absent", "queued", "connecting", "relaying", "closed"}]
    BY <1>2 DEF RelayInv, RelayTypes
  <2>3. Flowing' /\ HungUp'
    BY <1>0, <1>2, FlowKept
  <2> QED
    BY <1>0, <1>2, <2>1, <2>2, <2>3 DEF RelayInv, RelayTypes, Dropped, Stages, Forwarder!Delivered
<1> QED
  BY <1>1, <1>2 DEF Forwarder!Observe

\* A connection is accepted, or is closed for want of a broker.
LEMMA AcceptStep ==
    ASSUME RelayInv, NEW c \in ef_Clients, ef_pc \in {"pump", "sweep"},
           Forwarder!Accept(c), UNCHANGED ef_pc
    PROVE  RelayInv'
<1>0. UNCHANGED <<ef_child, ef_overdue, ef_peer, ef_pipe, ef_gone>>
  BY DEF Forwarder!Accept
<1>1. Flowing' /\ HungUp'
  BY <1>0, FlowKept
<1>2. PICK state \in {"connecting", "relaying", "closed"} :
        /\ ef_conn' = [ef_conn EXCEPT ![c] = state]
        /\ ef_failed' = IF state = "closed" THEN ef_failed \cup {c} ELSE ef_failed
  BY DEF Forwarder!Accept
<1>3. /\ ef_conn' \in [ef_Clients -> {"absent", "queued", "connecting", "relaying", "closed"}]
      /\ ef_conn'[c] = state /\ \A d \in ef_Clients : d # c => ef_conn'[d] = ef_conn[d]
  BY <1>2 DEF RelayInv, RelayTypes
<1>4. Dropped'
  BY <1>0, <1>2, <1>3 DEF RelayInv, Dropped, Forwarder!Delivered
<1> QED
  BY <1>0, <1>1, <1>3, <1>4 DEF RelayInv, RelayTypes, Stages

\* Settled outbound: everything the command sent has reached the broker, or the
\* broker has gone; and the same the other way round.
LEMMA SettledDelivers ==
    ASSUME RelayInv, NEW c \in ef_Clients \ ef_failed
    PROVE  /\ Forwarder!OutboundSettled(c) => Forwarder!Delivered(c, "client")
           /\ Forwarder!Finished(c) => Forwarder!Delivered(c, "client") /\ Forwarder!Delivered(c, "upstream")
<1>1. "client" \in Forwarder!Sides /\ "upstream" \in Forwarder!Sides
  BY DEF Forwarder!Sides
<1>2. \A s \in Forwarder!Sides : Forwarder!Drained(ef_pipe[c][s]) => ef_pipe[c][s].written = ef_peer[c][s].sent
  BY DEF RelayInv, Flowing, Flows, Forwarder!Drained
<1>3. \A s \in ef_gone[c] : ef_peer[c][s].hup
  BY DEF RelayInv, HungUp
<1> QED
  BY <1>1, <1>2, <1>3, OtherSide DEF Forwarder!OutboundSettled, Forwarder!Finished, Forwarder!Delivered

\* Relays that are done with are dropped: while the command runs when both ways
\* are, afterwards when what the command sent is.
LEMMA DropsStep ==
    ASSUME RelayInv, Forwarder!Retain \/ Forwarder!DrainDrops
    PROVE  RelayInv'
<1>0. UNCHANGED <<ef_child, ef_overdue, ef_peer, ef_pipe, ef_gone, ef_failed>>
  BY DEF Forwarder!Retain, Forwarder!DrainDrops
<1>1. Flowing' /\ HungUp'
  BY <1>0, FlowKept
<1>2. PICK done \in SUBSET Forwarder!Open :
        /\ Forwarder!Drops(done)
        /\ \/ /\ Forwarder!Retain /\ ef_pc' = "loop" /\ \A c \in done : Forwarder!Finished(c)
           \/ /\ Forwarder!DrainDrops /\ ef_pc = "drain" /\ \A c \in done : Forwarder!OutboundSettled(c)
              /\ ef_pc' = IF ef_overdue \/ \A c \in Forwarder!Open : Forwarder!OutboundSettled(c)
                          THEN "exited" ELSE "drain"
              /\ \A c \in Forwarder!Open : Forwarder!OutboundSettled(c) => c \in done
  <2>1. CASE Forwarder!Retain
    BY <2>1 DEF Forwarder!Retain
  <2>2. CASE Forwarder!DrainDrops
    <3> DEFINE done == {c \in Forwarder!Open : Forwarder!OutboundSettled(c)}
    <3>1. Forwarder!Drops(done) /\ ef_pc = "drain"
      BY <2>2 DEF Forwarder!DrainDrops
    <3>2. ef_pc' = IF ef_overdue \/ \A c \in Forwarder!Open : Forwarder!OutboundSettled(c)
                   THEN "exited" ELSE "drain"
      BY <2>2 DEF Forwarder!DrainDrops
    <3> QED
      BY <2>2, <3>1, <3>2
  <2> QED
    BY <2>1, <2>2
<1>3. /\ \A c \in ef_Clients : ef_conn'[c] = IF c \in done THEN "closed" ELSE ef_conn[c]
      /\ ef_conn' \in [ef_Clients -> {"absent", "queued", "connecting", "relaying", "closed"}]
  BY <1>2 DEF RelayInv, RelayTypes, Forwarder!Drops
<1>4. ASSUME NEW c \in ef_Clients \ ef_failed, c \in done
      PROVE  /\ Forwarder!Delivered(c, "client")
             /\ ef_child = "running" => Forwarder!Delivered(c, "upstream")
  BY <1>2, <1>4, SettledDelivers DEF RelayInv, Stages
<1>5. Dropped'
  <2>1. \A c \in ef_Clients, s \in Forwarder!Sides : Forwarder!Delivered(c, s)' <=> Forwarder!Delivered(c, s)
    BY <1>0 DEF Forwarder!Delivered
  <2>2. "client" \in Forwarder!Sides /\ "upstream" \in Forwarder!Sides
    BY DEF Forwarder!Sides
  <2> QED
    BY <1>0, <1>3, <1>4, <2>1, <2>2 DEF RelayInv, Dropped
<1>6. Stages'
  <2>1. CASE Forwarder!Retain
    BY <1>0, <1>2, <2>1 DEF RelayInv, Stages, Forwarder!Retain, Forwarder!DrainDrops
  <2>2. CASE ~Forwarder!Retain
    <3>1. ef_child' = "exited"
      BY <1>0, <1>2, <2>2 DEF RelayInv, Stages
    <3>2. ef_pc' = "exited" /\ ~ef_overdue => \A c \in Forwarder!Open : c \in done
      BY <1>2, <2>2
    <3>3. \A c \in ef_Clients : c \in Forwarder!Open <=> ef_conn[c] \in {"connecting", "relaying"}
      BY DEF Forwarder!Open
    <3> QED
      BY <1>0, <1>3, <3>1, <3>2, <3>3 DEF Stages
  <2> QED
    BY <2>1, <2>2
<1>7. RelayTypes'
  BY <1>0, <1>2, <1>3 DEF RelayInv, RelayTypes
<1> QED
  BY <1>1, <1>5, <1>6, <1>7 DEF RelayInv

\* The relay loses nothing, for any connections, bytes, buffer and capacity.
LEMMA RelayKeepsAll == Forwarder!Spec => []Forwarder!RelayLosesNothing
<1>1. Forwarder!Init => RelayInv
  <2> SUFFICES ASSUME Forwarder!Init
               PROVE  RelayInv
    OBVIOUS
  <2>1. RelayTypes
    BY DEF Forwarder!Init, Forwarder!Fresh, RelayTypes, Peers, Pipes
  <2>2. Flowing
    BY DEF Forwarder!Init, Forwarder!Fresh, Flowing, Flows
  <2> QED
    BY <2>1, <2>2 DEF Forwarder!Init, RelayInv, HungUp, Dropped, Stages
<1>2. RelayInv /\ [Forwarder!Next]_(Forwarder!vars) => RelayInv'
  <2> SUFFICES ASSUME RelayInv, [Forwarder!Next]_(Forwarder!vars)
               PROVE  RelayInv'
    OBVIOUS
  <2>1. CASE UNCHANGED Forwarder!vars
    BY <2>1 DEF Forwarder!vars, RelayInv, RelayTypes, Flowing, HungUp, Dropped, Stages, Forwarder!Delivered
  <2>2. ASSUME NEW c \in ef_Clients,
               \/ Forwarder!Observe(c) \/ Forwarder!Pump(c) \/ Forwarder!SweepAccepts(c)
               \/ Forwarder!DrainMoves(c)
        PROVE  RelayInv'
    <3>1. CASE Forwarder!Observe(c)
      BY <3>1, RelayObserveStep
    <3>2. CASE Forwarder!SweepAccepts(c)
      BY <3>2, AcceptStep DEF Forwarder!SweepAccepts
    <3>3. CASE Forwarder!DrainMoves(c)
      BY <3>3, MovesStep DEF Forwarder!DrainMoves, Forwarder!Sides
    <3>4. CASE Forwarder!Pump(c)
      BY <3>4, AcceptStep, MovesStep DEF Forwarder!Pump
    <3> QED
      BY <2>2, <3>1, <3>2, <3>3, <3>4
  <2>3. ASSUME NEW c \in ef_Clients, NEW s \in Forwarder!Sides,
               Forwarder!Send(c, s) \/ \E hup \in BOOLEAN : Forwarder!Shut(c, s, hup)
        PROVE  RelayInv'
    BY <2>3, PeerStep
  <2>4. CASE \/ \E c \in ef_Clients : Forwarder!Connect(c)
             \/ Forwarder!ChildExits \/ Forwarder!TryWait \/ Forwarder!SweepEnds \/ Forwarder!DrainExpires
    BY <2>4, TurnStep
  <2>5. CASE Forwarder!Retain \/ Forwarder!DrainDrops
    BY <2>5, DropsStep
  <2> QED
    BY <2>1, <2>2, <2>3, <2>4, <2>5 DEF Forwarder!Next
<1>3. RelayInv => Forwarder!RelayLosesNothing
  <2> SUFFICES ASSUME RelayInv
               PROVE  Forwarder!RelayLosesNothing
    OBVIOUS
  <2>1. Forwarder!EndComesLast
    BY DEF RelayInv, Flowing, Flows, Forwarder!EndComesLast
  <2>2. \A c \in ef_Clients : ef_conn[c] \in {"absent", "queued", "connecting", "relaying", "closed"}
    BY DEF RelayInv, RelayTypes
  <2> QED
    BY <2>1, <2>2 DEF RelayInv, Dropped, Stages, Forwarder!RelayLosesNothing
<1> QED
  BY <1>1, <1>2, <1>3, PTL DEF Forwarder!Spec

\* The channels of a jail tell the truth, for every relay and every shim, however
\* many bytes the command may forge on the channel of the latter (pump,
\* drain_outbound, JailExecStatus).
THEOREM ChannelsAreTrue == Forwarder!Spec /\ Status!Spec => []ChannelsTellTheTruth
<1>1. Forwarder!RelayLosesNothing /\ Status!RefusalMeansNothingRan => ChannelsTellTheTruth
  BY DEF ChannelsTellTheTruth
<1> QED
  BY <1>1, RelayKeepsAll, RefusalIsTrue, PTL

-----------------------------------------------------------------------------
(* The executable that is bound, copied and launched.                      *)

Blocks == 1..Authority!Blocks
Settled == {"bind", "execute", "snapshot", "copy", "handle", "opening", "spawn", "launched"}
Identified == Settled \cup {"open", "digest"}
Identities == [inode : Authority!Files, change : Nat]

AuthorityTypes ==
    /\ ea_content \in [Authority!Files -> [Blocks -> ea_Bytes]]
    /\ ea_changed \in [Authority!Files -> Nat]
    /\ ea_name \in [Authority!Paths -> Authority!Files]
    /\ ea_link \in Authority!Paths
    /\ ea_contents \in [Authority!Files -> SUBSET [Blocks -> ea_Bytes]]
    /\ ea_pc \in Identified \cup {"resolve", "refused"}
    /\ ea_pc \in Identified => ea_path \in Authority!Paths /\ ea_identity \in Identities
    /\ ea_digest \in Seq(ea_Bytes)

Now == ea_content[ea_identity.inode]
Since == ea_changed[ea_identity.inode] - ea_identity.change

\* What was read is what the file holds, as long as its change time has not moved.
ReadSoFar ==
    ea_pc = "digest" /\ Since = 0 =>
        \A k \in 1..Len(ea_digest) : k \in Blocks /\ ea_digest[k] = Now[k]

AuthorityInv ==
    /\ AuthorityTypes
    /\ \A f \in Authority!Files : ea_content[f] \in ea_contents[f]
    /\ ea_pc \in Identified => Since >= 0
    /\ ea_pc \in {"resolve", "open"} => ea_digest = <<>>
    /\ ReadSoFar
    /\ ea_pc \in Settled =>
          ea_digest \in ea_contents[ea_identity.inode] /\ ea_expected \in {Authority!None, ea_digest}
    /\ ea_pc \in {"handle", "opening", "spawn", "launched"} => ea_copy = ea_digest
    /\ ea_pc \in {"spawn", "launched"} /\ ea_BirthTimes => ea_handle = ea_bound[Len(ea_Laid)]

\* What is assumed of the files.
LEMMA FilesAssumed ==
    /\ Authority!Blocks \in Nat
    /\ ea_Installed \in [Authority!Files -> [Blocks -> ea_Bytes]]
    /\ ea_Named \in [Authority!Paths -> Authority!Files] /\ ea_Entry \in Authority!Paths
<1> USE DEF Authority!Files, Authority!Paths
<1>1. /\ ea_Named \in [Authority!Paths -> Authority!Files] /\ ea_Entry \in Authority!Paths
      /\ ea_Installed \in [Authority!Files -> Seq(ea_Bytes)]
      /\ \A f, g \in Authority!Files : Len(ea_Installed[f]) = Len(ea_Installed[g])
  BY ComponentAssumption DEF Authority!AuthorityAssumption
<1>2. Authority!Blocks \in Nat
  BY <1>1 DEF Authority!Blocks
<1>3. \A f \in Authority!Files : Len(ea_Installed[f]) = Authority!Blocks
  BY <1>1 DEF Authority!Blocks
<1>4. \A f \in Authority!Files : ea_Installed[f] \in [Blocks -> ea_Bytes]
  BY <1>1, <1>3 DEF Blocks
<1> QED
  BY <1>1, <1>2, <1>4

\* An installer writes a block: the change time of the file moves.
LEMMA WriteStep ==
    ASSUME AuthorityInv, NEW f \in Authority!Files, NEW block \in Blocks, NEW byte \in ea_Bytes,
           Authority!Write(f, block, byte)
    PROVE  AuthorityInv'
<1>0. /\ ea_content' = [ea_content EXCEPT ![f][block] = byte]
      /\ ea_changed' = [ea_changed EXCEPT ![f] = @ + 1]
      /\ ea_contents' = [ea_contents EXCEPT ![f] = @ \cup {ea_content'[f]}]
      /\ UNCHANGED <<ea_name, ea_link, ea_chain, ea_born, ea_pc, ea_expected, ea_path,
                     ea_identity, ea_bound, ea_digest, ea_copy, ea_handle>>
  BY DEF Authority!Write, Authority!Call, Authority!authority
<1>1. ea_content' \in [Authority!Files -> [Blocks -> ea_Bytes]]
  BY <1>0 DEF AuthorityInv, AuthorityTypes
<1>2. ea_changed' \in [Authority!Files -> Nat]
  BY <1>0 DEF AuthorityInv, AuthorityTypes
<1>3. ea_contents' \in [Authority!Files -> SUBSET [Blocks -> ea_Bytes]]
  BY <1>0, <1>1 DEF AuthorityInv, AuthorityTypes
<1>4. AuthorityTypes'
  BY <1>0, <1>1, <1>2, <1>3 DEF AuthorityInv, AuthorityTypes
<1>5. /\ ea_changed'[f] = ea_changed[f] + 1
      /\ \A g \in Authority!Files : g # f =>
            ea_changed'[g] = ea_changed[g] /\ ea_content'[g] = ea_content[g]
      /\ \A g \in Authority!Files : ea_contents[g] \subseteq ea_contents'[g]
      /\ ea_content'[f] \in ea_contents'[f]
  BY <1>0 DEF AuthorityInv, AuthorityTypes
<1>6. \A g \in Authority!Files : ea_content'[g] \in ea_contents'[g]
  BY <1>5 DEF AuthorityInv
<1>7. ea_pc \in Identified =>
        /\ ea_identity.inode \in Authority!Files /\ ea_identity.change \in Nat
        /\ ea_changed[ea_identity.inode] \in Nat
  BY DEF AuthorityInv, AuthorityTypes, Identities
<1>8. ea_pc \in Identified => Since' >= 0 /\ (Since' = 0 => Since = 0 /\ Now' = Now)
  BY <1>0, <1>5, <1>7 DEF AuthorityInv, Since, Now
<1>9. ReadSoFar'
  BY <1>0, <1>8 DEF AuthorityInv, ReadSoFar, Identified
<1>10. ea_pc' \in Settled =>
        ea_digest' \in ea_contents'[ea_identity'.inode] /\ ea_expected' \in {Authority!None, ea_digest'}
  BY <1>0, <1>5, <1>7 DEF AuthorityInv, Identified
<1> QED
  BY <1>0, <1>4, <1>6, <1>8, <1>9, <1>10 DEF AuthorityInv

\* A path is given another file, the entry of PATH another path, or a directory
\* another.
LEMMA NamingStep ==
    ASSUME AuthorityInv,
           \/ \E p \in Authority!Paths : Authority!Retarget(p) \/ \E f \in Authority!Files : Authority!Rename(p, f)
           \/ \E l \in Authority!Levels, d \in ea_Directories : Authority!Remake(l, d)
    PROVE  AuthorityInv'
<1>1. /\ UNCHANGED <<ea_content, ea_changed, ea_contents, ea_pc, ea_expected, ea_path,
                     ea_identity, ea_bound, ea_digest, ea_copy, ea_handle>>
      /\ ea_link' \in Authority!Paths
      /\ ea_name' \in [Authority!Paths -> Authority!Files]
  <2>1. CASE \E l \in Authority!Levels, d \in ea_Directories : Authority!Remake(l, d)
    BY <2>1 DEF Authority!Remake, Authority!Call, Authority!authority, AuthorityInv, AuthorityTypes
  <2>2. CASE \E p \in Authority!Paths : Authority!Retarget(p)
    BY <2>2 DEF Authority!Retarget, Authority!Call, Authority!authority, AuthorityInv, AuthorityTypes
  <2>3. CASE \E p \in Authority!Paths : \E f \in Authority!Files : Authority!Rename(p, f)
    BY <2>3 DEF Authority!Rename, Authority!Call, Authority!authority, AuthorityInv, AuthorityTypes
  <2> QED
    BY <2>1, <2>2, <2>3
<1> QED
  BY <1>1 DEF AuthorityInv, AuthorityTypes, ReadSoFar, Since, Now

\* A refusal ends the call.
LEMMA RefusalStep ==
    ASSUME AuthorityInv, Authority!Refuses, UNCHANGED Authority!system
    PROVE  AuthorityInv'
BY DEF AuthorityInv, AuthorityTypes, ReadSoFar, Settled, Identified, Authority!Refuses,
   Authority!system, Authority!authority

\* The executable is found and opened.
LEMMA FindStep ==
    ASSUME AuthorityInv, Authority!Resolve \/ Authority!Open
    PROVE  AuthorityInv'
<1>1. CASE Authority!Resolve /\ ea_pc' # "refused"
  <2>1. /\ ea_pc = "resolve" /\ ea_pc' = "open"
        /\ ea_path' = ea_link /\ ea_identity' = Authority!FileIdentity(ea_name[ea_link])
        /\ UNCHANGED <<ea_expected, ea_bound, ea_digest, ea_copy, ea_content, ea_changed, ea_contents,
                       ea_name, ea_link>>
    BY <1>1 DEF Authority!Resolve, Authority!Refuses, Authority!Goes, Authority!system
  <2>2. PICK f \in Authority!Files : ea_name[ea_link] = f
    BY DEF AuthorityInv, AuthorityTypes
  <2>3. /\ ea_identity' \in Identities /\ ea_identity'.inode = f /\ ea_identity'.change = ea_changed[f]
        /\ ea_changed[f] \in Nat
    BY <2>1, <2>2 DEF AuthorityInv, AuthorityTypes, Identities, Authority!FileIdentity
  <2>4. Since' = 0
    BY <2>1, <2>3 DEF Since
  <2> QED
    BY <2>1, <2>3, <2>4 DEF AuthorityInv, AuthorityTypes, Identified, Settled, ReadSoFar
<1>2. CASE Authority!Open /\ ea_pc' # "refused"
  <2>1. /\ ea_pc = "open" /\ ea_pc' = "digest"
        /\ UNCHANGED <<Authority!system, Authority!authority, ea_digest, ea_copy, ea_handle>>
    BY <1>2 DEF Authority!Open, Authority!Refuses, Authority!Goes
  <2>2. ReadSoFar'
    BY <2>1 DEF AuthorityInv, ReadSoFar
  <2> QED
    BY <2>1, <2>2
    DEF AuthorityInv, AuthorityTypes, Identified, Settled, Since, Authority!system, Authority!authority
<1>3. CASE ea_pc' = "refused"
  <2>1. Authority!Refuses /\ UNCHANGED Authority!system
    BY <1>3 DEF Authority!Resolve, Authority!Open, Authority!Goes
  <2> QED
    BY <2>1, RefusalStep
<1> QED
  BY <1>1, <1>2, <1>3

\* A block more is read from the open file.
LEMMA DigestStep ==
    ASSUME AuthorityInv, Authority!Digest
    PROVE  AuthorityInv'
<1> DEFINE n == Len(ea_digest)
           b == Now[n + 1]
<1>1. /\ ea_pc = "digest" /\ n < Authority!Blocks /\ ea_digest' = Append(ea_digest, b)
      /\ UNCHANGED <<ea_content, ea_changed, ea_name, ea_link, ea_contents, ea_pc, ea_expected,
                     ea_path, ea_identity, ea_bound, ea_copy, ea_handle>>
  BY DEF Authority!Digest, Authority!Read, Authority!system, Authority!authority, Now
<1>2. ea_digest \in Seq(ea_Bytes) /\ n \in Nat /\ Authority!Blocks \in Nat /\ n + 1 \in Blocks
  BY <1>1, FilesAssumed DEF AuthorityInv, AuthorityTypes, Blocks
<1>3. Now \in [Blocks -> ea_Bytes]
  BY <1>1 DEF AuthorityInv, AuthorityTypes, Identified, Identities, Now
<1>4. b \in ea_Bytes
  BY <1>2, <1>3
<1> HIDE DEF b
<1>5. /\ ea_digest' \in Seq(ea_Bytes) /\ Len(ea_digest') = n + 1
      /\ ea_digest'[n + 1] = b
      /\ \A k \in 1..n : ea_digest'[k] = ea_digest[k]
  BY <1>1, <1>2, <1>4
<1>6. Now' = Now /\ Since' = Since
  BY <1>1 DEF Now, Since
<1>7. ReadSoFar'
  <2> SUFFICES ASSUME Since = 0, NEW k \in 1..Len(ea_digest')
               PROVE  k \in Blocks /\ ea_digest'[k] = Now[k]
    BY <1>6 DEF ReadSoFar
  <2>1. CASE k = n + 1
    BY <1>2, <1>5, <2>1 DEF b
  <2>2. CASE k # n + 1
    <3>1. k \in 1..n
      BY <1>2, <1>5, <2>2
    <3> QED
      BY <1>1, <1>5, <3>1 DEF AuthorityInv, ReadSoFar
  <2> QED
    BY <2>1, <2>2
<1> QED
  BY <1>1, <1>5, <1>6, <1>7 DEF AuthorityInv, AuthorityTypes, Settled

\* The file is looked at again: its change time has not moved while it was read,
\* so that what was read is what it held.
LEMMA ResolvedStep ==
    ASSUME AuthorityInv, Authority!Resolved
    PROVE  AuthorityInv'
<1>1. CASE Authority!ExecutableUnchanged /\ ea_expected \in {Authority!None, ea_digest}
  <2>1. /\ ea_pc = "digest" /\ Len(ea_digest) = Authority!Blocks /\ ea_pc' = "bind"
        /\ UNCHANGED <<Authority!system, Authority!authority, ea_digest, ea_copy, ea_handle>>
    BY <1>1 DEF Authority!Resolved, Authority!Goes
  <2>2. Since = 0
    BY <1>1, <2>1
    DEF AuthorityInv, AuthorityTypes, Identities, Identified, Since,
        Authority!ExecutableUnchanged, Authority!FileIdentity
  <2>3. Now \in [Blocks -> ea_Bytes] /\ Now \in ea_contents[ea_identity.inode]
    BY <2>1 DEF AuthorityInv, AuthorityTypes, Identified, Identities, Now
  <2>4. ea_digest \in [Blocks -> ea_Bytes]
    BY <2>1 DEF AuthorityInv, AuthorityTypes, Blocks
  <2>5. \A k \in Blocks : ea_digest[k] = Now[k]
    BY <2>1, <2>2 DEF AuthorityInv, ReadSoFar, Blocks
  <2>6. ea_digest = Now
    BY <2>3, <2>4, <2>5
  <2> QED
    BY <1>1, <2>1, <2>2, <2>3, <2>6
    DEF AuthorityInv, AuthorityTypes, Identified, Settled, ReadSoFar, Since,
        Authority!system, Authority!authority
<1>2. CASE ~(Authority!ExecutableUnchanged /\ ea_expected \in {Authority!None, ea_digest})
  BY <1>2, RefusalStep DEF Authority!Resolved
<1> QED
  BY <1>1, <1>2

\* The steps after that change only what was recorded of the directories, the copy
\* and the handle.
LEMMA LaterStep ==
    ASSUME AuthorityInv, ea_pc \in Settled, ea_pc' \in Settled,
           UNCHANGED <<Authority!system, ea_expected, ea_path, ea_identity, ea_digest>>,
           ea_pc' \in {"handle", "opening", "spawn", "launched"} => ea_copy' = ea_digest,
           ea_pc' \in {"spawn", "launched"} /\ ea_BirthTimes => ea_handle' = ea_bound'[Len(ea_Laid)]
    PROVE  AuthorityInv'
BY DEF AuthorityInv, AuthorityTypes, Identified, Settled, ReadSoFar, Since, Authority!system

\* Revalidation preserves the invariant of the authority.
LEMMA RevalidateStep ==
    ASSUME AuthorityInv, NEW here, NEW next, Authority!Revalidate(here, next),
           here \in Settled \ {"spawn"}, next \in {"execute", "snapshot"} 
    PROVE  AuthorityInv'
<1>1. CASE Authority!ExecutableUnchanged /\ Authority!DirectoriesUnchanged
  <2>1. /\ ea_pc = here /\ ea_pc' = next
        /\ UNCHANGED <<Authority!system, Authority!authority, ea_digest, ea_copy, ea_handle>>
    BY <1>1 DEF Authority!Revalidate, Authority!Goes
  <2> QED
    BY <2>1, LaterStep DEF Authority!authority, Settled
<1>2. CASE ~(Authority!ExecutableUnchanged /\ Authority!DirectoriesUnchanged)
  BY <1>2, RefusalStep DEF Authority!Revalidate
<1> QED
  BY <1>1, <1>2

\* bind ends, and a call starts, with a look at everything.
LEMMA BindStep ==
    ASSUME AuthorityInv, Authority!Bind \/ Authority!Bound \/ Authority!Start
    PROVE  AuthorityInv'
<1>1. CASE Authority!Bind
  <2>1. /\ ea_pc = "bind" /\ ea_pc' = ea_pc
        /\ UNCHANGED <<Authority!system, ea_expected, ea_path, ea_identity, ea_digest>>
    BY <1>1 DEF Authority!Bind
  <2> QED
    BY <2>1, LaterStep DEF Settled
<1>2. CASE Authority!Bound
  BY <1>2, RevalidateStep DEF Authority!Bound, Settled
<1>3. CASE Authority!Start
  BY <1>3, RevalidateStep DEF Authority!Start, Settled
<1> QED
  BY <1>1, <1>2, <1>3

\* The snapshot: the copy is compared with the digest.
LEMMA CopyStep ==
    ASSUME AuthorityInv, Authority!Snapshot \/ Authority!Copy \/ Authority!Copied
    PROVE  AuthorityInv'
<1>1. CASE Authority!Refuses /\ UNCHANGED Authority!system
  BY <1>1, RefusalStep
<1>2. CASE ~(Authority!Refuses /\ UNCHANGED Authority!system)
  <2>1. /\ ea_pc \in {"snapshot", "copy"} /\ ea_pc' \in {"copy", "handle"}
        /\ UNCHANGED <<Authority!system, ea_expected, ea_path, ea_identity, ea_digest>>
        /\ ea_pc' = "handle" => ea_copy' = ea_digest
    BY <1>2 DEF Authority!Snapshot, Authority!Copy, Authority!Copied, Authority!Goes,
       Authority!CopyMatches, Authority!authority
  <2> QED
    BY <2>1, LaterStep DEF Settled
<1> QED
  BY <1>1, <1>2

\* open_handle and the launch: the directory that is opened is compared with what
\* was recorded of it.
LEMMA HandleStep ==
    ASSUME AuthorityInv, Authority!LookAtChain \/ Authority!OpenHandle \/ Authority!Launch
    PROVE  AuthorityInv'
<1>1. CASE Authority!Refuses /\ UNCHANGED Authority!system
  BY <1>1, RefusalStep
<1>2. CASE ~(Authority!Refuses /\ UNCHANGED Authority!system)
  <2>1. /\ ea_pc \in {"handle", "opening", "spawn"} /\ ea_pc' \in {"opening", "spawn", "launched"}
        /\ UNCHANGED <<Authority!system, Authority!authority, ea_digest, ea_copy>>
        /\ \/ ea_pc = "opening" /\ ea_pc' = "spawn"
           \/ ea_pc = "handle" /\ ea_pc' = "opening"
           \/ ea_pc = "spawn" /\ ea_pc' = "launched" /\ UNCHANGED ea_handle
    BY <1>2 DEF Authority!LookAtChain, Authority!OpenHandle, Authority!Launch, Authority!Revalidate,
       Authority!Goes
  <2>2. ea_pc = "opening" /\ ea_BirthTimes => ea_handle' = ea_bound[Len(ea_Laid)]
    BY <1>2, <2>1 DEF Authority!LookAtChain, Authority!OpenHandle, Authority!Launch, Authority!Revalidate,
       Authority!SameDirectory, Authority!Matches, Authority!DirectoryIdentity
  <2>3. ea_pc' \in {"spawn", "launched"} /\ ea_BirthTimes => ea_handle' = ea_bound'[Len(ea_Laid)]
    BY <2>1, <2>2 DEF AuthorityInv, Authority!authority
  <2>4. ea_copy' = ea_digest
    BY <2>1 DEF AuthorityInv
  <2> QED
    BY <2>1, <2>3, <2>4, LaterStep DEF Settled, Authority!authority
<1> QED
  BY <1>1, <1>2

\* What is launched is what was bound, for any files, any changes to them at any
\* moment, and any chain of directories (bind_with_expected_executable_digest,
\* snapshot, open_handle).
THEOREM LaunchIsBound == Authority!Spec => []LaunchIsWhatWasBound
<1>1. Authority!Init => AuthorityInv
  <2> SUFFICES ASSUME Authority!Init
               PROVE  AuthorityInv
    OBVIOUS
  <2>1. AuthorityTypes
    BY FilesAssumed DEF Authority!Init, AuthorityTypes, Identified, Settled
  <2>2. \A f \in Authority!Files : ea_content[f] \in ea_contents[f]
    BY DEF Authority!Init
  <2> QED
    BY <2>1, <2>2 DEF AuthorityInv, Authority!Init, Identified, Settled, ReadSoFar
<1>2. AuthorityInv /\ [Authority!Next]_(Authority!vars) => AuthorityInv'
  <2> SUFFICES ASSUME AuthorityInv, [Authority!Next]_(Authority!vars)
               PROVE  AuthorityInv'
    OBVIOUS
  <2>1. CASE UNCHANGED Authority!vars
    BY <2>1 DEF Authority!vars, Authority!system, Authority!authority, AuthorityInv, AuthorityTypes,
       ReadSoFar, Since, Now
  <2>2. ASSUME NEW f \in Authority!Files, NEW block \in Blocks, NEW byte \in ea_Bytes,
               Authority!Write(f, block, byte)
        PROVE  AuthorityInv'
    BY <2>2, WriteStep
  <2>3. CASE \/ \E p \in Authority!Paths : Authority!Retarget(p) \/ \E f \in Authority!Files : Authority!Rename(p, f)
             \/ \E l \in Authority!Levels, d \in ea_Directories : Authority!Remake(l, d)
    BY <2>3, NamingStep
  <2>4. CASE Authority!Resolve \/ Authority!Open
    BY <2>4, FindStep
  <2>5. CASE Authority!Digest
    BY <2>5, DigestStep
  <2>6. CASE Authority!Resolved
    BY <2>6, ResolvedStep
  <2>7. CASE Authority!Bind \/ Authority!Bound \/ Authority!Start
    BY <2>7, BindStep
  <2>8. CASE Authority!Snapshot \/ Authority!Copy \/ Authority!Copied
    BY <2>8, CopyStep
  <2>9. CASE Authority!LookAtChain \/ Authority!OpenHandle \/ Authority!Launch
    BY <2>9, HandleStep
  <2> QED
    BY <2>1, <2>2, <2>3, <2>4, <2>5, <2>6, <2>7, <2>8, <2>9 DEF Authority!Next, Blocks
<1>3. AuthorityInv => LaunchIsWhatWasBound
  BY DEF AuthorityInv, LaunchIsWhatWasBound, Authority!LaunchIsWhatWasBound, Settled
<1> QED
  BY <1>1, <1>2, <1>3, PTL DEF Authority!Spec

-----------------------------------------------------------------------------
(* The intent of an execution against contract and policy.                 *)

Streams == Intent!Limits \ {"timeout"}
Limited == [Intent!Limits -> Nat]

\* What is compiled lies within the policy that it was compiled with.
CompiledInv ==
    /\ ei_compiled.limits \in Limited /\ ei_compiled.default \in Nat
    /\ \A limit \in Intent!Limits :
          ei_compiled.policy[limit] \in Nat /\ ei_compiled.limits[limit] <= ei_compiled.policy[limit]
    /\ Intent!ValidPolicy(ei_compiled.policy)
    /\ ei_compiled.default <= ei_compiled.limits.timeout

\* What is intended lies within what was compiled.
IntentInv ==
    /\ ei_intent.fixed = ei_compiled.fixed /\ ei_intent.limits = ei_compiled.limits
    /\ ei_intent.timeout \in Nat /\ ei_intent.timeout <= ei_compiled.limits.timeout
    /\ ei_intent.stdin \in Nat
    /\ Intent!StdinFaults(ei_intent.fixed, ei_intent.limits, ei_intent.stdin) = {}
    /\ ei_intent.fixed.cwd_mode = "denied" => ei_intent.path = <<>>

\* The contract of a call is one that the intent matches.
CallInv ==
    /\ ei_call.contract \in ei_Contracts /\ Intent!MatchesContract(ei_call.contract)
    /\ ei_call.mode \in ei_Modes /\ Intent!ModeFits(ei_call.mode)
    /\ ei_call.seconds \in Nat /\ ei_call.seconds <= ei_intent.timeout
    /\ ei_call.mode.kind = "jail" => ei_call.seconds <= ei_call.mode.wall

\* A process is given what was intended.
ProcessInv ==
    /\ ei_process.given = ei_intent.fixed /\ ei_process.limits = ei_intent.limits
    /\ ei_process.path = ei_intent.path /\ ei_process.seconds = ei_call.seconds
    /\ ei_process.credential = ei_intent.fixed.reserved
    /\ IF ei_intent.fixed.reserved THEN ei_process.stdin \in 1..ei_intent.limits.stdin
       ELSE ei_process.stdin = ei_intent.stdin

ExecutionInv ==
    /\ ei_skill \in ei_Contracts
    /\ ei_compiled # Intent!Nothing => CompiledInv
    /\ ei_intent # Intent!Nothing => ei_compiled # Intent!Nothing /\ IntentInv
    /\ ei_call # Intent!Nothing => ei_intent # Intent!Nothing /\ CallInv
    /\ ei_process # Intent!Nothing => ei_call # Intent!Nothing /\ ProcessInv

\* The lower of two numbers.
LEMMA LowerIsLower ==
    ASSUME NEW a \in Nat, NEW b \in Nat
    PROVE  /\ Intent!Lower(a, b) \in Nat
           /\ Intent!Lower(a, b) <= a /\ Intent!Lower(a, b) <= b
<1>1. \E x \in {a, b} : \A y \in {a, b} : x =< y
  <2>1. CASE a <= b
    BY <2>1
  <2>2. CASE ~(a <= b)
    BY <2>2
  <2> QED
    BY <2>1, <2>2
<1>2. /\ Intent!Lower(a, b) \in {a, b}
      /\ \A y \in {a, b} : Intent!Lower(a, b) <= y
  BY <1>1 DEF Intent!Lower, Intent!Min
<1> QED
  BY <1>2

\* What is assumed of contracts, requests and modes.
LEMMA IntentAssumed ==
    /\ ei_MaxTimeout \in Nat /\ ei_MaxStream \in Nat /\ ei_Materials \subseteq Nat
    /\ \A contract \in ei_Contracts :
          /\ DOMAIN contract.limits \subseteq Intent!Limits \cup {"memory"}
          /\ \A limit \in DOMAIN contract.limits : contract.limits[limit] \in Nat
          /\ \A limit \in Intent!Limits : Intent!Declared(contract, limit) \in Nat
    /\ \A policy \in ei_Policies : \A limit \in Intent!Limits \cup {"default"} : policy[limit] \in Nat
    /\ \A request \in ei_Requests : request.stdin \in Nat /\ request.timeout \in Nat
    /\ \A mode \in ei_Modes : mode.wall \in Nat
BY ComponentAssumption DEF Intent!IntentAssumption, Intent!Declared, Intent!Ceiling

\* Compiling: every limit is the lower of the contract's and the policy's.
LEMMA CompileStep ==
    ASSUME ExecutionInv, NEW policy \in ei_Policies, Intent!Compile(policy)
    PROVE  ExecutionInv'
<1> DEFINE limits == Intent!Effective(ei_skill, policy)
<1>1. /\ ei_intent = Intent!Nothing /\ Intent!ValidPolicy(policy)
      /\ ei_compiled'.limits = limits /\ ei_compiled'.policy = policy
      /\ ei_compiled'.default = Intent!Lower(policy.default, limits.timeout)
      /\ UNCHANGED <<ei_skill, ei_intent, ei_call, ei_process>>
  BY DEF Intent!Compile
<1>2. \A limit \in Intent!Limits : policy[limit] \in Nat /\ Intent!Declared(ei_skill, limit) \in Nat
  BY IntentAssumed DEF ExecutionInv
<1>3. /\ limits \in Limited
      /\ \A limit \in Intent!Limits : limits[limit] <= policy[limit]
  <2>1. \A limit \in Intent!Limits :
          /\ Intent!Lower(Intent!Declared(ei_skill, limit), policy[limit]) \in Nat
          /\ Intent!Lower(Intent!Declared(ei_skill, limit), policy[limit]) <= policy[limit]
    BY <1>2, LowerIsLower
  <2> QED
    BY <2>1 DEF Intent!Effective, Limited
<1>4. limits.timeout \in Nat /\ policy.default \in Nat
  BY <1>3, IntentAssumed DEF Limited, Intent!Limits
<1>5. /\ Intent!Lower(policy.default, limits.timeout) \in Nat
      /\ Intent!Lower(policy.default, limits.timeout) <= limits.timeout
  BY <1>4, LowerIsLower
<1> HIDE DEF limits
<1>6. CompiledInv'
  <2>1. ei_compiled'.policy = policy /\ Intent!ValidPolicy(ei_compiled.policy)'
    BY <1>1 DEF Intent!ValidPolicy
  <2> QED
    BY <1>1, <1>2, <1>3, <1>5, <2>1 DEF CompiledInv
<1> QED
  BY <1>1, <1>6 DEF ExecutionInv

\* A request is admitted.
LEMMA AdmitStep ==
    ASSUME ExecutionInv, NEW request \in ei_Requests, Intent!Admit(request)
    PROVE  ExecutionInv'
<1>1. /\ ei_compiled # Intent!Nothing /\ ei_intent = Intent!Nothing
      /\ Intent!Faults(request) = {}
      /\ ei_intent'.fixed = ei_compiled.fixed /\ ei_intent'.limits = ei_compiled.limits
      /\ ei_intent'.stdin = request.stdin /\ ei_intent'.path = request.path
      /\ ei_intent'.timeout =
            IF request.timeout = Intent!Absent THEN ei_compiled.default ELSE request.timeout
      /\ UNCHANGED <<ei_skill, ei_compiled, ei_call, ei_process>>
  BY DEF Intent!Admit
<1>2. CompiledInv
  BY <1>1 DEF ExecutionInv
<1>3. /\ Intent!StdinFaults(ei_compiled.fixed, ei_compiled.limits, request.stdin) = {}
      /\ Intent!PathFaults(ei_compiled.fixed, request.path) = {}
      /\ Intent!TimeoutFaults(ei_compiled.limits, request.timeout) = {}
  BY <1>1 DEF Intent!Faults
<1>4. ei_compiled.fixed.cwd_mode = "denied" => request.path = <<>>
  BY <1>3 DEF Intent!PathFaults, Intent!Refused
<1>5. ei_compiled.limits.timeout \in Nat /\ request.timeout \in Nat /\ request.stdin \in Nat
  BY <1>2, IntentAssumed DEF CompiledInv, Limited, Intent!Limits
<1>6. request.timeout # Intent!Absent => request.timeout \in 1..ei_compiled.limits.timeout
  BY <1>3 DEF Intent!TimeoutFaults, Intent!Refused
<1>7. ei_intent'.timeout \in Nat /\ ei_intent'.timeout <= ei_compiled.limits.timeout
  BY <1>1, <1>2, <1>5, <1>6 DEF CompiledInv
<1>8. IntentInv'
  BY <1>1, <1>3, <1>4, <1>5, <1>7 DEF IntentInv
<1> QED
  BY <1>1, <1>2, <1>8 DEF ExecutionInv, CompiledInv

\* The invocation, with the contract that is valid by now.
LEMMA InvokeStep ==
    ASSUME ExecutionInv, NEW mode \in ei_Modes, Intent!Invoke(mode)
    PROVE  ExecutionInv'
<1>1. /\ ei_intent # Intent!Nothing /\ ei_call = Intent!Nothing
      /\ Intent!MatchesContract(ei_skill) /\ Intent!ModeFits(mode)
      /\ ei_call'.contract = ei_skill /\ ei_call'.mode = mode
      /\ ei_call'.seconds =
            IF mode.kind = "jail" THEN Intent!Lower(ei_intent.timeout, mode.wall) ELSE ei_intent.timeout
      /\ UNCHANGED <<ei_skill, ei_compiled, ei_intent, ei_process>>
  BY DEF Intent!Invoke
<1>2. ei_intent.timeout \in Nat /\ mode.wall \in Nat
  BY <1>1, IntentAssumed DEF ExecutionInv, IntentInv
<1>3. /\ ei_call'.seconds \in Nat /\ ei_call'.seconds <= ei_intent.timeout
      /\ mode.kind = "jail" => ei_call'.seconds <= mode.wall
  <2>1. /\ Intent!Lower(ei_intent.timeout, mode.wall) \in Nat
        /\ Intent!Lower(ei_intent.timeout, mode.wall) <= ei_intent.timeout
        /\ Intent!Lower(ei_intent.timeout, mode.wall) <= mode.wall
    BY <1>2, LowerIsLower
  <2>2. CASE mode.kind = "jail"
    BY <1>1, <2>1, <2>2
  <2>3. CASE mode.kind # "jail"
    BY <1>1, <1>2, <2>3
  <2> QED
    BY <2>2, <2>3
<1>4. CallInv'
  BY <1>1, <1>3 DEF CallInv, ExecutionInv, Intent!MatchesContract, Intent!MatchesWhatIsRepeated,
     Intent!MatchesLimits, Intent!MatchesTimeout, Intent!ModeFits
<1> QED
  BY <1>1, <1>4 DEF ExecutionInv, CompiledInv, IntentInv

\* The process is given what was intended, and standard input from one source.
LEMMA IntentLaunchStep ==
    ASSUME ExecutionInv, NEW material \in ei_Materials, Intent!Launch(material)
    PROVE  ExecutionInv'
<1>1. /\ ei_call # Intent!Nothing /\ ei_process = Intent!Nothing
      /\ Intent!Bindable(material)
      /\ ei_process'.given = ei_intent.fixed /\ ei_process'.limits = ei_intent.limits
      /\ ei_process'.path = ei_intent.path /\ ei_process'.seconds = ei_call.seconds
      /\ ei_process'.credential = ei_intent.fixed.reserved
      /\ ei_process'.stdin = IF ei_intent.fixed.reserved THEN material ELSE ei_intent.stdin
      /\ UNCHANGED <<ei_skill, ei_compiled, ei_intent, ei_call>>
  BY DEF Intent!Launch
<1>2. ProcessInv'
  BY <1>1 DEF ProcessInv, Intent!Bindable
<1> QED
  BY <1>1, <1>2 DEF ExecutionInv, CompiledInv, IntentInv, CallInv, Intent!MatchesContract,
     Intent!MatchesWhatIsRepeated, Intent!MatchesLimits, Intent!MatchesTimeout, Intent!ModeFits

\* What the invariant says of a process that is launched.
LEMMA ExecutionFits ==
    ASSUME ExecutionInv
    PROVE  Intent!ProcessFitsItsContract
<1> SUFFICES ASSUME ei_process # Intent!Nothing
             PROVE  Intent!ProcessFitsItsContract
  BY DEF Intent!ProcessFitsItsContract
<1> DEFINE contract == ei_call.contract
           limits == ei_compiled.limits
           policy == ei_compiled.policy
           fixed == ei_intent.fixed
<1>1. CompiledInv /\ IntentInv /\ CallInv /\ ProcessInv
  BY DEF ExecutionInv
<1>2. /\ fixed = Intent!Repeated(contract) /\ contract \in ei_Contracts
      /\ \A stream \in Streams : limits[stream] <= Intent!Declared(contract, stream)
      /\ ei_intent.timeout <= Intent!Declared(contract, "timeout")
  BY <1>1 DEF CallInv, IntentInv, Intent!MatchesContract, Intent!MatchesWhatIsRepeated,
     Intent!MatchesLimits, Intent!MatchesTimeout, Streams
<1>3. /\ \A limit \in Intent!Limits :
            /\ limits[limit] \in Nat /\ policy[limit] \in Nat /\ limits[limit] <= policy[limit]
            /\ Intent!Declared(contract, limit) \in Nat
      /\ limits.timeout \in Nat /\ policy.timeout \in Nat /\ limits.timeout <= policy.timeout
      /\ limits.stdin \in Nat /\ policy.stdin \in Nat /\ limits.stdin <= policy.stdin
      /\ Intent!Declared(contract, "stdin") \in Nat /\ Intent!Declared(contract, "timeout") \in Nat
      /\ policy.stdin <= ei_MaxStream /\ limits.stdin <= Intent!Declared(contract, "stdin")
      /\ ei_MaxStream \in Nat
  BY <1>1, <1>2, IntentAssumed DEF CompiledInv, Limited, Intent!Limits, Intent!ValidPolicy, Streams
<1>4. /\ fixed.executable = contract.bins[1] /\ fixed.prefix = contract.prefix
      /\ fixed.interaction = contract.interaction /\ fixed.cwd_mode = contract.cwd
      /\ fixed.memory = Intent!Memory(contract) /\ fixed.reserved = Intent!Reserved(contract)
      /\ fixed.stdin_mode = contract.stdin
  BY <1>2 DEF Intent!Repeated
<1> HIDE DEF fixed
<1>5. \A limit \in DOMAIN contract.limits \ {"memory", "timeout", "stdin"} :
         ei_process.limits[limit] <= contract.limits[limit]
  <2> SUFFICES ASSUME NEW limit \in DOMAIN contract.limits \ {"memory", "timeout", "stdin"}
               PROVE  ei_process.limits[limit] <= contract.limits[limit]
    OBVIOUS
  <2>1. limit \in Streams
    BY <1>2, IntentAssumed DEF Streams
  <2>2. Intent!Declared(contract, limit) = contract.limits[limit]
    BY DEF Intent!Declared
  <2> QED
    BY <1>1, <1>2, <2>1, <2>2 DEF ProcessInv, IntentInv
<1>6. \A stream \in {"stdout", "stderr"} : ei_process.limits[stream] <= policy[stream]
  BY <1>1, <1>3 DEF ProcessInv, IntentInv, Intent!Limits
<1>7. /\ ei_process.seconds <= Intent!Declared(contract, "timeout")
      /\ ei_process.seconds <= policy.timeout
      /\ ei_call.mode.kind = "jail" => ei_process.seconds <= ei_call.mode.wall
  BY <1>1, <1>2, <1>3 DEF CallInv, IntentInv, ProcessInv
<1>8. ei_process.path # <<>> => contract.cwd # "denied"
  BY <1>1, <1>4 DEF IntentInv, ProcessInv, fixed
<1>9. ei_process.credential <=> Intent!Reserved(contract)
  BY <1>1, <1>4 DEF ProcessInv, fixed
<1>10. CASE Intent!Reserved(contract)
  <2>1. ei_process.stdin \in 1..limits.stdin
    BY <1>1, <1>4, <1>10 DEF ProcessInv, IntentInv, fixed
  <2>2. /\ ei_process.stdin # Intent!Absent
        /\ ei_process.stdin <= Intent!Declared(contract, "stdin") /\ ei_process.stdin <= policy.stdin
    BY <1>3, <2>1 DEF Intent!Absent
  <2> QED
    BY <1>1, <1>4, <1>5, <1>6, <1>7, <1>8, <1>9, <1>10, <2>2
    DEF Intent!ProcessFitsItsContract, CallInv, Intent!ModeFits, ProcessInv, fixed
<1>11. CASE ~Intent!Reserved(contract)
  <2>1. ei_process.stdin = ei_intent.stdin /\ ei_intent.stdin \in Nat
    BY <1>1, <1>4, <1>11 DEF ProcessInv, IntentInv, fixed
  <2>2. /\ ~(fixed.stdin_mode = "denied" /\ ei_intent.stdin # Intent!Absent)
        /\ ~(fixed.stdin_mode = "required" /\ ei_intent.stdin = Intent!Absent)
        /\ ~(ei_intent.stdin # Intent!Absent /\ ei_intent.stdin > limits.stdin)
    BY <1>1, <1>4, <1>11 DEF IntentInv, Intent!StdinFaults, Intent!Refused, fixed
  <2>3. ei_process.stdin # Intent!Absent =>
          ei_process.stdin <= Intent!Declared(contract, "stdin") /\ ei_process.stdin <= policy.stdin
    BY <1>3, <2>1, <2>2
  <2> QED
    BY <1>1, <1>4, <1>5, <1>6, <1>7, <1>8, <1>9, <1>11, <2>1, <2>2, <2>3
    DEF Intent!ProcessFitsItsContract, CallInv, Intent!ModeFits, ProcessInv, fixed
<1> QED
  BY <1>10, <1>11

\* The process that starts is the one its contract describes, for any contracts,
\* policies, requests and limits, and any edit of the skill in between
\* (GovernedExecutionPolicy, compile, admit, GovernedExecutionIntent).
THEOREM ProcessFits == Intent!Spec => []ProcessFitsItsContract
<1>1. Intent!Init => ExecutionInv
  BY DEF Intent!Init, ExecutionInv
<1>2. ExecutionInv /\ [Intent!Next]_(Intent!vars) => ExecutionInv'
  <2> SUFFICES ASSUME ExecutionInv, [Intent!Next]_(Intent!vars)
               PROVE  ExecutionInv'
    OBVIOUS
  <2> DEFINE Parts == <<ei_compiled, ei_intent, ei_call, ei_process>>
  <2>1. CASE UNCHANGED Parts /\ ei_skill' \in ei_Contracts
    BY <2>1 DEF ExecutionInv, CompiledInv, IntentInv, CallInv, ProcessInv, Intent!MatchesContract,
       Intent!MatchesWhatIsRepeated, Intent!MatchesLimits, Intent!MatchesTimeout, Intent!ModeFits
  <2>2. CASE UNCHANGED Intent!vars \/ \E contract \in ei_Contracts : Intent!Edit(contract)
    BY <2>1, <2>2 DEF Intent!vars, Intent!Edit, ExecutionInv
  <2>3. ASSUME NEW mode \in ei_Modes, Intent!RefuseToInvoke(mode)
        PROVE  ExecutionInv'
    <3>1. /\ ei_call = Intent!Nothing /\ ei_intent' = Intent!Nothing
          /\ UNCHANGED <<ei_skill, ei_compiled, ei_call, ei_process>>
      BY <2>3 DEF Intent!RefuseToInvoke
    <3> QED
      BY <3>1 DEF ExecutionInv, CompiledInv
  <2> QED
    BY <2>2, <2>3, CompileStep, AdmitStep, InvokeStep, IntentLaunchStep DEF Intent!Next
<1>3. ExecutionInv => ProcessFitsItsContract
  BY ExecutionFits DEF ProcessFitsItsContract
<1> QED
  BY <1>1, <1>2, <1>3, PTL DEF Intent!Spec

-----------------------------------------------------------------------------
(* The processes of a jail, listed and killed while they fork.             *)

Keyed == jm_Pids \X Nat
Scans == [at : {"off", "between", "looking"}, todo : SUBSET Keyed, members : SUBSET Keyed,
          uncertain : BOOLEAN, quiet : Int]

MemberTypes ==
    /\ jm_started \in Nat
    /\ jm_proc \in [jm_Pids -> Nat]
    /\ jm_owner \in {"runs", "gone", "reused"}
    /\ jm_sentinel \in {"none", "fresh", "owned"}
    /\ jm_scan \in Scans
    /\ jm_hops \in Nat /\ jm_hops <= jm_MaxHops

\* While the host runs, nobody else tears its jail down; before the first member
\* there is none, and after a proof that all are dead too.
Hosted ==
    /\ jm_aged \/ jm_sweeping => jm_owner # "runs"
    /\ jm_owner = "runs" /\ jm_jail \in {"made", "ready"} => jm_sentinel # "none"
    /\ jm_jail \in {"new", "made", "ready"} => Members!Alive = {}
    /\ jm_owner = "runs" /\ jm_jail = "over" /\ ~jm_survived => Members!Alive = {}
    /\ jm_scan.at # "off" => jm_sweeping \/ (jm_owner = "runs" /\ jm_jail = "teardown")

\* A member that a scan has listed and not yet looked at.
Unseen == \E p \in Members!Alive : Members!Key(p) \in jm_scan.todo

\* While a member lives, every scan that counts as quiet has cost an escape, but
\* for the one that began the count; one that is under way and has found nothing
\* has cost its own, or has a member still to look at.
Counted ==
    Members!Alive # {} /\ jm_scan.at # "off" =>
        /\ jm_scan.quiet <= jm_hops + 1
        /\ jm_scan.at = "looking" /\ jm_scan.members = {} /\ ~jm_scan.uncertain /\ jm_scan.quiet # -1 =>
              jm_scan.quiet <= jm_hops \/ Unseen

MembersInv == MemberTypes /\ Hosted /\ Counted /\ Members!SurvivorsKeepTheirSentinel

\* A scan outlasts the hops a process can make.
LEMMA MembersAssumed == jm_MaxHops \in Nat /\ jm_QuietScans \in Nat /\ jm_MaxHops < jm_QuietScans
BY ComponentAssumption DEF Members!MembersAssumption, Members!HopsAreFew

\* A scan is off, or about to begin.
LEMMA FirstScan ==
    /\ Members!Off \in Scans
    /\ [Members!Off EXCEPT !.at = "between"] \in Scans
    /\ [Members!Off EXCEPT !.at = "between"].at = "between"
    /\ [Members!Off EXCEPT !.at = "between"].quiet = 0
    /\ \A h \in Nat : 0 <= h + 1
<1>0. \A h \in Nat : 0 <= h + 1
  OBVIOUS
<1>1. {} \in SUBSET Keyed /\ 0 \in Int /\ FALSE \in BOOLEAN
  OBVIOUS
<1>2. Members!Off \in Scans
  BY <1>1 DEF Members!Off, Scans
<1>3. \A r \in Scans :
        /\ [r EXCEPT !.at = "between"] \in Scans
        /\ [r EXCEPT !.at = "between"].at = "between"
        /\ [r EXCEPT !.at = "between"].quiet = r.quiet
  BY DEF Scans
<1>4. Members!Off.quiet = 0
  BY DEF Members!Off
<1> QED
  BY <1>0, <1>2, <1>3, <1>4

\* The host makes the jail, ends it, or crashes.
LEMMA HostStep ==
    ASSUME MembersInv,
           \/ Members!MakeSentinel \/ Members!RecordOwner \/ Members!BeginTeardown \/ Members!Drop
           \/ Members!Crash \/ Members!ReusePid \/ Members!Age
    PROVE  MembersInv'
<1>0. Members!Alive' = Members!Alive /\ UNCHANGED <<jm_started, jm_proc, jm_hops>>
  BY DEF Members!MakeSentinel, Members!RecordOwner, Members!BeginTeardown, Members!Drop,
     Members!Crash, Members!ReusePid, Members!Age, Members!Alive
<1>1. CASE Members!MakeSentinel \/ Members!RecordOwner
  BY <1>0, <1>1 DEF MembersInv, MemberTypes, Hosted, Counted, Unseen, Members!Key,
     Members!SurvivorsKeepTheirSentinel, Members!MakeSentinel, Members!RecordOwner
<1>2. CASE Members!BeginTeardown \/ Members!Crash
  <2>1. jm_scan' \in Scans
    BY <1>2, FirstScan DEF MembersInv, MemberTypes, Members!BeginTeardown, Members!Crash
  <2>2. \/ jm_scan'.at = "off"
        \/ jm_scan'.at = "between" /\ jm_scan'.quiet = 0 /\ jm_owner' = "runs" /\ jm_jail' = "teardown"
    BY <1>2 DEF MembersInv, Hosted, Members!BeginTeardown, Members!Crash, Members!Off
  <2>3. MemberTypes'
    BY <1>0, <1>2, <2>1 DEF MembersInv, MemberTypes, Members!BeginTeardown, Members!Crash
  <2>4. Hosted'
    BY <1>0, <1>2, <2>2 DEF MembersInv, Hosted, Members!BeginTeardown, Members!Crash
  <2>5. Counted'
    BY <1>0, <2>2 DEF MembersInv, MemberTypes, Counted
  <2>6. Members!SurvivorsKeepTheirSentinel'
    BY <1>0, <1>2 DEF MembersInv, Members!SurvivorsKeepTheirSentinel, Members!BeginTeardown, Members!Crash
  <2> QED
    BY <2>3, <2>4, <2>5, <2>6 DEF MembersInv
<1>3. CASE Members!Drop \/ Members!ReusePid \/ Members!Age
  BY <1>0, <1>3 DEF MembersInv, MemberTypes, Hosted, Counted, Unseen, Members!Key,
     Members!SurvivorsKeepTheirSentinel, Members!Drop, Members!ReusePid, Members!Age
<1> QED
  BY <1>1, <1>2, <1>3

\* A member is started, by the host or by a member.
LEMMA StartStep ==
    ASSUME MembersInv, NEW p \in jm_Pids,
           Members!Launch(p) \/ \E q \in jm_Pids : Members!Fork(q, p)
    PROVE  MembersInv'
<1>1. /\ jm_proc[p] = 0 /\ jm_started' = jm_started + 1
      /\ jm_proc' = [jm_proc EXCEPT ![p] = jm_started + 1]
      /\ UNCHANGED <<jm_owner, jm_sentinel, jm_aged, jm_sweeping, jm_scan, jm_survived, jm_hops>>
      /\ \/ jm_owner = "runs" /\ jm_jail = "ready" /\ jm_jail' = "running"
         \/ Members!Alive # {} /\ jm_jail' = jm_jail
  BY DEF Members!Launch, Members!Fork, Members!Start, Members!Runs
<1>2. MemberTypes'
  BY <1>1 DEF MembersInv, MemberTypes
<1>3. \A q \in Members!Alive : q \in jm_Pids /\ q # p /\ jm_proc'[q] = jm_proc[q] /\ q \in Members!Alive'
  BY <1>1 DEF MembersInv, MemberTypes, Members!Alive
<1>4. CASE jm_owner = "runs" /\ jm_jail = "ready" /\ jm_jail' = "running"
  <2>1. jm_scan.at = "off" /\ jm_sentinel # "none"
    BY <1>4 DEF MembersInv, Hosted
  <2> QED
    BY <1>1, <1>2, <1>4, <2>1
    DEF MembersInv, Hosted, Counted, Members!SurvivorsKeepTheirSentinel
<1>5. CASE Members!Alive # {} /\ jm_jail' = jm_jail
  <2>1. Counted'
    BY <1>1, <1>3, <1>5 DEF MembersInv, Counted, Unseen, Members!Key
  <2>2. Hosted'
    BY <1>1, <1>5 DEF MembersInv, Hosted
  <2> QED
    BY <1>1, <1>2, <1>5, <2>1, <2>2 DEF MembersInv, Members!SurvivorsKeepTheirSentinel
<1> QED
  BY <1>1, <1>4, <1>5

\* A member exits: one that was listed and not yet looked at has escaped a look.
LEMMA ExitStep ==
    ASSUME MembersInv, NEW p \in jm_Pids, Members!Exit(p)
    PROVE  MembersInv'
<1>1. /\ jm_proc' = [jm_proc EXCEPT ![p] = 0]
      /\ IF Members!Key(p) \in jm_scan.todo
         THEN jm_hops < jm_MaxHops /\ jm_hops' = jm_hops + 1 ELSE jm_hops' = jm_hops
      /\ UNCHANGED <<jm_started, jm_owner, jm_sentinel, jm_aged, jm_jail, jm_sweeping, jm_scan, jm_survived>>
  BY DEF Members!Exit
<1>2. /\ jm_hops \in Nat /\ jm_hops' \in Nat /\ jm_hops <= jm_hops' /\ jm_hops' <= jm_MaxHops
      /\ jm_scan.quiet \in Int
      /\ Members!Key(p) \in jm_scan.todo => jm_hops' = jm_hops + 1
  BY <1>1, MembersAssumed DEF MembersInv, MemberTypes, Scans
<1>3. Members!Alive' = Members!Alive \ {p} /\ \A q \in Members!Alive' : jm_proc'[q] = jm_proc[q]
  BY <1>1 DEF MembersInv, MemberTypes, Members!Alive
<1>4. MemberTypes'
  BY <1>1, <1>2 DEF MembersInv, MemberTypes
<1>5. Counted'
  <2> SUFFICES ASSUME Members!Alive' # {}, jm_scan.at # "off"
               PROVE  /\ jm_scan.quiet <= jm_hops' + 1
                      /\ jm_scan.at = "looking" /\ jm_scan.members = {} /\ ~jm_scan.uncertain
                            /\ jm_scan.quiet # -1 => jm_scan.quiet <= jm_hops' \/ Unseen'
    BY <1>1 DEF Counted
  <2>1. /\ jm_scan.quiet <= jm_hops + 1
        /\ jm_scan.at = "looking" /\ jm_scan.members = {} /\ ~jm_scan.uncertain
              /\ jm_scan.quiet # -1 => jm_scan.quiet <= jm_hops \/ Unseen
    BY <1>3 DEF MembersInv, Counted
  <2>2. CASE Members!Key(p) \in jm_scan.todo
    BY <1>2, <2>1, <2>2
  <2>3. CASE Members!Key(p) \notin jm_scan.todo
    <3>1. Unseen => Unseen'
      BY <1>1, <1>3, <2>3 DEF Unseen, Members!Key
    <3> QED
      BY <1>2, <2>1, <3>1
  <2> QED
    BY <2>2, <2>3
<1> QED
  BY <1>1, <1>3, <1>4, <1>5 DEF MembersInv, Hosted, Members!SurvivorsKeepTheirSentinel

\* A scan lists the members that live.
LEMMA MembersListStep ==
    ASSUME MembersInv, Members!List
    PROVE  MembersInv'
<1>1. /\ jm_scan.at = "between"
      /\ jm_scan' = [jm_scan EXCEPT !.at = "looking", !.todo = {Members!Key(p) : p \in Members!Alive},
                                    !.members = {}, !.uncertain = FALSE]
      /\ UNCHANGED <<jm_started, jm_proc, jm_owner, jm_sentinel, jm_aged, jm_jail, jm_sweeping,
                     jm_survived, jm_hops>>
  BY DEF Members!List
<1>2. {Members!Key(p) : p \in Members!Alive} \in SUBSET Keyed
  BY DEF MembersInv, MemberTypes, Keyed, Members!Key, Members!Alive
<1>3. /\ jm_scan' \in Scans /\ jm_scan'.at = "looking" /\ jm_scan'.quiet = jm_scan.quiet
      /\ jm_scan'.todo = {Members!Key(p) : p \in Members!Alive}
  BY <1>1, <1>2 DEF MembersInv, MemberTypes, Scans
<1>4. Members!Alive' = Members!Alive /\ \A p : Members!Key(p)' = Members!Key(p)
  BY <1>1 DEF Members!Alive, Members!Key
<1>5. Members!Alive # {} => Unseen'
  BY <1>3, <1>4 DEF Unseen
<1>6. Counted'
  BY <1>1, <1>3, <1>4, <1>5 DEF MembersInv, Counted
<1>7. Hosted'
  BY <1>1, <1>3, <1>4 DEF MembersInv, Hosted
<1> QED
  BY <1>1, <1>3, <1>4, <1>6, <1>7 DEF MembersInv, MemberTypes, Members!SurvivorsKeepTheirSentinel

\* A listed process is looked at: a member is found, it has gone, or the look fails.
LEMMA LookStep ==
    ASSUME MembersInv, NEW k \in jm_scan.todo, Members!Look(k)
    PROVE  MembersInv'
<1>1. /\ jm_scan.at = "looking"
      /\ \/ /\ k[1] \in Members!Alive
            /\ jm_scan' = [jm_scan EXCEPT !.todo = @ \ {k}, !.members = @ \cup {Members!Key(k[1])}]
         \/ k[1] \notin Members!Alive /\ jm_scan' = [jm_scan EXCEPT !.todo = @ \ {k}]
         \/ jm_scan' = [jm_scan EXCEPT !.todo = @ \ {k}, !.uncertain = TRUE]
      /\ UNCHANGED <<jm_started, jm_proc, jm_owner, jm_sentinel, jm_aged, jm_jail, jm_sweeping,
                     jm_survived, jm_hops>>
  BY DEF Members!Look
<1>2. Members!Alive' = Members!Alive /\ \A p : Members!Key(p)' = Members!Key(p)
  BY <1>1 DEF Members!Alive, Members!Key
<1>3. /\ jm_scan' \in Scans /\ jm_scan'.at = "looking" /\ jm_scan'.quiet = jm_scan.quiet
      /\ jm_scan'.todo = jm_scan.todo \ {k}
      /\ \/ Members!Key(k[1]) \in jm_scan'.members
         \/ jm_scan'.uncertain
         \/ /\ k[1] \notin Members!Alive
            /\ jm_scan'.members = jm_scan.members /\ jm_scan'.uncertain = jm_scan.uncertain
  <2>1. CASE /\ k[1] \in Members!Alive
             /\ jm_scan' = [jm_scan EXCEPT !.todo = @ \ {k}, !.members = @ \cup {Members!Key(k[1])}]
    <3>1. Members!Key(k[1]) \in Keyed
      BY <2>1 DEF MembersInv, MemberTypes, Keyed, Members!Key, Members!Alive
    <3> QED
      BY <1>1, <2>1, <3>1 DEF MembersInv, MemberTypes, Scans
  <2>2. CASE k[1] \notin Members!Alive /\ jm_scan' = [jm_scan EXCEPT !.todo = @ \ {k}]
    BY <1>1, <2>2 DEF MembersInv, MemberTypes, Scans
  <2>3. CASE jm_scan' = [jm_scan EXCEPT !.todo = @ \ {k}, !.uncertain = TRUE]
    BY <1>1, <2>3 DEF MembersInv, MemberTypes, Scans
  <2> QED
    BY <1>1, <2>1, <2>2, <2>3
<1>4. k[1] \notin Members!Alive /\ Unseen => Unseen'
  <2>1. \A p \in Members!Alive : Members!Key(p)[1] = p
    BY DEF Members!Key
  <2> QED
    BY <1>2, <1>3, <2>1 DEF Unseen
<1>5. Counted'
  BY <1>1, <1>2, <1>3, <1>4 DEF MembersInv, Counted
<1>6. Hosted'
  BY <1>1, <1>2, <1>3 DEF MembersInv, Hosted
<1> QED
  BY <1>1, <1>2, <1>3, <1>5, <1>6 DEF MembersInv, MemberTypes, Members!SurvivorsKeepTheirSentinel

\* A member that was found is killed: the count of quiet scans begins anew.
LEMMA KillStep ==
    ASSUME MembersInv, NEW k \in jm_scan.members, Members!Kill(k)
    PROVE  MembersInv'
<1>1. /\ jm_scan.at = "looking"
      /\ jm_proc' = [jm_proc EXCEPT ![k[1]] = 0] \/ jm_proc' = jm_proc
      /\ jm_scan' = [jm_scan EXCEPT !.members = @ \ {k}, !.quiet = -1]
      /\ UNCHANGED <<jm_started, jm_owner, jm_sentinel, jm_aged, jm_jail, jm_sweeping, jm_survived, jm_hops>>
  BY DEF Members!Kill
<1>2. jm_proc' \in [jm_Pids -> Nat] /\ Members!Alive' \subseteq Members!Alive
  BY <1>1 DEF MembersInv, MemberTypes, Members!Alive
<1>3. jm_scan' \in Scans /\ jm_scan'.at = "looking" /\ jm_scan'.quiet = -1
  <2>1. PICK none \in Int : none = -1
    OBVIOUS
  <2>2. jm_scan' = [jm_scan EXCEPT !.members = @ \ {k}, !.quiet = none]
    BY <1>1, <2>1
  <2>3. jm_scan' \in Scans /\ jm_scan'.at = "looking" /\ jm_scan'.quiet = none
    BY <1>1, <2>2 DEF MembersInv, MemberTypes, Scans
  <2> QED
    BY <2>1, <2>3
<1>4. Counted'
  BY <1>1, <1>3 DEF MembersInv, MemberTypes, Counted
<1>5. Hosted'
  BY <1>1, <1>2, <1>3 DEF MembersInv, Hosted
<1> QED
  BY <1>1, <1>2, <1>3, <1>4, <1>5 DEF MembersInv, MemberTypes, Members!SurvivorsKeepTheirSentinel

\* A teardown ends, with a proof only when no member lives.
LEMMA EndsStep ==
    ASSUME MembersInv, NEW clean \in BOOLEAN, Members!Ends(clean), clean => Members!Alive = {},
           jm_scan.at # "off",
           UNCHANGED <<jm_started, jm_proc, jm_owner, jm_aged, jm_hops>>
    PROVE  MembersInv'
<1>1. Members!Alive' = Members!Alive
  BY DEF Members!Alive
<1>2. jm_scan' = Members!Off /\ jm_scan' \in Scans /\ jm_scan'.at = "off"
  BY DEF Members!Ends, Members!Off, Scans
<1>3. /\ jm_sentinel' = jm_sentinel \/ (jm_sweeping /\ Members!Alive = {} /\ jm_sentinel' = "none")
      /\ jm_jail' = IF jm_sweeping THEN jm_jail ELSE "over"
      /\ jm_survived' = (jm_survived \/ ~clean) /\ ~jm_sweeping'
  BY DEF Members!Ends
<1>4. Hosted'
  BY <1>1, <1>2, <1>3 DEF MembersInv, Hosted
<1> QED
  BY <1>1, <1>2, <1>3, <1>4 DEF MembersInv, MemberTypes, Counted, Members!SurvivorsKeepTheirSentinel

\* A scan that found nobody ends: enough of them have cost more escapes than there
\* are, unless nobody lives.
LEMMA EndScanStep ==
    ASSUME MembersInv, Members!EndScan
    PROVE  MembersInv'
<1>0. /\ jm_scan.at = "looking" /\ jm_scan.todo = {} /\ jm_scan.members = {}
      /\ UNCHANGED <<jm_started, jm_proc, jm_owner, jm_aged, jm_hops>>
  BY DEF Members!EndScan
<1>1. jm_scan \in Scans /\ jm_scan.quiet \in Int /\ jm_hops \in Nat /\ jm_hops <= jm_MaxHops
  BY DEF MembersInv, MemberTypes, Scans
<1>2. Members!Quiet \in Int /\ (Members!Alive # {} => Members!Quiet <= jm_hops + 1)
  <2>1. ~Unseen
    BY <1>0 DEF Unseen
  <2> QED
    BY <1>0, <1>1, <2>1 DEF MembersInv, Counted, Members!Quiet
<1>3. CASE Members!Quiet > jm_QuietScans /\ Members!Ends(TRUE)
  <2>1. Members!Alive = {}
    BY <1>1, <1>2, <1>3, MembersAssumed
  <2> QED
    BY <1>0, <1>3, <2>1, EndsStep
<1>4. CASE Members!Ends(FALSE)
  BY <1>0, <1>4, EndsStep
<1>5. CASE /\ jm_scan' = [jm_scan EXCEPT !.at = "between", !.quiet = Members!Quiet]
           /\ UNCHANGED <<jm_survived, jm_jail, jm_sentinel, jm_sweeping>>
  <2>1. jm_scan' \in Scans /\ jm_scan'.at = "between" /\ jm_scan'.quiet = Members!Quiet
    BY <1>1, <1>2, <1>5 DEF Scans
  <2>2. Members!Alive' = Members!Alive
    BY <1>0 DEF Members!Alive
  <2>3. Counted'
    BY <1>0, <1>2, <2>1, <2>2 DEF Counted
  <2>4. Hosted'
    BY <1>0, <1>5, <2>1, <2>2 DEF MembersInv, Hosted
  <2> QED
    BY <1>0, <1>5, <2>1, <2>2, <2>3, <2>4 DEF MembersInv, MemberTypes, Members!SurvivorsKeepTheirSentinel
<1> QED
  BY <1>3, <1>4, <1>5 DEF Members!EndScan

\* A sweep begins only at a jail whose host is gone.
LEMMA SweepStep ==
    ASSUME MembersInv, NEW probe \in {"same", "other", "not ours", "unknown", "no record"},
           Members!Sweep(probe)
    PROVE  MembersInv'
<1>1. /\ jm_sentinel # "none" /\ Members!Stale(probe)
      /\ probe \in IF jm_sentinel = "fresh" THEN {"no record"} ELSE Members!Probes
      /\ jm_sweeping' = TRUE /\ jm_scan' = [Members!Off EXCEPT !.at = "between"]
      /\ UNCHANGED <<jm_started, jm_proc, jm_owner, jm_sentinel, jm_aged, jm_jail, jm_survived, jm_hops>>
  BY DEF Members!Sweep
<1>2. jm_owner # "runs"
  <2> SUFFICES ASSUME jm_owner = "runs"
               PROVE  FALSE
    OBVIOUS
  <2>1. ~jm_aged
    BY DEF MembersInv, Hosted
  <2>2. probe \in {"same", "unknown", "no record"}
    BY <1>1 DEF Members!Probes
  <2> QED
    BY <1>1, <2>1, <2>2 DEF Members!Stale, Members!Concludes
<1>3. jm_scan' \in Scans /\ jm_scan'.at = "between" /\ jm_scan'.quiet = 0
  BY <1>1, FirstScan
<1>4. Members!Alive' = Members!Alive
  BY <1>1 DEF Members!Alive
<1>5. Hosted'
  BY <1>1, <1>2, <1>3, <1>4 DEF MembersInv, Hosted
<1>6. Counted'
  <2>1. jm_hops' \in Nat
    BY <1>1 DEF MembersInv, MemberTypes
  <2>2. 0 <= jm_hops' + 1
    BY <2>1, FirstScan, Zenon
  <2>3. jm_scan'.quiet <= jm_hops' + 1
    BY <1>3, <2>2, Zenon
  <2>4. jm_scan'.at # "looking"
    BY <1>3
  <2> QED
    BY <2>3, <2>4 DEF Counted
<1> QED
  BY <1>1, <1>3, <1>4, <1>5, <1>6 DEF MembersInv, MemberTypes, Members!SurvivorsKeepTheirSentinel

\* A member that lives can be found by its sentinel, for any number of processes,
\* forks, crashes and looks that fail, as long as fewer listed members escape a
\* look than there are confirming scans (kill_all, sweep_stale, owner_is_gone).
THEOREM SurvivorsAreFound == Members!Spec => []SurvivorsKeepTheirSentinel
<1>1. Members!Init => MembersInv
  <2> SUFFICES ASSUME Members!Init
               PROVE  MembersInv
    OBVIOUS
  <2>1. Members!Alive = {} /\ jm_scan.at = "off" /\ jm_scan \in Scans
    BY DEF Members!Init, Members!Alive, Members!Off, Scans
  <2> QED
    BY <2>1, MembersAssumed
    DEF Members!Init, MembersInv, MemberTypes, Hosted, Counted, Members!SurvivorsKeepTheirSentinel
<1>2. MembersInv /\ [Members!Next]_(Members!vars) => MembersInv'
  <2> SUFFICES ASSUME MembersInv, [Members!Next]_(Members!vars)
               PROVE  MembersInv'
    OBVIOUS
  <2>1. ASSUME UNCHANGED <<jm_started, jm_proc, jm_owner, jm_sentinel, jm_aged, jm_jail, jm_sweeping,
                           jm_scan, jm_survived, jm_hops>>
        PROVE  MembersInv'
    BY <2>1 DEF MembersInv, MemberTypes, Hosted, Counted, Unseen, Members!Alive, Members!Key,
       Members!SurvivorsKeepTheirSentinel
  <2>2. CASE UNCHANGED Members!vars \/ \E p, q \in jm_Pids : Members!Resume(p, q)
    BY <2>1, <2>2 DEF Members!vars, Members!Resume
  <2>3. CASE Members!ListFails
    <3>1. /\ Members!Ends(FALSE) /\ jm_scan.at # "off"
          /\ UNCHANGED <<jm_started, jm_proc, jm_owner, jm_aged, jm_hops>>
      BY <2>3 DEF Members!ListFails
    <3> QED
      BY <3>1, EndsStep
  <2>4. CASE \/ Members!MakeSentinel \/ Members!RecordOwner \/ Members!BeginTeardown \/ Members!Drop
             \/ Members!Crash \/ Members!ReusePid \/ Members!Age
    BY <2>4, HostStep
  <2>5. CASE \/ \E p \in jm_Pids : Members!Launch(p)
             \/ \E p, q \in jm_Pids : Members!Fork(p, q)
    BY <2>5, StartStep
  <2>6. CASE \E p \in jm_Pids : Members!Exit(p)
    BY <2>6, ExitStep
  <2>7. CASE Members!List \/ Members!EndScan
    BY <2>7, MembersListStep, EndScanStep
  <2>8. CASE \E k \in jm_scan.todo : Members!Look(k)
    BY <2>8, LookStep
  <2>9. CASE \E k \in jm_scan.members : Members!Kill(k)
    BY <2>9, KillStep
  <2>10. CASE \E probe \in {"same", "other", "not ours", "unknown", "no record"} : Members!Sweep(probe)
    BY <2>10, SweepStep
  <2> QED
    BY <2>2, <2>3, <2>4, <2>5, <2>6, <2>7, <2>8, <2>9, <2>10 DEF Members!Next
<1>3. MembersInv => SurvivorsKeepTheirSentinel
  BY DEF MembersInv, SurvivorsKeepTheirSentinel
<1> QED
  BY <1>1, <1>2, <1>3, PTL DEF Members!Spec

-----------------------------------------------------------------------------
(* The credentials of one call.                                            *)

Filled == {"inject", "seal", "running", "ended", "ok"}
Planned == Filled \cup {"compile", "authorize", "resolve", "materialize"}
Injections == Credentials!Elements(cc_contract.auth.injections)

\* A contract that got past the validator is valid, and what does not compile is
\* decided with it.
ContractInv ==
    /\ cc_contract \in cc_Contracts
    /\ cc_pc \in Planned \cup {"select", "prepare"} => Credentials!ValidContract(cc_contract)
    /\ cc_cause = "uncompiled" => cc_pc = "failed"
    /\ Credentials!AcceptedContractsCompile

\* The plan is of the revision that was selected, and the directory that is given
\* of the revision of the plan.
RevisionInv ==
    /\ cc_pc \in Planned => cc_plan.revision = cc_selection.revision
    /\ cc_pc \notin Filled \cup {"failed"} => cc_environment = {} /\ cc_io = {}
    /\ cc_pc \in Filled /\ <<"profile">> \in Credentials!Given =>
        cc_authority.revision = cc_plan.revision /\ Credentials!UsesProfile

\* What the command is given shows nothing, or is a pattern, or lies in the
\* session, which is a pattern in the end.
Delivered(item) ==
    \/ item \in {<<"fixed">>, <<"alias">>, <<"identity">>}
    \/ \E b \in cc_material : item = <<"secret", b>> /\ item \in cc_patterns
    \/ item = <<"profile">> /\ item \in cc_patterns
    \/ \E n : /\ item = <<"session", n>>
              /\ IF cc_pc = "inject" THEN cc_session = "live" ELSE <<"session">> \in cc_patterns

DeliveryInv ==
    /\ cc_pc = "inject" =>
        /\ cc_todo \in Seq(Injections)
        /\ Credentials!NeedsSession => cc_session = "live"
        /\ \A b \in cc_material : <<"secret", b>> \in cc_patterns
    /\ cc_pc \in {"inject", "seal", "running"} => \A item \in Credentials!Given : Delivered(item)

\* While the command runs, the identities that the profile's name had since begin
\* with the one that was authorized and end with the one it has; when the call has
\* succeeded, they end with the one that was authorized, too.
DirectoryInv ==
    /\ cc_directory.identity \in cc_Directories
    /\ cc_seen \in Seq(cc_Directories)
    /\ cc_pc \in {"running", "ended"} /\ <<"profile">> \in Credentials!Given =>
        /\ cc_seen # <<>> /\ cc_seen[1] = cc_authority.directory
        /\ cc_seen[Len(cc_seen)] = cc_directory.identity
    /\ cc_pc = "ok" /\ <<"profile">> \in Credentials!Given =>
        cc_seen[1] = cc_authority.directory /\ cc_seen[Len(cc_seen)] = cc_authority.directory

CredentialInv == ContractInv /\ RevisionInv /\ DeliveryInv /\ DirectoryInv

\* The contracts of the calls are declarable, their injections in a sequence.
LEMMA ContractsAssumed ==
    ASSUME NEW c \in cc_Contracts
    PROVE  Credentials!Declarable(c) /\ c.auth.injections \in Seq(Credentials!Elements(c.auth.injections))
BY ComponentAssumption DEF Credentials!CallAssumption

\* What a step leaves alone keeps its part of the invariant.
LEMMA ContractKept ==
    ASSUME ContractInv, UNCHANGED <<cc_contract, cc_selection>>,
           cc_cause' = "uncompiled" => cc_pc' = "failed" /\ (cc_cause = "uncompiled" \/ Credentials!AcceptedContractsCompile'),
           cc_pc' \in Planned \cup {"select", "prepare"} =>
               cc_pc \in Planned \cup {"select", "prepare"} \/ Credentials!ValidContract(cc_contract)
    PROVE  ContractInv'
<1>1. Credentials!AcceptedContractsCompile'
  BY DEF ContractInv, Credentials!AcceptedContractsCompile, Credentials!Clashes, Credentials!IdentityKnown,
     Credentials!auth, Credentials!EnvironmentTargets
<1>2. Credentials!ValidContract(cc_contract)' = Credentials!ValidContract(cc_contract)
  OBVIOUS
<1> QED
  BY <1>1, <1>2 DEF ContractInv

\* A step that fetches no profile leaves the binding of revisions as it was.
LEMMA RevisionKept ==
    ASSUME RevisionInv, UNCHANGED <<cc_contract, cc_selection, cc_plan, cc_authority, cc_environment, cc_io>>,
           cc_pc' \in Planned => cc_pc \in Planned,
           cc_pc' \in Filled => cc_pc \in Filled,
           cc_pc \in Filled \cup {"failed"} => cc_pc' \in Filled \cup {"failed"}
    PROVE  RevisionInv'
BY DEF RevisionInv, Credentials!Given, Credentials!UsesProfile, Credentials!auth

\* A step that delivers nothing leaves what was delivered as it was.
LEMMA DeliveryKept ==
    ASSUME DeliveryInv, UNCHANGED <<cc_contract, cc_material, cc_todo, cc_environment, cc_io, cc_patterns, cc_session>>,
           cc_pc' = "inject" => cc_pc = "inject",
           cc_pc' \in {"seal", "running"} => cc_pc \in {"seal", "running"}
    PROVE  DeliveryInv'
BY DEF DeliveryInv, Delivered, Injections, Credentials!Given, Credentials!NeedsSession, Credentials!auth

\* A step that opens no directory leaves the directories as they were.
LEMMA DirectoryKept ==
    ASSUME DirectoryInv, UNCHANGED <<cc_directory, cc_authority, cc_environment, cc_io, cc_seen>>,
           cc_pc' \notin {"running", "ended", "ok"}
    PROVE  DirectoryInv'
BY DEF DirectoryInv

\* A change by another process preserves the invariant.
LEMMA OthersStep ==
    ASSUME CredentialInv, Credentials!Revise \/ Credentials!Observe \/ Credentials!Replace
    PROVE  CredentialInv'
<1> USE DEF CredentialInv
<1>1. UNCHANGED <<cc_contract, cc_selection, cc_plan, cc_authority, cc_material, cc_todo, cc_environment, cc_io,
                  cc_patterns, cc_session, cc_pc, cc_cause>> /\ cc_pc \notin {"failed", "ok"}
  BY DEF Credentials!Revise, Credentials!Observe, Credentials!Replace, Credentials!plans, Credentials!given, Credentials!Ended
<1>2. ContractInv' /\ RevisionInv' /\ DeliveryInv'
  BY <1>1, ContractKept, RevisionKept, DeliveryKept DEF ContractInv
<1>3. CASE UNCHANGED <<cc_directory, cc_seen>>
  BY <1>1, <1>2, <1>3 DEF DirectoryInv, Credentials!Given
<1>4. CASE Credentials!Replace
  <2>1. PICK d \in cc_Directories :
            /\ cc_directory' = [identity |-> d, replaced |-> cc_directory.replaced + 1]
            /\ cc_seen' = IF cc_pc \in {"running", "ended"} THEN Append(cc_seen, d) ELSE cc_seen
    BY <1>4, Zenon DEF Credentials!Replace
  <2>2. cc_directory'.identity = d
    BY <2>1
  <2>3. Credentials!Given' = Credentials!Given
    BY <1>1 DEF Credentials!Given
  <2>4. cc_seen \in Seq(cc_Directories)
    BY DEF DirectoryInv
  <2>5. CASE cc_pc \in {"running", "ended"}
    <3>1. /\ cc_seen' \in Seq(cc_Directories) /\ cc_seen' # <<>> /\ cc_seen'[Len(cc_seen')] = d
          /\ cc_seen # <<>> => cc_seen'[1] = cc_seen[1]
      BY <2>1, <2>4, <2>5
    <3> QED
      BY <1>1, <1>2, <2>2, <2>3, <2>5, <3>1 DEF DirectoryInv
  <2>6. CASE cc_pc \notin {"running", "ended"}
    BY <1>1, <1>2, <2>1, <2>2, <2>3, <2>6 DEF DirectoryInv
  <2> QED
    BY <2>5, <2>6
<1> QED
  BY <1>3, <1>4 DEF Credentials!Revise, Credentials!Observe

\* Whatever fails, and for whatever reason, leaves nothing to be said of a command.
Failed == cc_pc' = "failed" /\ UNCHANGED <<cc_contract, cc_selection, cc_directory, cc_seen>>

\* What a failed call still does preserves the invariant.
LEMMA FailedStep ==
    ASSUME CredentialInv, Failed, cc_cause' = "uncompiled" => Credentials!AcceptedContractsCompile'
    PROVE  CredentialInv'
<1>1. ContractInv'
  BY ContractKept DEF CredentialInv, Failed, Planned, Filled
<1> QED
  BY <1>1 DEF CredentialInv, Failed, RevisionInv, DeliveryInv, DirectoryInv, Planned, Filled

\* A failure preserves the invariant.
LEMMA FailsStep ==
    ASSUME CredentialInv, NEW why, why # "uncompiled", Credentials!Fails(why)
    PROVE  CredentialInv'
BY FailedStep DEF Failed, Credentials!Fails, Credentials!plans

\* The contract stays valid as its call advances.
LEMMA ContractGoes ==
    ASSUME ContractInv, cc_pc # "failed", UNCHANGED <<cc_contract, cc_cause>>,
           cc_pc' \in Planned \cup {"select", "prepare"} =>
               cc_pc \in Planned \cup {"select", "prepare"} \/ Credentials!ValidContract(cc_contract)
    PROVE  ContractInv'
<1>1. cc_cause' # "uncompiled"
  BY DEF ContractInv
<1> QED
  BY <1>1 DEF ContractInv, Credentials!AcceptedContractsCompile

\* Before anything is filled in, nothing is delivered.
LEMMA EarlyKept ==
    ASSUME DirectoryInv, UNCHANGED <<cc_directory, cc_seen>>, cc_pc \notin Filled \cup {"failed"}, cc_pc' \notin Filled
    PROVE  DeliveryInv' /\ DirectoryInv'
BY DEF DirectoryInv, DeliveryInv, Filled

\* The validator and the compiler of injections agree.
LEMMA ValidCompiles ==
    ASSUME ContractInv, Credentials!ValidContract(cc_contract), ~Credentials!Compiles
    PROVE  \/ Credentials!Clashes
           \/ \E name \in Credentials!EnvironmentTargets(cc_contract) : cc_Fold[name] \in cc_Baseline
           \/ ~Credentials!IdentityKnown
<1> DEFINE injections == cc_contract.auth.injections
           bindings == cc_contract.auth.bindings
           used == Credentials!UsedSecrets(injections)
<1>1. Credentials!ValidInjections(cc_contract)
  BY DEF Credentials!ValidContract, Credentials!ValidAuth
<1>2. Credentials!Remote(cc_contract) => injections = <<>>
  BY <1>1 DEF Credentials!ValidInjections
<1>3. used = Credentials!Elements(bindings)
  <2>1. Credentials!Elements(bindings) \subseteq used
    BY <1>1 DEF Credentials!ValidInjections
  <2>2. \A i \in Credentials!Elements(injections) : i.source.kind = "secret" =>
            i.source.binding \in Credentials!Elements(bindings)
    BY <1>1 DEF Credentials!ValidInjections, Credentials!ValidSource
  <2>3. used \subseteq Credentials!Elements(bindings)
    BY <2>2 DEF Credentials!UsedSecrets
  <2> QED
    BY <2>1, <2>3
<1>4. CASE ~Credentials!TargetsCompile
  <2> DEFINE targets == [i \in DOMAIN injections |-> Credentials!Folded(injections[i].target)]
  <2>1. \/ \E i, j \in DOMAIN injections : targets[i] = targets[j] /\ i # j
        \/ \E i \in DOMAIN injections : targets[i].kind = "environment" /\ targets[i].name \in cc_Baseline
    BY <1>4 DEF Credentials!TargetsCompile, Credentials!auth
  <2>2. ASSUME NEW i \in DOMAIN injections, NEW j \in DOMAIN injections, targets[i] = targets[j], i # j
        PROVE  Credentials!Clashes
    <3>1. injections[i].target # injections[j].target
      BY <1>1, <2>2 DEF Credentials!ValidInjections, Credentials!DistinctTargets
    <3> QED
      BY <2>2, <3>1 DEF Credentials!Clashes, Credentials!Elements, Credentials!auth
  <2>3. ASSUME NEW i \in DOMAIN injections, targets[i].kind = "environment", targets[i].name \in cc_Baseline
        PROVE  \E name \in Credentials!EnvironmentTargets(cc_contract) : cc_Fold[name] \in cc_Baseline
    <3>1. injections[i].target.kind = "environment" /\ cc_Fold[injections[i].target.name] \in cc_Baseline
      BY <2>3 DEF Credentials!Folded
    <3>2. injections[i].target.name \in Credentials!EnvironmentTargets(cc_contract)
      BY <3>1 DEF Credentials!EnvironmentTargets, Credentials!Elements
    <3> QED
      BY <3>1, <3>2
  <2> QED
    BY <2>1, <2>2, <2>3
<1> QED
  BY <1>2, <1>3, <1>4 DEF Credentials!Compiles, Credentials!auth

\* Until there is a plan.
LEMMA ChoosingStep ==
    ASSUME CredentialInv, Credentials!Validate \/ Credentials!Select
    PROVE  CredentialInv'
<1> USE DEF CredentialInv, Credentials!Goes, Credentials!world, Credentials!plans, Credentials!given
<1>1. CASE Credentials!Validate
  <2>1. CASE Credentials!Fails("invalid")
    BY <2>1, FailsStep
  <2>2. CASE ~Credentials!Fails("invalid")
    BY <1>1, <2>2, ContractGoes, EarlyKept DEF Credentials!Validate, RevisionInv, Planned, Filled
  <2> QED
    BY <2>1, <2>2
<1>2. CASE Credentials!Select
  <2>1. CASE Credentials!Fails("selection")
    BY <2>1, FailsStep
  <2>2. CASE ~Credentials!Fails("selection")
    <3>1. /\ cc_pc = "select" /\ cc_pc' = "prepare"
          /\ UNCHANGED <<cc_contract, cc_cause, cc_directory, cc_seen, cc_environment, cc_io>>
      BY <1>2, <2>2 DEF Credentials!Select
    <3> QED
      BY <3>1, ContractGoes, EarlyKept DEF RevisionInv, Planned, Filled
  <2> QED
    BY <2>1, <2>2
<1> QED
  BY <1>1, <1>2

\* Planning preserves the invariant.
LEMMA PlanningStep ==
    ASSUME CredentialInv, Credentials!Prepare \/ Credentials!Compile
    PROVE  CredentialInv'
<1> USE DEF CredentialInv, Credentials!Goes, Credentials!world, Credentials!plans, Credentials!given
<1>1. CASE Credentials!Prepare
  <2>1. CASE Credentials!Fails("preparation")
    BY <2>1, FailsStep
  <2>2. CASE ~Credentials!Fails("preparation")
    <3>1. /\ cc_pc = "prepare" /\ cc_pc' = "compile" /\ cc_plan'.revision = cc_selection.revision
          /\ UNCHANGED <<cc_contract, cc_cause, cc_directory, cc_seen, cc_selection, cc_environment, cc_io>>
      BY <1>1, <2>2 DEF Credentials!Prepare
    <3>2. cc_environment = {} /\ cc_io = {}
      BY <3>1 DEF RevisionInv, Planned, Filled
    <3> QED
      BY <3>1, <3>2, ContractGoes, EarlyKept DEF RevisionInv, Planned, Filled
  <2> QED
    BY <2>1, <2>2
<1>2. CASE Credentials!Compile
  <2>1. CASE Credentials!Compiles
    <3>1. /\ cc_pc = "compile" /\ cc_pc' = "authorize"
          /\ UNCHANGED <<cc_contract, cc_cause, cc_directory, cc_seen, cc_selection, cc_plan, cc_authority, cc_environment, cc_io>>
      BY <1>2, <2>1 DEF Credentials!Compile
    <3> QED
      BY <3>1, ContractGoes, RevisionKept, EarlyKept DEF Planned, Filled
  <2>2. CASE ~Credentials!Compiles
    <3>1. cc_pc = "compile" /\ Credentials!Fails("uncompiled")
      BY <1>2, <2>2 DEF Credentials!Compile
    <3>2. Credentials!ValidContract(cc_contract)
      BY <3>1 DEF ContractInv, Planned
    <3>3. Credentials!AcceptedContractsCompile'
      BY <2>2, <3>1, <3>2, ValidCompiles DEF Credentials!AcceptedContractsCompile, Credentials!Fails, Credentials!Clashes,
         Credentials!IdentityKnown, Credentials!auth, Credentials!EnvironmentTargets
    <3> QED
      BY <3>1, <3>3, FailedStep DEF Failed, Credentials!Fails
  <2> QED
    BY <2>1, <2>2
<1> QED
  BY <1>1, <1>2

\* Resolving the bindings preserves the invariant.
LEMMA ResolvingStep ==
    ASSUME CredentialInv,
           Credentials!Authorize \/ (\E b \in Credentials!Bindings : Credentials!Provide(b)) \/ Credentials!Finish
    PROVE  CredentialInv'
<1> USE DEF CredentialInv, Credentials!Goes, Credentials!world, Credentials!plans, Credentials!given
<1>1. CASE \E why \in {"profile_not_ready", "missing_material"} : Credentials!Fails(why)
  BY <1>1, FailsStep
<1>2. CASE ~\E why \in {"profile_not_ready", "missing_material"} : Credentials!Fails(why)
  <2>1. /\ cc_pc \in {"authorize", "resolve"} /\ cc_pc' \in {"resolve", "materialize"}
        /\ UNCHANGED <<cc_contract, cc_cause, cc_directory, cc_seen, cc_selection, cc_plan, cc_environment, cc_io>>
    BY <1>2 DEF Credentials!Authorize, Credentials!Provide, Credentials!Finish
  <2>2. RevisionInv'
    BY <2>1 DEF RevisionInv, Planned, Filled
  <2> QED
    BY <2>1, <2>2, ContractGoes, EarlyKept DEF Planned, Filled
<1> QED
  BY <1>1, <1>2

\* Fetching the material preserves the invariant.
LEMMA MaterialStep ==
    ASSUME CredentialInv, Credentials!Begin
    PROVE  CredentialInv'
<1> USE DEF CredentialInv, Credentials!Goes, Credentials!world, Credentials!plans
<1>1. CASE Credentials!Fails("duplicate_baseline_value")
  BY <1>1, FailsStep
<1>2. CASE ~Credentials!Fails("duplicate_baseline_value")
  <2>1. /\ cc_pc = "materialize" /\ cc_pc' = "inject" /\ cc_todo' = cc_contract.auth.injections
        /\ cc_environment' = {Credentials!Entry(n, <<"fixed">>) : n \in cc_contract.environment \cup cc_Baseline}
        /\ cc_patterns' = {<<"secret", b>> : b \in cc_material}
        /\ cc_session' = (IF Credentials!NeedsSession THEN "live" ELSE "none")
        /\ UNCHANGED <<cc_contract, cc_cause, cc_directory, cc_seen, cc_selection, cc_plan, cc_authority, cc_material, cc_io>>
    BY <1>2 DEF Credentials!Begin, Credentials!auth
  <2>2. cc_io' = {}
    BY <2>1 DEF RevisionInv, Filled
  <2>3. \A item \in Credentials!Given' : item = <<"fixed">>
    BY <2>1, <2>2 DEF Credentials!Given, Credentials!Entry
  <2>4. ContractInv'
    BY <2>1, ContractGoes DEF Planned, Filled
  <2>5. RevisionInv'
    BY <2>1, <2>3 DEF RevisionInv, Planned, Filled
  <2>6. DeliveryInv'
    <3>1. cc_todo' \in Seq(Injections')
      BY <2>1, ContractsAssumed DEF ContractInv, Injections
    <3>2. Credentials!NeedsSession' => cc_session' = "live"
      BY <2>1 DEF Credentials!NeedsSession, Credentials!auth
    <3>3. \A item \in Credentials!Given' : Delivered(item)'
      BY <2>3 DEF Delivered
    <3> QED
      BY <2>1, <3>1, <3>2, <3>3 DEF DeliveryInv
  <2>7. DirectoryInv'
    BY <2>1 DEF DirectoryInv
  <2> QED
    BY <2>4, <2>5, <2>6, <2>7
<1> QED
  BY <1>1, <1>2

\* An injection that is made gives the command an item that is redacted, the
\* profile's directory only if it is still the one of the plan.
LEMMA InjectsStep ==
    ASSUME CredentialInv, cc_pc = "inject", NEW entries, NEW values, NEW found,
           cc_environment' = cc_environment \cup entries, cc_io' = cc_io \cup values,
           cc_patterns' = cc_patterns \cup found, cc_todo' \in Seq(Injections),
           UNCHANGED <<cc_contract, cc_cause, cc_directory, cc_seen, cc_selection, cc_plan, cc_authority,
                       cc_material, cc_session, cc_pc>>,
           \A e \in entries : Delivered(e.item)', \A v \in values : Delivered(v.item)',
           \A e \in entries \cup values : e.item = <<"profile">> =>
                cc_authority.revision = cc_plan.revision /\ Credentials!UsesProfile
    PROVE  CredentialInv'
<1> USE DEF CredentialInv
<1>1. Credentials!Given' = Credentials!Given \cup {e.item : e \in entries \cup values}
  BY DEF Credentials!Given
<1>2. ContractInv'
  BY ContractGoes
<1>3. RevisionInv'
  BY <1>1 DEF RevisionInv, Credentials!UsesProfile, Credentials!auth, Planned, Filled
<1>4. DeliveryInv'
  <2>1. \A item \in Credentials!Given' : Delivered(item)'
    <3>1. \A item \in Credentials!Given : Delivered(item)'
      BY DEF DeliveryInv, Delivered
    <3> QED
      BY <1>1, <3>1
  <2> QED
    BY <2>1 DEF DeliveryInv, Injections, Credentials!NeedsSession, Credentials!auth
<1>5. DirectoryInv'
  BY DEF DirectoryInv
<1> QED
  BY <1>2, <1>3, <1>4, <1>5

\* Injecting it preserves the invariant.
LEMMA InjectStep ==
    ASSUME CredentialInv, Credentials!Inject
    PROVE  CredentialInv'
<1> SUFFICES ASSUME NEW i, i = Head(cc_todo)
             PROVE  CredentialInv'
  OBVIOUS
<1> DEFINE item == Credentials!Item(i.source)
           name == i.target.name
           found == IF item[1] = "profile" THEN {item} ELSE {}
<1>1. cc_pc = "inject" /\ i \in Injections /\ Tail(cc_todo) \in Seq(Injections)
  BY DEF Credentials!Inject, CredentialInv, DeliveryInv
<1>2. CASE Credentials!Fails("profile_directory") \/ Credentials!Fails("baseline_mismatch")
  BY <1>2, FailsStep
<1>3. CASE Credentials!Skips(i) /\ ~(Credentials!Fails("profile_directory") \/ Credentials!Fails("baseline_mismatch"))
  <2>1. /\ cc_todo' = Tail(cc_todo)
        /\ UNCHANGED <<cc_contract, cc_cause, cc_directory, cc_seen, cc_selection, cc_plan, cc_authority,
                       cc_material, cc_session, cc_pc, cc_environment, cc_io, cc_patterns>>
    BY <1>3 DEF Credentials!Inject, Credentials!world, Credentials!plans
  <2>2. ContractInv' /\ RevisionInv'
    BY <1>1, <2>1, ContractGoes, RevisionKept DEF CredentialInv
  <2>3. DeliveryInv' /\ DirectoryInv'
    BY <1>1, <2>1 DEF CredentialInv, DeliveryInv, Delivered, DirectoryInv, Injections, Credentials!Given,
       Credentials!NeedsSession, Credentials!auth
  <2> QED
    BY <2>2, <2>3 DEF CredentialInv
<1>4. CASE ~Credentials!Skips(i) /\ ~(Credentials!Fails("profile_directory") \/ Credentials!Fails("baseline_mismatch"))
  <2>1. Credentials!Makes(i) /\ (i.source.kind = "profile_auth_root" => Credentials!ProfileResolves)
    BY <1>4 DEF Credentials!Inject
  <2>2. Credentials!DeclarableInjection(i)
    BY <1>1, ContractsAssumed DEF CredentialInv, ContractInv, Injections, Credentials!Declarable
  <2>3. /\ i.source.kind \in {"secret", "profile_auth_root"} \/ item \in {<<"alias">>, <<"identity">>}
        /\ i.source.kind = "secret" => item = <<"secret", i.source.binding>> /\ i.source.binding \in cc_material
        /\ i.source.kind = "profile_auth_root" => item = <<"profile">>
        /\ item[1] = "profile" => item = <<"profile">> /\ i.source.kind = "profile_auth_root"
    BY <1>4, <2>2 DEF Credentials!DeclarableInjection, Credentials!Item, Credentials!Skips
  <2>4. Credentials!ValidTarget(cc_contract, i)
    BY <1>1 DEF CredentialInv, ContractInv, Injections, Planned, Filled, Credentials!ValidContract, Credentials!ValidAuth,
       Credentials!ValidInjections
  <2>5. ASSUME NEW entries, NEW values, NEW more, Credentials!Injects(entries, values, more),
               \A e \in entries \cup values : Delivered(e.item)' /\ e.item \in {item, <<"session", name>>}
        PROVE  CredentialInv'
    <3>1. /\ cc_environment' = cc_environment \cup entries /\ cc_io' = cc_io \cup values
          /\ cc_patterns' = cc_patterns \cup more /\ cc_todo' = Tail(cc_todo)
          /\ UNCHANGED <<cc_contract, cc_cause, cc_directory, cc_seen, cc_selection, cc_plan, cc_authority,
                         cc_material, cc_session, cc_pc>>
      BY <2>5 DEF Credentials!Injects, Credentials!world, Credentials!plans
    <3>2. \A e \in entries \cup values : e.item = <<"profile">> => i.source.kind = "profile_auth_root"
      BY <2>3, <2>5
    <3>3. i.source.kind = "profile_auth_root" =>
            cc_authority.revision = cc_plan.revision /\ Credentials!UsesProfile
      BY <1>1, <2>1 DEF Credentials!ProfileResolves, Credentials!MayResolve, Credentials!UsesProfile, Credentials!auth, Injections
    <3> HIDE DEF item, name, found
    <3> QED
      BY <1>1, <2>5, <3>1, <3>2, <3>3, InjectsStep
  <2>6. /\ i.source.kind = "secret" => item \in cc_patterns
        /\ cc_pc' = "inject" /\ UNCHANGED <<cc_material, cc_session>> /\ cc_patterns \subseteq cc_patterns'
    BY <1>1, <2>1, <2>3 DEF CredentialInv, DeliveryInv, Credentials!Makes, Credentials!Injects, Credentials!plans
  <2>7. /\ i.source.kind # "profile_auth_root" \/ item \in cc_patterns' => Delivered(item)'
        /\ cc_session = "live" => Delivered(<<"session", name>>)'
    BY <2>3, <2>6 DEF Delivered
  <2>8. CASE i.target.kind = "environment"
    <3>1. Credentials!Injects({Credentials!Entry(name, item)}, {}, found)
      BY <2>1, <2>8 DEF Credentials!Makes
    <3>2. Delivered(item)'
      BY <2>3, <2>7, <3>1 DEF Credentials!Injects
    <3> HIDE DEF item, name, found
    <3> QED
      BY <2>5, <3>1, <3>2 DEF Credentials!Entry
  <2>9. CASE i.target.kind \in {"stdin", "scoped_file"}
    <3>1. i.source.kind = "secret"
      BY <2>4, <2>9 DEF Credentials!ValidTarget
    <3>2. \E where, more : Credentials!Injects({}, {Credentials!Value(where, item)}, more)
      BY <2>1, <2>9 DEF Credentials!Makes
    <3>3. Delivered(item)'
      BY <2>7, <3>1
    <3> HIDE DEF item, name, found
    <3> QED
      BY <2>5, <3>2, <3>3 DEF Credentials!Value
  <2>10. CASE i.target.kind = "config_directory" /\ i.source.kind = "profile_auth_root"
    <3>1. Credentials!Injects({}, {Credentials!Value(<<"config", name>>, item)}, found)
      BY <2>1, <2>3, <2>10 DEF Credentials!Makes
    <3>2. Delivered(item)'
      BY <2>3, <2>7, <2>10, <3>1 DEF Credentials!Injects
    <3> HIDE DEF item, name, found
    <3> QED
      BY <2>5, <3>1, <3>2 DEF Credentials!Value
  <2>11. CASE i.target.kind = "config_directory" /\ i.source.kind # "profile_auth_root"
    <3>1. i.source.kind = "secret"
      BY <2>4, <2>11 DEF Credentials!ValidTarget
    <3>2. cc_session = "live"
      BY <1>1, <2>11, <3>1 DEF CredentialInv, DeliveryInv, Injections, Credentials!NeedsSession, Credentials!auth
    <3>3. Credentials!Injects({Credentials!Entry(name, <<"session", name>>)},
                              {Credentials!Value(<<"session", name, "config.json">>, item)}, {})
      BY <2>1, <2>3, <2>11, <3>1 DEF Credentials!Makes
    <3>4. Delivered(item)' /\ Delivered(<<"session", name>>)'
      BY <2>7, <3>1, <3>2
    <3> HIDE DEF item, name, found
    <3> QED
      BY <2>5, <3>3, <3>4 DEF Credentials!Entry, Credentials!Value
  <2> QED
    BY <2>2, <2>8, <2>9, <2>10, <2>11 DEF Credentials!DeclarableInjection
<1> QED
  BY <1>2, <1>3, <1>4

\* What is sealed has the path of its session among the patterns.
LEMMA SealStep ==
    ASSUME CredentialInv, Credentials!Seal
    PROVE  CredentialInv'
<1>0. CASE Credentials!Fails("profile_directory")
  BY <1>0, FailsStep
<1> SUFFICES ASSUME ~Credentials!Fails("profile_directory") PROVE CredentialInv'
  BY <1>0
<1>1. /\ cc_pc = "inject" /\ cc_pc' = "seal" /\ cc_patterns \subseteq cc_patterns'
      /\ cc_session = "live" => <<"session">> \in cc_patterns'
      /\ UNCHANGED <<cc_contract, cc_cause, cc_directory, cc_seen, cc_selection, cc_plan, cc_authority,
                     cc_material, cc_session, cc_environment, cc_io>>
  BY DEF Credentials!Seal, Credentials!Goes, Credentials!LastPatterns, Credentials!SessionPattern, Credentials!world,
     Credentials!plans
<1>2. ContractInv'
  BY <1>1, ContractGoes DEF CredentialInv, Planned, Filled
<1>3. RevisionInv'
  BY <1>1, RevisionKept DEF CredentialInv, Planned, Filled
<1>4. DeliveryInv'
  BY <1>1 DEF CredentialInv, DeliveryInv, Delivered, Credentials!Given
<1>5. DirectoryInv'
  BY <1>1, DirectoryKept DEF CredentialInv, DirectoryInv
<1> QED
  BY <1>2, <1>3, <1>4, <1>5 DEF CredentialInv

\* The directory that was authorized is looked for before the command starts and
\* after it has ended.
LEMMA RunStep ==
    ASSUME CredentialInv, Credentials!Dispatch \/ Credentials!CommandEnds \/ Credentials!Return
    PROVE  CredentialInv'
<1> DEFINE Goes(from, to) ==
        /\ cc_pc = from /\ cc_pc' = to
        /\ UNCHANGED <<cc_contract, cc_cause, cc_selection, cc_plan, cc_authority,
                       cc_material, cc_todo, cc_environment, cc_io, cc_patterns>>
<1>1. CASE \E why \in {"profile_directory", "environment"} : Credentials!Fails(why)
  BY <1>1, FailsStep
<1>2. CASE Credentials!Return /\ cc_pc' = "failed"
  BY <1>2, FailedStep DEF Failed, Credentials!Return, Credentials!Fails, Credentials!Goes, Credentials!world,
     Credentials!plans
<1>3. ASSUME NEW from \in {"seal", "running", "ended"}, NEW to \in {"running", "ended", "ok"}, Goes(from, to),
             from = "seal" => to = "running" /\ UNCHANGED cc_session, from # "seal" => to # "running"
      PROVE  ContractInv' /\ RevisionInv' /\ DeliveryInv'
  <2>1. ContractInv'
    BY <1>3, ContractGoes DEF CredentialInv, Planned, Filled
  <2>2. RevisionInv'
    BY <1>3, RevisionKept DEF CredentialInv, Planned, Filled
  <2>3. DeliveryInv'
    BY <1>3 DEF CredentialInv, DeliveryInv, Delivered, Credentials!Given
  <2> QED
    BY <2>1, <2>2, <2>3
<1>4. CASE /\ Credentials!Dispatch /\ Credentials!Revalidated /\ UNCHANGED <<cc_session, cc_directory>>
           /\ cc_seen' = <<cc_directory.identity>> /\ Goes("seal", "running")
  <2>1. cc_seen' \in Seq(cc_Directories) /\ cc_seen' # <<>> /\ Len(cc_seen') = 1 /\ cc_seen'[1] = cc_directory.identity
    BY <1>4 DEF CredentialInv, DirectoryInv
  <2>2. <<"profile">> \in Credentials!Given => cc_authority.directory = cc_directory.identity
    BY <1>4 DEF CredentialInv, RevisionInv, Filled, Credentials!Revalidated, Credentials!Found
  <2>3. DirectoryInv'
    BY <1>4, <2>1, <2>2 DEF CredentialInv, DirectoryInv, Credentials!Given
  <2> QED
    BY <1>3, <1>4, <2>3 DEF CredentialInv
<1>5. CASE Goes("running", "ended") /\ UNCHANGED <<cc_directory, cc_seen>>
  <2>1. DirectoryInv'
    BY <1>5 DEF CredentialInv, DirectoryInv, Credentials!Given
  <2> QED
    BY <1>3, <1>5, <2>1 DEF CredentialInv
<1>6. CASE Goes("ended", "ok") /\ Credentials!Revalidated /\ UNCHANGED <<cc_directory, cc_seen>>
  <2>1. <<"profile">> \in Credentials!Given => cc_authority.directory = cc_directory.identity
    BY <1>6 DEF CredentialInv, RevisionInv, Filled, Credentials!Revalidated, Credentials!Found
  <2>2. DirectoryInv'
    BY <1>6, <2>1 DEF CredentialInv, DirectoryInv, Credentials!Given
  <2> QED
    BY <1>3, <1>6, <2>2 DEF CredentialInv
<1> QED
  BY <1>1, <1>2, <1>4, <1>5, <1>6 DEF Credentials!Dispatch, Credentials!CommandEnds, Credentials!Return, Credentials!Goes,
     Credentials!StillThere, Credentials!world, Credentials!plans, Credentials!given

\* A call starts within the invariant.
LEMMA CredentialStarts == Credentials!Init => CredentialInv
<1> SUFFICES ASSUME Credentials!Init PROVE CredentialInv
  OBVIOUS
<1>1. (CHOOSE d \in cc_Directories : TRUE) \in cc_Directories
  BY ComponentAssumption DEF Credentials!CallAssumption
<1>2. cc_directory.identity \in cc_Directories
  BY <1>1 DEF Credentials!Init
<1>3. cc_seen \in Seq(cc_Directories) /\ cc_pc = "contract"
  BY DEF Credentials!Init
<1> QED
  BY <1>2, <1>3 DEF Credentials!Init, CredentialInv, ContractInv, RevisionInv, DeliveryInv, DirectoryInv, Planned,
     Filled, Credentials!AcceptedContractsCompile

\* Every step of a call preserves it.
LEMMA CredentialStep ==
    ASSUME CredentialInv, [Credentials!Next]_(Credentials!vars)
    PROVE  CredentialInv'
<1>1. CASE UNCHANGED Credentials!vars
  <2>1. UNCHANGED <<cc_contract, cc_registry, cc_directory, cc_faults, cc_pc, cc_cause, cc_selection, cc_plan, cc_authority,
                    cc_material, cc_todo, cc_environment, cc_io, cc_patterns, cc_session, cc_seen>>
    BY <1>1 DEF Credentials!vars, Credentials!world, Credentials!plans, Credentials!given
  <2>2. DirectoryInv'
    BY <2>1 DEF CredentialInv, DirectoryInv, Credentials!Given
  <2> QED
    BY <2>1, <2>2, ContractKept, RevisionKept, DeliveryKept DEF CredentialInv, ContractInv
<1>2. CASE Credentials!FileSystemFails
  BY <1>2, FailedStep DEF Failed, Credentials!FileSystemFails, Credentials!plans
<1> QED
  BY <1>1, <1>2, OthersStep, ChoosingStep, PlanningStep, ResolvingStep, MaterialStep, InjectStep, SealStep, RunStep
  DEF Credentials!Next

\* Within the invariant, nothing that is delivered shows a secret.
LEMMA DeliveredShowsNothing ==
    ASSUME CredentialInv
    PROVE  Credentials!DeliveredIsRedacted
<1> SUFFICES ASSUME cc_pc = "running", NEW item \in Credentials!Given, Credentials!Sensitive(item)
             PROVE  \E p \in cc_patterns : Credentials!IsPrefix(p, item)
  BY DEF Credentials!DeliveredIsRedacted
<1>1. Delivered(item)
  BY DEF CredentialInv, DeliveryInv
<1>2. item[1] \in {"secret", "profile", "session"}
  BY DEF Credentials!Sensitive
<1>3. ASSUME NEW b, item = <<"secret", b>>
      PROVE  Credentials!IsPrefix(item, item)
  BY <1>3 DEF Credentials!IsPrefix
<1>4. ASSUME item = <<"profile">>
      PROVE  Credentials!IsPrefix(item, item)
  BY <1>4 DEF Credentials!IsPrefix
<1>5. ASSUME NEW n
      PROVE  Credentials!IsPrefix(<<"session">>, <<"session", n>>)
  BY DEF Credentials!IsPrefix
<1> QED
  BY <1>1, <1>2, <1>3, <1>4, <1>5 DEF Delivered

\* A command is given the path of the profile that was selected, at the revision it
\* was selected with; where the call succeeds, the directory there had the identity
\* that was authorized at the looks before and after the command, with directories
\* that come back and identities that are used again, and nothing is claimed of what
\* was there in between; everything the command gets is redacted, and what the
\* validator accepted the compiler of injections accepts (resolve, dispatch,
\* materialize_credential_io_inner).
THEOREM CredentialsStayAsSelected == Credentials!Spec => []CredentialsAreAsSelected
<1>1. CredentialInv => CredentialsAreAsSelected
  <2> SUFFICES ASSUME CredentialInv PROVE CredentialsAreAsSelected
    OBVIOUS
  <2>1. Credentials!OneProfileThroughout
    BY DEF CredentialInv, RevisionInv, DirectoryInv, Planned, Filled, Credentials!OneProfileThroughout
  <2> QED
    BY <2>1, DeliveredShowsNothing DEF CredentialInv, ContractInv, CredentialsAreAsSelected
<1>2. CredentialInv /\ [Credentials!Next]_(Credentials!vars) => CredentialInv'
  BY CredentialStep
<1> QED
  BY <1>1, <1>2, CredentialStarts, PTL DEF Credentials!Spec

-----------------------------------------------------------------------------
(* What is asked, approved and recorded of one call.                       *)

AuthorizedInv ==
    /\ ac_invocation \in ac_Invocations /\ ac_issued \in ac_Invocations
    /\ ac_phase \in {"entry", "authorize"} => ac_accepted = {}
    /\ ac_phase \in {"authorized", "execute"} => ac_accepted # {}
    /\ Authorized!ApprovalIsForThisCall /\ Authorized!ReceiptTellsOneStory

\* What is assumed of invocations and evidence.
LEMMA CallsAssumed ==
    /\ \A i \in ac_Invocations :
          /\ i.prefix \in Seq(STRING) /\ i.arguments \in Seq(STRING) /\ i.directory \in Seq(STRING)
          /\ \A v, w \in i.memory : v = w
          /\ \A v, w \in i.stdin : v = w
    /\ \A e \in ac_Evidence : "digest" \in DOMAIN e
BY ComponentAssumption DEF Authorized!CallsAssumption

\* Where two texts are the same and their beginnings are of one length, their
\* beginnings are the same, and so are their rests.
LEMMA SameSplit ==
    ASSUME NEW S, NEW a \in Seq(S), NEW b \in Seq(S), NEW c \in Seq(S), NEW d \in Seq(S),
           Len(a) = Len(c), a \o b = c \o d
    PROVE  a = c /\ b = d
<1>1. /\ Len(a \o b) = Len(a) + Len(b)
      /\ \A i \in 1..Len(a) + Len(b) : (a \o b)[i] = IF i <= Len(a) THEN a[i] ELSE b[i - Len(a)]
  BY ConcatProperties
<1>2. /\ Len(c \o d) = Len(c) + Len(d)
      /\ \A i \in 1..Len(c) + Len(d) : (c \o d)[i] = IF i <= Len(c) THEN c[i] ELSE d[i - Len(c)]
  BY ConcatProperties
<1> PICK n \in Nat : n = Len(a) /\ n = Len(c)
  BY LenProperties
<1>3. n \in Nat /\ Len(b) \in Nat /\ Len(d) \in Nat /\ Len(b) = Len(d)
  BY <1>1, <1>2, LenProperties
<1>4. \A i \in 1..n : a[i] = c[i]
  <2> TAKE i \in 1..n
  <2>1. (a \o b)[i] = a[i] /\ (c \o d)[i] = c[i]
    BY <1>1, <1>2, <1>3
  <2> QED
    BY <2>1
<1>5. a = c
  BY <1>4, SeqEqual
<1>6. a \o b = a \o d
  BY <1>5
<1> QED
  BY <1>5, <1>6, ConcatSimplifications

\* The items of a digest, for words of a set.
Items(W) == {Authorized!Number(n) : n \in Nat} \cup {Authorized!Word(w) : w \in W}

\* The words of a list are items, one of each.
LEMMA WordsAreItems ==
    ASSUME NEW W, NEW x \in Seq(W)
    PROVE  /\ Authorized!Words(x) \in Seq(Items(W)) /\ Len(Authorized!Words(x)) = Len(x)
           /\ \A k \in 1..Len(x) : Authorized!Words(x)[k] = Authorized!Word(x[k])
<1>1. Authorized!Words(x) = [k \in 1..Len(x) |-> Authorized!Word(x[k])]
  BY DEF Authorized!Words
<1>2. \A k \in 1..Len(x) : Authorized!Word(x[k]) \in Items(W)
  BY DEF Items
<1> QED
  BY <1>1, <1>2

\* Lists whose words are the same are the same.
LEMMA SameWords ==
    ASSUME NEW W, NEW x \in Seq(W), NEW y \in Seq(W), Authorized!Words(x) = Authorized!Words(y)
    PROVE  x = y
<1>1. Len(x) = Len(y)
  BY WordsAreItems
<1>2. \A k \in 1..Len(x) : x[k] = y[k]
  <2> TAKE k \in 1..Len(x)
  <2>1. Authorized!Words(x)[k] = Authorized!Word(x[k])
    BY WordsAreItems
  <2>2. Authorized!Words(y)[k] = Authorized!Word(y[k])
    BY <1>1, WordsAreItems
  <2> QED
    BY <2>1, <2>2 DEF Authorized!Word
<1> QED
  BY <1>1, <1>2, SeqEqual

\* A list says how long it is: where two are followed by something and the whole is
\* the same, the lists are the same, and so is what follows.
LEMMA SameLists ==
    ASSUME NEW W, NEW x \in Seq(W), NEW y \in Seq(W), NEW r \in Seq(Items(W)), NEW s \in Seq(Items(W)),
           Authorized!HashStrings(x) \o r = Authorized!HashStrings(y) \o s
    PROVE  x = y /\ r = s
<1> DEFINE I == Items(W)
           a == <<Authorized!Number(Len(x))>>
           b == <<Authorized!Number(Len(y))>>
           u == Authorized!Words(x)
           v == Authorized!Words(y)
<1>1. a \in Seq(I) /\ b \in Seq(I) /\ Len(a) = 1 /\ Len(b) = 1
  <2>1. Authorized!Number(Len(x)) \in I /\ Authorized!Number(Len(y)) \in I
    BY LenProperties DEF Items
  <2> HIDE DEF I
  <2> QED
    BY <2>1
<1>2. u \in Seq(I) /\ v \in Seq(I) /\ Len(u) = Len(x) /\ Len(v) = Len(y)
  BY WordsAreItems
<1>3. (a \o u) \o r = (b \o v) \o s
  BY DEF Authorized!HashStrings, Authorized!HashCounted
<1>4. a[1] = Authorized!Number(Len(x)) /\ b[1] = Authorized!Number(Len(y))
  OBVIOUS
<1> HIDE DEF I, a, b, u, v
<1>5. r \in Seq(I) /\ s \in Seq(I)
  BY DEF I
<1>assoc. \A p, q, t \in Seq(I) : (p \o q) \o t = p \o (q \o t)
  <2> TAKE p \in Seq(I), q \in Seq(I), t \in Seq(I)
  <2> QED
    BY ConcatAssociative, SMTT(60)
<1>split. \A p, q, t, w \in Seq(I) : Len(p) = Len(t) /\ p \o q = t \o w => p = t /\ q = w
  <2> TAKE p \in Seq(I), q \in Seq(I), t \in Seq(I), w \in Seq(I)
  <2> QED
    BY SameSplit, ZenonT(60)
<1>6. (a \o u) \o r = a \o (u \o r)
  BY <1>1, <1>2, <1>5, <1>assoc, Zenon
<1>7. (b \o v) \o s = b \o (v \o s)
  BY <1>1, <1>2, <1>5, <1>assoc, Zenon
<1> DEFINE ur == u \o r
           vs == v \o s
<1>8. a = b /\ ur = vs
  <2>1. ur \in Seq(I)
    BY <1>2, <1>5, ConcatProperties
  <2>2. vs \in Seq(I)
    BY <1>2, <1>5, ConcatProperties
  <2>3. a \o ur = b \o vs
    BY <1>3, <1>6, <1>7
  <2>4. Len(a) = Len(b)
    BY <1>1
  <2> HIDE DEF ur, vs
  <2> QED
    BY <1>1, <2>1, <2>2, <2>3, <2>4, <1>split, Zenon
<1>9. Len(x) = Len(y)
  BY <1>4, <1>8 DEF Authorized!Number
<1>10. u = v /\ r = s
  <2>1. Len(u) = Len(v) /\ u \o r = v \o s
    BY <1>2, <1>8, <1>9
  <2> QED
    BY <1>2, <1>5, <2>1, <1>split, Zenon
<1> QED
  BY <1>10, SameWords DEF u, v

\* An option says whether it has a value.
LEMMA SameOptions ==
    ASSUME NEW W, NEW m \in SUBSET W, NEW n \in SUBSET W, \A v, w \in m : v = w, \A v, w \in n : v = w,
           NEW r \in Seq(Items(W)), NEW s \in Seq(Items(W)),
           Authorized!HashOption(m) \o r = Authorized!HashOption(n) \o s
    PROVE  m = n /\ r = s
<1> DEFINE I == Items(W)
           a == Authorized!HashOption(m)
           b == Authorized!HashOption(n)
<1>1. r \in Seq(I) /\ s \in Seq(I)
  OBVIOUS
<1>2. /\ a \in Seq(I) /\ Len(a) = (IF m = {} THEN 1 ELSE 2) /\ a[1] = Authorized!Number(IF m = {} THEN 0 ELSE 1)
      /\ m # {} => a[2] = Authorized!Word(CHOOSE v \in m : TRUE)
  <2>1. Authorized!Number(0) \in I /\ Authorized!Number(1) \in I /\ \A w \in m : Authorized!Word(w) \in I
    BY DEF Items
  <2> HIDE DEF I
  <2> QED
    BY <2>1 DEF Authorized!HashOption
<1>3. /\ b \in Seq(I) /\ Len(b) = (IF n = {} THEN 1 ELSE 2) /\ b[1] = Authorized!Number(IF n = {} THEN 0 ELSE 1)
      /\ n # {} => b[2] = Authorized!Word(CHOOSE v \in n : TRUE)
  <2>1. Authorized!Number(0) \in I /\ Authorized!Number(1) \in I /\ \A w \in n : Authorized!Word(w) \in I
    BY DEF Items
  <2> HIDE DEF I
  <2> QED
    BY <2>1 DEF Authorized!HashOption
<1> HIDE DEF I, a, b
<1>4. a \o r = b \o s
  BY DEF a, b
<1>5. (a \o r)[1] = a[1] /\ (b \o s)[1] = b[1]
  <2>1. Len(r) \in Nat /\ Len(s) \in Nat
    BY <1>1, LenProperties
  <2> QED
    BY <1>1, <1>2, <1>3, <2>1, ConcatProperties
<1>6. m = {} <=> n = {}
  BY <1>2, <1>3, <1>4, <1>5 DEF Authorized!Number
<1>7. a = b /\ r = s
  BY <1>1, <1>2, <1>3, <1>4, <1>6, SameSplit
<1>8. m = n
  <2>1. CASE m # {}
    <3>1. (CHOOSE v \in m : TRUE) = (CHOOSE v \in n : TRUE)
      BY <1>2, <1>3, <1>6, <1>7, <2>1 DEF Authorized!Word
    <3>2. (CHOOSE v \in m : TRUE) \in m /\ (CHOOSE v \in n : TRUE) \in n
      BY <1>6, <2>1
    <3>3. m = {CHOOSE v \in m : TRUE} /\ n = {CHOOSE v \in n : TRUE}
      BY <3>2
    <3> QED
      BY <3>1, <3>3
  <2> QED
    BY <1>6, <2>1
<1> QED
  BY <1>7, <1>8

\* Three texts one after the other, whichever two are joined first.
LEMMA JoinedEitherWay ==
    \A S : \A p, q, t \in Seq(S) : (p \o q) \o t = p \o (q \o t)
<1> TAKE S
<1> TAKE p \in Seq(S), q \in Seq(S), t \in Seq(S)
<1> QED
  BY ConcatAssociative, SMTT(60)

\* What a digest holds from one place on.
FromStdin(i) == Authorized!HashOption(i.stdin)
FromMemory(i) == Authorized!HashOption(i.memory) \o FromStdin(i)
FromInteraction(i) == Authorized!Words(<<i.interaction, i.limits>>) \o FromMemory(i)
FromDirectory(i) == Authorized!HashStrings(i.directory) \o FromInteraction(i)
FromArguments(i) == Authorized!HashStrings(i.arguments) \o FromDirectory(i)
FromPrefix(i) == Authorized!HashStrings(i.prefix) \o FromArguments(i)
FromContract(i) == Authorized!Words(<<i.contract, i.plan, i.executable>>) \o FromPrefix(i)

\* The words of a call.
Vocabulary(i) ==
    STRING \cup {i[f] : f \in Authorized!Shown} \cup i.memory \cup i.stdin

\* A list is hashed as a sequence of items.
LEMMA ListsAreItems ==
    ASSUME NEW W, NEW x \in Seq(W)
    PROVE  Authorized!HashStrings(x) \in Seq(Items(W))
<1> DEFINE a == <<Authorized!Number(Len(x))>>
<1>1. a \in Seq(Items(W))
  <2>1. Authorized!Number(Len(x)) \in Items(W)
    BY LenProperties DEF Items
  <2> QED
    BY <2>1
<1>2. Authorized!Words(x) \in Seq(Items(W))
  BY WordsAreItems
<1> HIDE DEF a
<1>3. a \o Authorized!Words(x) \in Seq(Items(W))
  BY <1>1, <1>2, ConcatProperties
<1> QED
  BY <1>3 DEF a, Authorized!HashStrings, Authorized!HashCounted

\* So is an option.
LEMMA OptionsAreItems ==
    ASSUME NEW W, NEW m \in SUBSET W
    PROVE  Authorized!HashOption(m) \in Seq(Items(W))
<1>1. /\ Authorized!Number(0) \in Items(W) /\ Authorized!Number(1) \in Items(W)
      /\ \A w \in m : Authorized!Word(w) \in Items(W)
  BY DEF Items
<1> QED
  BY <1>1 DEF Authorized!HashOption

\* The fields of a call and the words they are made of.
LEMMA CallWords ==
    ASSUME NEW i \in ac_Invocations, NEW W, Vocabulary(i) \subseteq W
    PROVE  /\ Authorized!Context(i) \in Seq(W) /\ Len(Authorized!Context(i)) = 3
           /\ <<i.contract, i.plan, i.executable>> \in Seq(W)
           /\ <<i.interaction, i.limits>> \in Seq(W)
           /\ i.prefix \in Seq(W) /\ i.arguments \in Seq(W) /\ i.directory \in Seq(W)
           /\ i.memory \in SUBSET W /\ i.stdin \in SUBSET W
<1>1. STRING \subseteq W /\ i.memory \subseteq W /\ i.stdin \subseteq W
      /\ \A f \in Authorized!Shown : i[f] \in W
  BY DEF Vocabulary
<1>2. /\ i.call \in W /\ i.capability \in W /\ i.action \in W /\ i.contract \in W /\ i.plan \in W
      /\ i.executable \in W /\ i.interaction \in W /\ i.limits \in W
  BY <1>1 DEF Authorized!Shown
<1>3. i.prefix \in Seq(STRING) /\ i.arguments \in Seq(STRING) /\ i.directory \in Seq(STRING)
  BY CallsAssumed
<1>4. \A x \in Seq(STRING) : x \in Seq(W)
  BY <1>1, SeqMonotonic
<1> QED
  BY <1>1, <1>2, <1>3, <1>4 DEF Authorized!Context

\* A digest is the words of its context and then the parts of its contract.
LEMMA DigestParts ==
    ASSUME NEW i \in ac_Invocations, NEW W, Vocabulary(i) \subseteq W
    PROVE  /\ FromStdin(i) \in Seq(Items(W)) /\ FromMemory(i) \in Seq(Items(W))
           /\ FromInteraction(i) \in Seq(Items(W)) /\ FromDirectory(i) \in Seq(Items(W))
           /\ FromArguments(i) \in Seq(Items(W)) /\ FromPrefix(i) \in Seq(Items(W))
           /\ FromContract(i) \in Seq(Items(W))
           /\ Authorized!RequestDigest(i) = Authorized!Words(Authorized!Context(i)) \o FromContract(i)
<1> DEFINE I == Items(W)
           a == Authorized!Words(Authorized!Context(i))
           b == Authorized!Words(<<i.contract, i.plan, i.executable>>)
           c == Authorized!HashStrings(i.prefix)
           d == Authorized!HashStrings(i.arguments)
           e == Authorized!HashStrings(i.directory)
           f == Authorized!Words(<<i.interaction, i.limits>>)
           g == Authorized!HashOption(i.memory)
           h == Authorized!HashOption(i.stdin)
<1>assoc. \A p, q, t \in Seq(I) : (p \o q) \o t = p \o (q \o t)
  BY JoinedEitherWay
<1>join. \A p, q \in Seq(I) : p \o q \in Seq(I)
  BY ConcatProperties
<1>a. a \in Seq(I)
  BY CallWords, WordsAreItems
<1>b. b \in Seq(I)
  BY CallWords, WordsAreItems
<1>c. c \in Seq(I)
  BY CallWords, ListsAreItems
<1>d. d \in Seq(I)
  BY CallWords, ListsAreItems
<1>e. e \in Seq(I)
  BY CallWords, ListsAreItems
<1>f. f \in Seq(I)
  BY CallWords, WordsAreItems
<1>g. g \in Seq(I)
  BY CallWords, OptionsAreItems
<1>h. h \in Seq(I)
  BY CallWords, OptionsAreItems
<1> HIDE DEF I, a, b, c, d, e, f, g, h
<1>fs. FromStdin(i) \in Seq(I)
  BY <1>h DEF FromStdin, h
<1>fm. FromMemory(i) \in Seq(I)
  BY <1>g, <1>fs, <1>join, Zenon DEF FromMemory, g
<1>fi. FromInteraction(i) \in Seq(I)
  BY <1>f, <1>fm, <1>join, Zenon DEF FromInteraction, f
<1>fd. FromDirectory(i) \in Seq(I)
  BY <1>e, <1>fi, <1>join, Zenon DEF FromDirectory, e
<1>fa. FromArguments(i) \in Seq(I)
  BY <1>d, <1>fd, <1>join, Zenon DEF FromArguments, d
<1>fp. FromPrefix(i) \in Seq(I)
  BY <1>c, <1>fa, <1>join, Zenon DEF FromPrefix, c
<1>fc. FromContract(i) \in Seq(I)
  BY <1>b, <1>fp, <1>join, Zenon DEF FromContract, b
<1>ab. a \o b \in Seq(I)
  BY <1>a, <1>b, <1>join, Zenon
<1>abc. a \o b \o c \in Seq(I)
  BY <1>ab, <1>c, <1>join, Zenon
<1>abcd. a \o b \o c \o d \in Seq(I)
  BY <1>abc, <1>d, <1>join, Zenon
<1>abcde. a \o b \o c \o d \o e \in Seq(I)
  BY <1>abcd, <1>e, <1>join, Zenon
<1>abcdef. a \o b \o c \o d \o e \o f \in Seq(I)
  BY <1>abcde, <1>f, <1>join, Zenon
<1>1. a \o b \o c \o d \o e \o f \o g \o FromStdin(i) = a \o b \o c \o d \o e \o f \o FromMemory(i)
  <2>1. (a \o b \o c \o d \o e \o f \o g) \o FromStdin(i) = (a \o b \o c \o d \o e \o f) \o (g \o FromStdin(i))
    BY <1>abcdef, <1>g, <1>fs, <1>assoc, Zenon
  <2>2. g \o FromStdin(i) = FromMemory(i)
    BY Zenon DEF FromMemory, g
  <2> QED
    BY <2>1, <2>2, Zenon
<1>2. a \o b \o c \o d \o e \o f \o FromMemory(i) = a \o b \o c \o d \o e \o FromInteraction(i)
  <2>1. (a \o b \o c \o d \o e \o f) \o FromMemory(i) = (a \o b \o c \o d \o e) \o (f \o FromMemory(i))
    BY <1>abcde, <1>f, <1>fm, <1>assoc, Zenon
  <2>2. f \o FromMemory(i) = FromInteraction(i)
    BY Zenon DEF FromInteraction, f
  <2> QED
    BY <2>1, <2>2, Zenon
<1>3. a \o b \o c \o d \o e \o FromInteraction(i) = a \o b \o c \o d \o FromDirectory(i)
  <2>1. (a \o b \o c \o d \o e) \o FromInteraction(i) = (a \o b \o c \o d) \o (e \o FromInteraction(i))
    BY <1>abcd, <1>e, <1>fi, <1>assoc, Zenon
  <2>2. e \o FromInteraction(i) = FromDirectory(i)
    BY Zenon DEF FromDirectory, e
  <2> QED
    BY <2>1, <2>2, Zenon
<1>4. a \o b \o c \o d \o FromDirectory(i) = a \o b \o c \o FromArguments(i)
  <2>1. (a \o b \o c \o d) \o FromDirectory(i) = (a \o b \o c) \o (d \o FromDirectory(i))
    BY <1>abc, <1>d, <1>fd, <1>assoc, Zenon
  <2>2. d \o FromDirectory(i) = FromArguments(i)
    BY Zenon DEF FromArguments, d
  <2> QED
    BY <2>1, <2>2, Zenon
<1>5. a \o b \o c \o FromArguments(i) = a \o b \o FromPrefix(i)
  <2>1. (a \o b \o c) \o FromArguments(i) = (a \o b) \o (c \o FromArguments(i))
    BY <1>ab, <1>c, <1>fa, <1>assoc, Zenon
  <2>2. c \o FromArguments(i) = FromPrefix(i)
    BY Zenon DEF FromPrefix, c
  <2> QED
    BY <2>1, <2>2, Zenon
<1>6. a \o b \o FromPrefix(i) = a \o FromContract(i)
  <2>1. (a \o b) \o FromPrefix(i) = (a) \o (b \o FromPrefix(i))
    BY <1>a, <1>b, <1>fp, <1>assoc, Zenon
  <2>2. b \o FromPrefix(i) = FromContract(i)
    BY Zenon DEF FromContract, b
  <2> QED
    BY <2>1, <2>2, Zenon
<1>7. Authorized!RequestDigest(i) = a \o b \o c \o d \o e \o f \o g \o FromStdin(i)
  BY Zenon DEF Authorized!RequestDigest, FromStdin, a, b, c, d, e, f, g
<1>8. Authorized!RequestDigest(i) = a \o FromContract(i)
  BY <1>1, <1>2, <1>3, <1>4, <1>5, <1>6, <1>7, Zenon
<1> QED
  BY <1>fs, <1>fm, <1>fi, <1>fd, <1>fa, <1>fp, <1>fc, <1>8, Zenon DEF a, I

\* The digest tells every two calls apart that differ in what is shown: each list
\* says how long it is and each option whether it has a value, so that no word can
\* stand in another's place.
LEMMA DigestTellsAll ==
    ASSUME NEW i \in ac_Invocations, NEW j \in ac_Invocations,
           Authorized!RequestDigest(i) = Authorized!RequestDigest(j)
    PROVE  \A f \in Authorized!Shown : i[f] = j[f]
<1> DEFINE W == Vocabulary(i) \cup Vocabulary(j)
           I == Items(W)
           ci == <<i.contract, i.plan, i.executable>>
           cj == <<j.contract, j.plan, j.executable>>
           ti == <<i.interaction, i.limits>>
           tj == <<j.interaction, j.limits>>
<1>w. Vocabulary(i) \subseteq W /\ Vocabulary(j) \subseteq W
  OBVIOUS
<1>len. Len(ci) = 3 /\ Len(cj) = 3 /\ Len(ti) = 2 /\ Len(tj) = 2
  OBVIOUS
<1>fields. /\ ci = cj => i.contract = j.contract /\ i.plan = j.plan /\ i.executable = j.executable
           /\ ti = tj => i.interaction = j.interaction /\ i.limits = j.limits
  OBVIOUS
<1> HIDE DEF W, ci, cj, ti, tj
<1>i. /\ Authorized!Context(i) \in Seq(W) /\ Len(Authorized!Context(i)) = 3
      /\ ci \in Seq(W) /\ ti \in Seq(W)
      /\ i.prefix \in Seq(W) /\ i.arguments \in Seq(W) /\ i.directory \in Seq(W)
      /\ i.memory \in SUBSET W /\ i.stdin \in SUBSET W
  BY <1>w, CallWords DEF ci, ti
<1>j. /\ Authorized!Context(j) \in Seq(W) /\ Len(Authorized!Context(j)) = 3
      /\ cj \in Seq(W) /\ tj \in Seq(W)
      /\ j.prefix \in Seq(W) /\ j.arguments \in Seq(W) /\ j.directory \in Seq(W)
      /\ j.memory \in SUBSET W /\ j.stdin \in SUBSET W
  BY <1>w, CallWords DEF cj, tj
<1>pi. /\ FromStdin(i) \in Seq(I) /\ FromMemory(i) \in Seq(I) /\ FromInteraction(i) \in Seq(I)
       /\ FromDirectory(i) \in Seq(I) /\ FromArguments(i) \in Seq(I) /\ FromPrefix(i) \in Seq(I)
       /\ FromContract(i) \in Seq(I)
       /\ Authorized!RequestDigest(i) = Authorized!Words(Authorized!Context(i)) \o FromContract(i)
  BY <1>w, DigestParts
<1>pj. /\ FromStdin(j) \in Seq(I) /\ FromMemory(j) \in Seq(I) /\ FromInteraction(j) \in Seq(I)
       /\ FromDirectory(j) \in Seq(I) /\ FromArguments(j) \in Seq(I) /\ FromPrefix(j) \in Seq(I)
       /\ FromContract(j) \in Seq(I)
       /\ Authorized!RequestDigest(j) = Authorized!Words(Authorized!Context(j)) \o FromContract(j)
  BY <1>w, DigestParts
<1>split. \A p, q, t, w \in Seq(I) : Len(p) = Len(t) /\ p \o q = t \o w => p = t /\ q = w
  <2> TAKE p \in Seq(I), q \in Seq(I), t \in Seq(I), w \in Seq(I)
  <2> QED
    BY SameSplit, ZenonT(60)
<1>words. \A x, y \in Seq(W), r, s \in Seq(I) :
             Len(x) = Len(y) /\ Authorized!Words(x) \o r = Authorized!Words(y) \o s => x = y /\ r = s
  <2> SUFFICES ASSUME NEW x \in Seq(W), NEW y \in Seq(W), NEW r \in Seq(I), NEW s \in Seq(I),
                      Len(x) = Len(y), Authorized!Words(x) \o r = Authorized!Words(y) \o s
               PROVE  x = y /\ r = s
    OBVIOUS
  <2>1. Authorized!Words(x) = Authorized!Words(y) /\ r = s
    <3>1. Authorized!Words(x) \in Seq(I) /\ Len(Authorized!Words(x)) = Len(x)
      BY WordsAreItems
    <3>2. Authorized!Words(y) \in Seq(I) /\ Len(Authorized!Words(y)) = Len(y)
      BY WordsAreItems
    <3> DEFINE a == Authorized!Words(x)
               b == Authorized!Words(y)
    <3>3. a \in Seq(I) /\ b \in Seq(I) /\ Len(a) = Len(b) /\ a \o r = b \o s
      BY <3>1, <3>2
    <3>5. r \in Seq(I) /\ s \in Seq(I)
      OBVIOUS
    <3> HIDE DEF a, b, I
    <3>4. a = b /\ r = s
      BY <3>3, <3>5, <1>split, Zenon
    <3> QED
      BY <3>4 DEF a, b
  <2> QED
    BY <2>1, SameWords
<1>lists. \A x, y \in Seq(W), r, s \in Seq(I) :
             Authorized!HashStrings(x) \o r = Authorized!HashStrings(y) \o s => x = y /\ r = s
  BY SameLists
<1> HIDE DEF I
<1>1. Authorized!Context(i) = Authorized!Context(j) /\ FromContract(i) = FromContract(j)
  <2>1. Authorized!Words(Authorized!Context(i)) \o FromContract(i)
          = Authorized!Words(Authorized!Context(j)) \o FromContract(j)
    BY <1>pi, <1>pj, Zenon
  <2>2. Len(Authorized!Context(i)) = Len(Authorized!Context(j))
    BY <1>i, <1>j
  <2> QED
    BY <1>i, <1>j, <1>pi, <1>pj, <2>1, <2>2, <1>words, Zenon
<1>2. ci = cj /\ FromPrefix(i) = FromPrefix(j)
  <2>1. Authorized!Words(ci) \o FromPrefix(i) = Authorized!Words(cj) \o FromPrefix(j)
    BY <1>1, Zenon DEF FromContract, ci, cj
  <2>2. Len(ci) = Len(cj)
    BY <1>len
  <2> QED
    BY <1>i, <1>j, <1>pi, <1>pj, <2>1, <2>2, <1>words, Zenon
<1>3. i.prefix = j.prefix /\ FromArguments(i) = FromArguments(j)
  <2> DEFINE x == i.prefix
             y == j.prefix
             r == FromArguments(i)
             s == FromArguments(j)
  <2>1. r \in Seq(I) /\ s \in Seq(I)
    BY <1>pi, <1>pj
  <2>2. x \in Seq(W) /\ y \in Seq(W)
    BY <1>i, <1>j
  <2>3. Authorized!HashStrings(x) \o r = Authorized!HashStrings(y) \o s
    BY <1>2, Zenon DEF FromPrefix
  <2> HIDE DEF x, y, r, s
  <2>4. \A p, q \in Seq(I) : Authorized!HashStrings(x) \o p = Authorized!HashStrings(y) \o q => x = y /\ p = q
    BY <2>2, <1>lists, Zenon
  <2>5. x = y /\ r = s
    BY <2>1, <2>3, <2>4, Zenon
  <2> QED
    BY <2>5 DEF x, y, r, s
<1>4. i.arguments = j.arguments /\ FromDirectory(i) = FromDirectory(j)
  <2> DEFINE x == i.arguments
             y == j.arguments
             r == FromDirectory(i)
             s == FromDirectory(j)
  <2>1. r \in Seq(I) /\ s \in Seq(I)
    BY <1>pi, <1>pj
  <2>2. x \in Seq(W) /\ y \in Seq(W)
    BY <1>i, <1>j
  <2>3. Authorized!HashStrings(x) \o r = Authorized!HashStrings(y) \o s
    BY <1>3, Zenon DEF FromArguments
  <2> HIDE DEF x, y, r, s
  <2>4. \A p, q \in Seq(I) : Authorized!HashStrings(x) \o p = Authorized!HashStrings(y) \o q => x = y /\ p = q
    BY <2>2, <1>lists, Zenon
  <2>5. x = y /\ r = s
    BY <2>1, <2>3, <2>4, Zenon
  <2> QED
    BY <2>5 DEF x, y, r, s
<1>5. i.directory = j.directory /\ FromInteraction(i) = FromInteraction(j)
  <2> DEFINE x == i.directory
             y == j.directory
             r == FromInteraction(i)
             s == FromInteraction(j)
  <2>1. r \in Seq(I) /\ s \in Seq(I)
    BY <1>pi, <1>pj
  <2>2. x \in Seq(W) /\ y \in Seq(W)
    BY <1>i, <1>j
  <2>3. Authorized!HashStrings(x) \o r = Authorized!HashStrings(y) \o s
    BY <1>4, Zenon DEF FromDirectory
  <2> HIDE DEF x, y, r, s
  <2>4. \A p, q \in Seq(I) : Authorized!HashStrings(x) \o p = Authorized!HashStrings(y) \o q => x = y /\ p = q
    BY <2>2, <1>lists, Zenon
  <2>5. x = y /\ r = s
    BY <2>1, <2>3, <2>4, Zenon
  <2> QED
    BY <2>5 DEF x, y, r, s
<1>6. ti = tj /\ FromMemory(i) = FromMemory(j)
  <2>1. Authorized!Words(ti) \o FromMemory(i) = Authorized!Words(tj) \o FromMemory(j)
    BY <1>5, Zenon DEF FromInteraction, ti, tj
  <2>2. Len(ti) = Len(tj)
    BY <1>len
  <2> QED
    BY <1>i, <1>j, <1>pi, <1>pj, <2>1, <2>2, <1>words, Zenon
<1>options. \A m, n \in SUBSET W, r, s \in Seq(I) :
               /\ \A v, w \in m : v = w
               /\ \A v, w \in n : v = w
               /\ Authorized!HashOption(m) \o r = Authorized!HashOption(n) \o s
               => m = n /\ r = s
  BY SameOptions DEF I
<1>atmost. (\A v, w \in i.memory : v = w) /\ (\A v, w \in i.stdin : v = w)
           /\ (\A v, w \in j.memory : v = w) /\ (\A v, w \in j.stdin : v = w)
  BY CallsAssumed
<1>7. i.memory = j.memory /\ FromStdin(i) = FromStdin(j)
  <2>1. Authorized!HashOption(i.memory) \o FromStdin(i) = Authorized!HashOption(j.memory) \o FromStdin(j)
    BY <1>6, Zenon DEF FromMemory
  <2> DEFINE m == i.memory
             n == j.memory
             r == FromStdin(i)
             s == FromStdin(j)
  <2>2. m \in SUBSET W /\ n \in SUBSET W /\ r \in Seq(I) /\ s \in Seq(I)
    BY <1>i, <1>j, <1>pi, <1>pj
  <2>3. (\A v, w \in m : v = w) /\ (\A v, w \in n : v = w)
    BY <1>atmost
  <2>4. Authorized!HashOption(m) \o r = Authorized!HashOption(n) \o s
    BY <2>1
  <2> HIDE DEF m, n, r, s
  <2>5. m = n /\ r = s
    BY <2>2, <2>3, <2>4, <1>options
  <2> QED
    BY <2>5 DEF m, n, r, s
<1>8. i.stdin = j.stdin
  <2> DEFINE m == i.stdin
             n == j.stdin
  <2>1. m \in SUBSET W /\ n \in SUBSET W /\ <<>> \in Seq(I)
    BY <1>i, <1>j, EmptySeq
  <2>2. (\A v, w \in m : v = w) /\ (\A v, w \in n : v = w)
    BY <1>atmost
  <2>3. Authorized!HashOption(m) = Authorized!HashOption(n)
    BY <1>7 DEF FromStdin
  <2> HIDE DEF m, n
  <2>4. Authorized!HashOption(m) \o <<>> = Authorized!HashOption(n) \o <<>>
    BY <2>3
  <2>5. m = n
    BY <2>1, <2>2, <2>4, <1>options
  <2> QED
    BY <2>5 DEF m, n
<1>9. i.call = j.call /\ i.capability = j.capability /\ i.action = j.action
  BY <1>1 DEF Authorized!Context
<1> QED
  <2> SUFFICES ASSUME NEW f \in Authorized!Shown PROVE i[f] = j[f]
    OBVIOUS
  <2>1. /\ i.contract = j.contract /\ i.plan = j.plan /\ i.executable = j.executable
        /\ i.interaction = j.interaction /\ i.limits = j.limits
    BY <1>2, <1>6, <1>fields
  <2> QED
    BY <2>1, <1>3, <1>4, <1>5, <1>7, <1>8, <1>9 DEF Authorized!Shown

\* A terminal that can be reported is a success only where the command was dispatched.
LEMMA TerminalsAsObserved ==
    \A u \in Authorized!ValidTerminals :
        \A t \in Authorized!Seals(u) :
            /\ t \in Authorized!ValidTerminals
            /\ t = Authorized!Terminal(t.terminal, t.dispatch)
<1> SUFFICES ASSUME NEW u \in Authorized!ValidTerminals, NEW t \in Authorized!Seals(u)
             PROVE  /\ t \in Authorized!ValidTerminals
                    /\ t = Authorized!Terminal(t.terminal, t.dispatch)
  OBVIOUS
<1>1. t \in Authorized!ValidTerminals
  <2>1. t = u \/ t = Authorized!Terminal("artifact_rejected", "dispatched")
    BY DEF Authorized!Seals
  <2>2. Authorized!Terminal("artifact_rejected", "dispatched") \in Authorized!ValidTerminals
    BY DEF Authorized!ValidTerminals, Authorized!Ended
  <2> QED
    BY <2>1, <2>2
<1>2. t = Authorized!Terminal(t.terminal, t.dispatch)
  BY <1>1 DEF Authorized!ValidTerminals, Authorized!Terminal
<1> QED
  BY <1>1, <1>2

\* The account of the credentials is that of a success exactly for a success, and
\* is never that of a refusal.
LEMMA AccountsOfTerminals ==
    \A t : /\ (Authorized!CredentialOutcome(t) = "succeeded") = (t = "success")
           /\ Authorized!CredentialOutcome(t) \notin {"authorization_denied", "approval_denied"}
           /\ (Authorized!AuditOutcome(t) = "completed") = (t = "success")
           /\ Authorized!AuditOutcome(t) \in {"cancelled", "timed_out"} => Authorized!AuditOutcome(t) = t
<1> TAKE t
<1>1. CASE t \in {"success", "cancelled", "timed_out", "non_zero_exit", "output_limit_exceeded",
                  "memory_limit_exceeded", "artifact_rejected"}
  BY <1>1 DEF Authorized!CredentialOutcome, Authorized!AuditOutcome
<1>2. CASE t \notin {"success", "cancelled", "timed_out", "non_zero_exit", "output_limit_exceeded",
                     "memory_limit_exceeded", "artifact_rejected"}
  BY <1>2 DEF Authorized!CredentialOutcome, Authorized!AuditOutcome
<1> QED
  BY <1>1, <1>2

\* How a call may end: what was observed is one terminal, of the dispatch that is
\* reported, unless the deadline passed; and a command that may have run was bound.
LEMMA EndingsAsReported ==
    ASSUME NEW end \in Authorized!Endings
    PROVE  /\ end.code # "success"
           /\ end.dispatch # "not_dispatched" => end.bound
           /\ end.bound \in BOOLEAN
           /\ end.observed = {} \/ \E t \in Authorized!ValidTerminals : end.observed = {t}
           /\ end.code = "settled" => end.observed # {}
           /\ end.code \notin Authorized!Stopped => \A t \in end.observed : t.dispatch = end.dispatch
<1>1. CASE end \in Authorized!BeforeBinding
  <2>1. PICK c \in {"cancelled", "timed_out", "contract_mismatch", "result_sealing_failed",
                    "execution_authority_failed", "credential_preparation_failed",
                    "credential_materialization_failed", "internal_failure"} :
             end = Authorized!Ends(c, "not_dispatched", {}, FALSE)
    BY <1>1 DEF Authorized!BeforeBinding
  <2> QED
    BY <2>1 DEF Authorized!Ends
<1>2. CASE end \in Authorized!Lost
  <2>1. PICK d \in Authorized!Dispatches,
              c \in {"process_failed", "credential_materialization_failed", "internal_failure"} :
             end = [code |-> c, dispatch |-> d, observed |-> {}, bound |-> TRUE]
    BY <1>2 DEF Authorized!Lost, Authorized!Ends
  <2>2. end.code = c /\ end.observed = {} /\ end.bound = TRUE
    BY <2>1 DEF Authorized!Ends
  <2>3. end.code \notin {"success", "settled"}
    BY <2>2
  <2> QED
    BY <2>2, <2>3
<1>3. CASE end \in Authorized!Observed
  <2>1. PICK t \in UNION {Authorized!Seals(u) : u \in Authorized!ValidTerminals},
              c \in {"settled", "result_sealing_failed", "credential_materialization_failed",
                     "internal_failure"} :
             end = Authorized!Ends(c, t.dispatch, {t}, TRUE)
    BY <1>3 DEF Authorized!Observed
  <2>2. t \in Authorized!ValidTerminals
    BY TerminalsAsObserved
  <2> QED
    BY <2>1, <2>2 DEF Authorized!Ends
<1>4. CASE end \in Authorized!Late
  <2>1. PICK t \in Authorized!ValidTerminals :
             end = Authorized!Ends("timed_out", "not_dispatched", {t}, TRUE)
    BY <1>4 DEF Authorized!Late
  <2> QED
    BY <2>1 DEF Authorized!Ends, Authorized!Stopped
<1> QED
  BY <1>1, <1>2, <1>3, <1>4 DEF Authorized!Endings

\* A receipt and the answer it is for, as one story.
OneStory(r, a) ==
    /\ (r.outcome = "completed") = (r.terminal = "success")
    /\ (r.credential = "succeeded") = (r.terminal = "success")
    /\ (r.terminal = "success") = (a.code = "success")
    /\ a.code = "success" => r.artifacts
    /\ r.outcome \in Authorized!Stopped =>
          r.terminal = r.outcome /\ r.credential = Authorized!CredentialOutcome(r.outcome)
    /\ r.dispatch # "not_dispatched" => r.executable /\ r.authorization # {}
    /\ a.dispatch = r.dispatch
    /\ r.credential \in {"authorization_denied", "approval_denied"} => r.authorization = {}

\* An audit of one story leaves the invariant.
LEMMA AuditsTellsIt ==
    ASSUME AuthorizedInv, NEW r, NEW a, OneStory(r, a), Authorized!Audits(r, a)
    PROVE  AuthorizedInv'
<1>1. /\ ac_receipt' = r /\ ac_phase' = "returned"
      /\ ac_answer' = a \/ ac_answer' = Authorized!Error("audit_failed", a.dispatch)
      /\ ac_invocation' = ac_invocation /\ ac_issued' = ac_issued /\ ac_accepted' = ac_accepted
  BY DEF Authorized!Audits
<1>2. ac_answer'.dispatch = a.dispatch /\ ac_answer'.code \in {a.code, "audit_failed"}
  BY <1>1 DEF Authorized!Error
<1>3. Authorized!ReceiptTellsOneStory'
  BY <1>1, <1>2 DEF Authorized!ReceiptTellsOneStory, OneStory
<1>4. Authorized!ApprovalIsForThisCall'
  BY <1>1 DEF AuthorizedInv, Authorized!ApprovalIsForThisCall
<1> QED
  BY <1>1, <1>3, <1>4 DEF AuthorizedInv

\* So does a stop.
LEMMA StopsTellsIt ==
    ASSUME AuthorizedInv, Authorized!Stops
    PROVE  AuthorizedInv'
<1> PICK why \in {"cancelled", "timed_out"} :
        Authorized!Audits(
            Authorized!FailureReceipt(why, Authorized!Terminal(why, "not_dispatched"),
                                      Authorized!CredentialOutcome(why)),
            Authorized!Error(why, "not_dispatched"))
  BY DEF Authorized!Stops
<1> DEFINE c == Authorized!CredentialOutcome(why)
<1>1. c # "succeeded" /\ c \notin {"authorization_denied", "approval_denied"}
  BY AccountsOfTerminals
<1>2. OneStory(Authorized!FailureReceipt(why, Authorized!Terminal(why, "not_dispatched"), c),
               Authorized!Error(why, "not_dispatched"))
  <2> SUFFICES ASSUME NEW d, d = c
               PROVE  OneStory(Authorized!FailureReceipt(why, Authorized!Terminal(why, "not_dispatched"), d),
                               Authorized!Error(why, "not_dispatched"))
    OBVIOUS
  <2> HIDE DEF c
  <2> QED
    BY <1>1 DEF OneStory, Authorized!FailureReceipt, Authorized!Terminal, Authorized!Error, c
<1> QED
  BY <1>2, AuditsTellsIt

\* So does a rejection that is not a success.
LEMMA RejectsTellsIt ==
    ASSUME AuthorizedInv, NEW outcome, NEW credential, NEW code,
           outcome \notin {"completed", "cancelled", "timed_out"}, credential # "succeeded", code # "success",
           credential \in {"authorization_denied", "approval_denied"} => ac_accepted = {},
           Authorized!Rejects(outcome, credential, code)
    PROVE  AuthorizedInv'
<1>1. OneStory(Authorized!FailureReceipt(outcome, Authorized!Terminal("launch_rejected", "not_dispatched"),
                                         credential),
               Authorized!Error(code, "not_dispatched"))
  BY DEF OneStory, Authorized!FailureReceipt, Authorized!Terminal, Authorized!Error, Authorized!Stopped
<1> QED
  BY <1>1, AuditsTellsIt DEF Authorized!Rejects

\* So does the check at the entry.
LEMMA CheckEntryTellsIt ==
    ASSUME AuthorizedInv, Authorized!CheckEntry
    PROVE  AuthorizedInv'
<1>1. CASE Authorized!Stops
  BY <1>1, StopsTellsIt
<1>2. CASE Authorized!Rejects("preparation_failed", "internal", "contract_mismatch")
  BY <1>2, RejectsTellsIt
<1>3. CASE /\ ac_phase' = "authorize"
           /\ UNCHANGED <<ac_invocation, ac_issued, ac_accepted, ac_receipt, ac_answer>>
  BY <1>3 DEF Authorized!CheckEntry, AuthorizedInv, Authorized!ReceiptTellsOneStory,
              Authorized!ApprovalIsForThisCall
<1> QED
  BY <1>1, <1>2, <1>3 DEF Authorized!CheckEntry

\* Evidence carries the digest of the request it was made for; where it matches, the
\* two requests are one in all that is shown.
LEMMA ApprovesTellsIt ==
    ASSUME AuthorizedInv, ac_phase = "authorize", NEW e \in Authorized!Offered, Authorized!Approves(e)
    PROVE  AuthorizedInv'
<1>1. CASE Authorized!AuthorizationMatches(ac_invocation, e)
  <2>1. e.digest = Authorized!RequestDigest(ac_issued)
    BY CallsAssumed DEF Authorized!Offered
  <2>2. Authorized!RequestDigest(ac_issued) = Authorized!RequestDigest(ac_invocation)
    BY <1>1, <2>1 DEF Authorized!AuthorizationMatches
  <2>3. \A f \in Authorized!Shown : ac_issued[f] = ac_invocation[f]
    BY <2>2, DigestTellsAll DEF AuthorizedInv
  <2>4. /\ ac_accepted' = {Authorized!AuthorizationAudit(e)} /\ ac_phase' = "authorized"
        /\ UNCHANGED <<ac_invocation, ac_issued, ac_receipt, ac_answer>>
    BY <1>1 DEF Authorized!Approves
  <2> QED
    BY <2>3, <2>4 DEF AuthorizedInv, Authorized!ApprovalIsForThisCall, Authorized!ReceiptTellsOneStory
<1>2. CASE ~Authorized!AuthorizationMatches(ac_invocation, e)
  BY <1>2, RejectsTellsIt DEF Authorized!Approves, AuthorizedInv
<1> QED
  BY <1>1, <1>2

\* So does the decision of the host.
LEMMA DecideTellsIt ==
    ASSUME AuthorizedInv, Authorized!Decide
    PROVE  AuthorizedInv'
<1>1. ac_phase = "authorize" /\ ac_accepted = {}
  BY DEF Authorized!Decide, AuthorizedInv
<1>2. CASE Authorized!Stops
  BY <1>2, StopsTellsIt
<1>3. CASE Authorized!Refuses
  BY <1>1, <1>3, RejectsTellsIt DEF Authorized!Refuses
<1>4. CASE \E e \in Authorized!Offered : Authorized!Approves(e)
  BY <1>1, <1>4, ApprovesTellsIt
<1> QED
  BY <1>2, <1>3, <1>4 DEF Authorized!Decide

\* So does the issue of an authority.
LEMMA IssueAuthorityTellsIt ==
    ASSUME AuthorizedInv, Authorized!IssueAuthority
    PROVE  AuthorizedInv'
<1>1. CASE Authorized!Stops
  BY <1>1, StopsTellsIt
<1>2. CASE Authorized!Rejects("preparation_failed", "scoped_path_unavailable", "profile_authority_unavailable")
  BY <1>2, RejectsTellsIt
<1>3. CASE /\ ac_phase' = "execute"
           /\ UNCHANGED <<ac_invocation, ac_issued, ac_accepted, ac_receipt, ac_answer>>
  BY <1>3 DEF Authorized!IssueAuthority, AuthorizedInv, Authorized!ReceiptTellsOneStory,
              Authorized!ApprovalIsForThisCall
<1> QED
  BY <1>1, <1>2, <1>3 DEF Authorized!IssueAuthority

\* So does the settlement of each ending.
LEMMA SettlesTellsIt ==
    ASSUME AuthorizedInv, ac_phase = "execute", NEW end \in Authorized!Endings, Authorized!Settles(end)
    PROVE  AuthorizedInv'
<1>a. ac_accepted # {}
  BY DEF AuthorizedInv
<1>e. /\ end.code # "success"
      /\ end.dispatch # "not_dispatched" => end.bound
      /\ end.bound \in BOOLEAN
      /\ end.observed = {} \/ \E t \in Authorized!ValidTerminals : end.observed = {t}
      /\ end.code = "settled" => end.observed # {}
      /\ end.code \notin Authorized!Stopped => \A t \in end.observed : t.dispatch = end.dispatch
  BY EndingsAsReported
<1>1. CASE end.code = "settled"
  <2> DEFINE t == CHOOSE t \in end.observed : TRUE
             o == Authorized!AuditOutcome(t.terminal)
             c == Authorized!CredentialOutcome(t.terminal)
             r == Authorized!ExecutionReceipt(o, t, TRUE, TRUE)
             a == Authorized!Error(t.terminal, t.dispatch)
  <2>1. Authorized!Audits(r, a)
    BY <1>1 DEF Authorized!Settles
  <2>2. /\ r.outcome = o /\ r.terminal = t.terminal /\ r.dispatch = t.dispatch /\ r.credential = c
        /\ r.authorization = ac_accepted /\ r.executable = TRUE /\ r.artifacts = TRUE
        /\ a.code = t.terminal /\ a.dispatch = t.dispatch
    BY DEF Authorized!ExecutionReceipt, Authorized!Error
  <2>3. /\ (c = "succeeded") = (t.terminal = "success")
        /\ c \notin {"authorization_denied", "approval_denied"}
        /\ (o = "completed") = (t.terminal = "success")
        /\ o \in {"cancelled", "timed_out"} => o = t.terminal
        /\ o \in {"cancelled", "timed_out"} => c = Authorized!CredentialOutcome(o)
    BY AccountsOfTerminals
  <2> HIDE DEF r, a, t, o, c
  <2>4. OneStory(r, a)
    BY <1>a, <2>2, <2>3 DEF OneStory, Authorized!Stopped
  <2> QED
    BY <2>1, <2>4, AuditsTellsIt
<1>2. CASE end.code # "settled"
  <2> DEFINE t == Authorized!TerminalOf(end)
             o == Authorized!OutcomeOf(end)
             c == Authorized!CredentialOutcome(t.terminal)
             r == Authorized!ExecutionReceipt(o, t, end.bound, FALSE)
             a == Authorized!Error(end.code, end.dispatch)
  <2>1. Authorized!Audits(r, a)
    BY <1>2 DEF Authorized!Settles
  <2>2. /\ r.outcome = o /\ r.terminal = t.terminal /\ r.dispatch = t.dispatch /\ r.credential = c
        /\ r.authorization = ac_accepted /\ r.executable = end.bound
        /\ a.code = end.code /\ a.dispatch = end.dispatch
    BY DEF Authorized!ExecutionReceipt, Authorized!Error
  <2>3. /\ (c = "succeeded") = (t.terminal = "success")
        /\ c \notin {"authorization_denied", "approval_denied"}
    BY AccountsOfTerminals
  <2>4. /\ t.terminal # "success" /\ t.dispatch = end.dispatch
        /\ end.code \in Authorized!Stopped => t.terminal = end.code
    <3>1. CASE end.code \in Authorized!Stopped
      BY <3>1 DEF Authorized!TerminalOf, Authorized!Terminal, Authorized!Stopped
    <3>2. CASE end.code \notin Authorized!Stopped /\ Authorized!Surviving(end.observed) # {}
      <4>1. PICK u \in end.observed : u.terminal # "success"
        BY <3>2 DEF Authorized!Surviving
      <4>2. end.observed = {u}
        BY <1>e, <4>1
      <4>3. t = u
        BY <3>2, <4>2 DEF Authorized!TerminalOf
      <4> QED
        BY <1>e, <3>2, <4>1, <4>3
    <3>3. CASE end.code \notin Authorized!Stopped /\ Authorized!Surviving(end.observed) = {}
      BY <3>3 DEF Authorized!TerminalOf, Authorized!Terminal
    <3> QED
      BY <3>1, <3>2, <3>3
  <2>5. /\ o # "completed"
        /\ o \in Authorized!Stopped => end.code \in Authorized!Stopped /\ o = end.code
    BY DEF Authorized!OutcomeOf, Authorized!Stopped
  <2>6. o \in Authorized!Stopped => t.terminal = o /\ c = Authorized!CredentialOutcome(o)
    BY <2>4, <2>5
  <2> HIDE DEF r, a, t, o, c
  <2>7. OneStory(r, a)
    BY <1>a, <1>e, <2>2, <2>3, <2>4, <2>5, <2>6 DEF OneStory
  <2> QED
    BY <2>1, <2>7, AuditsTellsIt
<1> QED
  BY <1>1, <1>2

\* A call starts within its invariant.
LEMMA AuthorizedStarts == Authorized!Init => AuthorizedInv
BY DEF Authorized!Init, AuthorizedInv, Authorized!ApprovalIsForThisCall, Authorized!ReceiptTellsOneStory

\* Every step of it preserves the invariant.
LEMMA AuthorizedStep == AuthorizedInv /\ [Authorized!Next]_Authorized!vars => AuthorizedInv'
<1> SUFFICES ASSUME AuthorizedInv, [Authorized!Next]_Authorized!vars PROVE AuthorizedInv'
  OBVIOUS
<1>1. CASE Authorized!CheckEntry
  BY <1>1, CheckEntryTellsIt
<1>2. CASE Authorized!Decide
  BY <1>2, DecideTellsIt
<1>3. CASE Authorized!IssueAuthority
  BY <1>3, IssueAuthorityTellsIt
<1>4. CASE Authorized!Execute
  BY <1>4, SettlesTellsIt DEF Authorized!Execute
<1>5. CASE UNCHANGED Authorized!vars
  BY <1>5 DEF Authorized!vars, AuthorizedInv, Authorized!ApprovalIsForThisCall, Authorized!ReceiptTellsOneStory
<1> QED
  BY <1>1, <1>2, <1>3, <1>4, <1>5 DEF Authorized!Next

\* Evidence that was made for one request is accepted for no other, whatever the
\* calls are made of, and a receipt tells one story (governed_execution_coordinator.rs).
THEOREM ApprovalStaysWithItsCall == Authorized!Spec => []ApprovalCoversTheCall
<1>1. AuthorizedInv => ApprovalCoversTheCall
  BY DEF AuthorizedInv, ApprovalCoversTheCall
<1> QED
  BY <1>1, AuthorizedStarts, AuthorizedStep, PTL DEF Authorized!Spec

-----------------------------------------------------------------------------
(* What a status command's output says of a profile.                       *)

ProfileRecords ==
    {Lifecycle!None} \cup
        [kind : {"profile"}, revision : Int, disabled : BOOLEAN, identity : lc_Identities \cup {"none"}]

\* The identity of a plan is the one its profile had at the plan's revision.
TargetIsNamed ==
    lc_plan.target.identity # "none" =>
        /\ lc_plan.target.alias \in lc_Aliases
        /\ \E profile \in lc_past[lc_plan.target.alias] :
              /\ profile # Lifecycle!None /\ profile.revision = lc_plan.target.revision
              /\ profile.identity = lc_plan.target.identity

PlanStands ==
    /\ lc_plan.contract \in lc_Contracts
    /\ lc_plan.operation = "status" => lc_plan.rules = lc_plan.contract.rules
    /\ TargetIsNamed

BoundProcesses == [kind : {"bound"}, directory : lc_Directories, changes : Int, digest : Int]
Runs == [kind : {"ran"}, version : Int, directories : Seq(lc_Directories)]
Places == [identity : lc_Directories, replaced : Int]

\* The directories of a run begin with one and end with another.
Looked(run, first, last) ==
    /\ run \in Runs /\ run.directories # <<>>
    /\ run.directories[1] = first /\ run.directories[Len(run.directories)] = last

\* From the look before the command on, the directories of the run begin with the
\* one that is bound and end with the one that is there.
LifecycleInv ==
    /\ lc_directory \in Places /\ lc_executable \in [version : Int, changes : Int]
    /\ lc_revision \in Int
    /\ lc_profiles \in [lc_Aliases -> ProfileRecords]
    /\ lc_past \in [lc_Aliases -> SUBSET ProfileRecords]
    /\ \A a \in lc_Aliases : lc_profiles[a] \in lc_past[a]
    /\ lc_pc # "done" => lc_result = Lifecycle!None
    /\ lc_pc \notin {"plan", "done"} => PlanStands
    /\ lc_pc \in {"digest", "resolved", "before", "launch", "running", "after"} =>
          lc_bound \in BoundProcesses
    /\ lc_pc \in {"launch", "running", "after"} =>
          Looked(lc_ran, lc_bound.directory, lc_directory.identity)
    /\ lc_pc \in {"running", "after"} => lc_ran.version = lc_bound.digest
    /\ Lifecycle!ReadyIsEarned

\* The cardinality of the part is the one of the library.
LEMMA LifecycleCounts ==
    \A S : Lifecycle!Cardinality(S) = Cardinality(S) /\ (Lifecycle!IsFiniteSet(S) <=> IsFiniteSet(S))
BY Zenon DEF Cardinality, IsFiniteSet, Lifecycle!Cardinality, Lifecycle!IsFiniteSet

\* A contract has finitely many rules.
LEMMA RulesAssumed == \A contract \in lc_Contracts : IsFiniteSet(DOMAIN contract.rules)
BY ComponentAssumption, LifecycleCounts DEF Lifecycle!CommandAssumption

\* Where one state is collected, some rule says so and none says otherwise.
LEMMA OneStateIsSaid ==
    ASSUME NEW rules, NEW code, NEW payload, IsFiniteSet(DOMAIN rules),
           NEW states, states = Lifecycle!Collected(rules, Lifecycle!Speaking(rules, code, payload)),
           Lifecycle!Conclusive(states)
    PROVE  /\ Lifecycle!Speaking(rules, code, payload) # {}
           /\ \A k \in Lifecycle!Speaking(rules, code, payload) : rules[k].state = CHOOSE s \in states : TRUE
<1> DEFINE K == Lifecycle!Speaking(rules, code, payload)
<1>1. IsFiniteSet(K)
  BY FS_Subset DEF Lifecycle!Speaking
<1> HIDE DEF K
<1>2. states = {rules[k].state : k \in K}
  BY DEF K, Lifecycle!Collected, Lifecycle!EveryMatch
<1>3. IsFiniteSet(states)
  <2> DEFINE g == [k \in K |-> rules[k].state]
  <2>1. g \in Surjection(K, states)
    BY <1>2 DEF Surjection
  <2> HIDE DEF g
  <2> QED
    BY <1>1, <2>1, FS_Surjection
<1>4. Cardinality(states) = 1
  BY LifecycleCounts DEF Lifecycle!Conclusive
<1>5. PICK s : states = {s}
  BY <1>3, <1>4, FS_Singleton
<1>6. K # {} /\ \A k \in K : rules[k].state = s
  BY <1>2, <1>5
<1>7. (CHOOSE t \in states : TRUE) = s
  BY <1>5
<1> QED
  BY <1>6, <1>7 DEF K

\* A command starts within its invariant.
LEMMA LifecycleStarts == Lifecycle!Init => LifecycleInv
<1> SUFFICES ASSUME Lifecycle!Init PROVE LifecycleInv
  OBVIOUS
<1>1. lc_profiles \in [lc_Aliases -> ProfileRecords]
  <2> DEFINE P == {Lifecycle!None} \cup
                     {[kind |-> "profile", revision |-> 1, disabled |-> FALSE, identity |-> i] :
                         i \in lc_Identities \cup {"none"}}
  <2>1. P \subseteq ProfileRecords
    <3>1. \A i \in lc_Identities \cup {"none"} :
             [kind |-> "profile", revision |-> 1, disabled |-> FALSE, identity |-> i] \in ProfileRecords
      BY DEF ProfileRecords
    <3>2. Lifecycle!None \in ProfileRecords
      BY DEF ProfileRecords
    <3> HIDE DEF ProfileRecords, Lifecycle!None
    <3> QED
      BY <3>1, <3>2, Zenon
  <2>2. lc_profiles \in [lc_Aliases -> P]
    BY DEF Lifecycle!Init
  <2> HIDE DEF P
  <2> QED
    BY <2>1, <2>2
<1>2. lc_past = [a \in lc_Aliases |-> {lc_profiles[a]}]
  BY DEF Lifecycle!Init
<1>3. lc_past \in [lc_Aliases -> SUBSET ProfileRecords] /\ \A a \in lc_Aliases : lc_profiles[a] \in lc_past[a]
  BY <1>1, <1>2
<1>4. /\ lc_pc = "plan" /\ lc_result = Lifecycle!None /\ lc_revision = 1
      /\ lc_directory = [identity |-> CHOOSE d \in lc_Directories : TRUE, replaced |-> 0]
      /\ lc_executable = [version |-> 1, changes |-> 1]
  BY DEF Lifecycle!Init
<1>6. lc_directory \in Places
  <2>1. lc_Directories # {}
    BY ComponentAssumption DEF Lifecycle!CommandAssumption
  <2> QED
    BY <1>4, <2>1 DEF Places
<1>5. lc_result.kind = "none"
  BY <1>4 DEF Lifecycle!None
<1> QED
  BY <1>1, <1>3, <1>4, <1>5, <1>6 DEF LifecycleInv, Lifecycle!ReadyIsEarned

\* While a command is under way there is no answer yet.
LEMMA UnderWay ==
    ASSUME LifecycleInv
    PROVE  lc_pc # "done" => lc_result.kind = "none"
BY DEF LifecycleInv, Lifecycle!None

\* An edit of the profile preserves the invariant.
LEMMA EditProfileStep ==
    ASSUME LifecycleInv, NEW alias \in lc_Aliases, Lifecycle!EditProfile(alias)
    PROVE  LifecycleInv'
<1>1. PICK i \in lc_Identities \cup {"none"}, d \in BOOLEAN :
         lc_profiles' = [lc_profiles EXCEPT ![alias] =
            [kind |-> "profile", revision |-> lc_revision + 1, disabled |-> d, identity |-> i]]
  BY DEF Lifecycle!EditProfile
<1> DEFINE p == [kind |-> "profile", revision |-> lc_revision + 1, disabled |-> d, identity |-> i]
<1>2. /\ lc_pc # "done" /\ lc_revision' = lc_revision + 1
      /\ lc_past' = [lc_past EXCEPT ![alias] = @ \cup {lc_profiles'[alias]}]
      /\ UNCHANGED <<lc_directory, lc_executable, lc_pc, lc_plan, lc_path, lc_bound, lc_result, lc_ran, lc_shown>>
  BY DEF Lifecycle!EditProfile, Lifecycle!Disturbs, Lifecycle!Command
<1>3. p \in ProfileRecords
  BY DEF LifecycleInv, ProfileRecords
<1> HIDE DEF p
<1>4. lc_profiles' \in [lc_Aliases -> ProfileRecords] /\ lc_profiles'[alias] = p
      /\ \A a \in lc_Aliases : a # alias => lc_profiles'[a] = lc_profiles[a]
  BY <1>1, <1>3 DEF LifecycleInv, p
<1>5. lc_past' \in [lc_Aliases -> SUBSET ProfileRecords]
      /\ (\A a \in lc_Aliases : lc_past[a] \subseteq lc_past'[a]) /\ p \in lc_past'[alias]
  BY <1>2, <1>3, <1>4 DEF LifecycleInv
<1>6. \A a \in lc_Aliases : lc_profiles'[a] \in lc_past'[a]
  BY <1>4, <1>5 DEF LifecycleInv
<1>7. PlanStands => PlanStands'
  BY <1>2, <1>5 DEF PlanStands, TargetIsNamed
<1>8. Lifecycle!ReadyIsEarned'
  BY <1>2, UnderWay DEF Lifecycle!ReadyIsEarned
<1> QED
  BY <1>2, <1>4, <1>5, <1>6, <1>7, <1>8 DEF LifecycleInv

\* So does another directory in the place of the one that was bound.
LEMMA ReplaceDirectoryStep ==
    ASSUME LifecycleInv, Lifecycle!ReplaceDirectory
    PROVE  LifecycleInv'
<1>1. /\ lc_pc # "done"
      /\ UNCHANGED <<lc_profiles, lc_revision, lc_executable, lc_past, lc_pc, lc_plan, lc_path, lc_bound,
                     lc_result, lc_shown>>
  BY DEF Lifecycle!ReplaceDirectory
<1>2. PICK d \in lc_Directories :
         /\ lc_directory' = [identity |-> d, replaced |-> lc_directory.replaced + 1]
         /\ lc_ran' = IF lc_ran = Lifecycle!None THEN lc_ran
                      ELSE [lc_ran EXCEPT !.directories = Append(@, d)]
  BY Zenon DEF Lifecycle!ReplaceDirectory
<1>3. Lifecycle!ReadyIsEarned'
  BY <1>1, UnderWay DEF Lifecycle!ReadyIsEarned
<1>4. PlanStands => PlanStands'
  BY <1>1 DEF PlanStands, TargetIsNamed
<1>5. lc_directory' \in Places /\ lc_directory'.identity = d
  BY <1>2 DEF LifecycleInv, Places
<1>6. ASSUME lc_pc \in {"launch", "running", "after"}
      PROVE  /\ Looked(lc_ran', lc_bound.directory, d)
             /\ lc_ran'.version = lc_ran.version
  <2>1. Looked(lc_ran, lc_bound.directory, lc_directory.identity)
    BY <1>6 DEF LifecycleInv
  <2>2. lc_ran \in Runs /\ lc_ran # Lifecycle!None
    BY <2>1 DEF Looked, Runs, Lifecycle!None
  <2> DEFINE old == lc_ran.directories
             new == Append(old, d)
  <2>3. lc_ran' \in Runs /\ lc_ran'.version = lc_ran.version /\ lc_ran'.directories = new
    BY <1>2, <2>2 DEF Runs
  <2>4. old \in Seq(lc_Directories) /\ old # <<>> /\ old[1] = lc_bound.directory
    BY <2>1 DEF Looked, Runs
  <2> HIDE DEF old
  <2>5. new # <<>> /\ new[1] = lc_bound.directory /\ new[Len(new)] = d
    BY <2>4
  <2> HIDE DEF new
  <2> QED
    BY <2>3, <2>5 DEF Looked
<1> QED
  BY <1>1, <1>3, <1>4, <1>5, <1>6 DEF LifecycleInv

\* So does another executable.
LEMMA ReplaceExecutableStep ==
    ASSUME LifecycleInv, Lifecycle!ReplaceExecutable
    PROVE  LifecycleInv'
<1>1. /\ lc_pc # "done"
      /\ UNCHANGED <<lc_profiles, lc_revision, lc_directory, lc_past, lc_pc, lc_plan, lc_path, lc_bound,
                     lc_result, lc_ran, lc_shown>>
  BY DEF Lifecycle!ReplaceExecutable, Lifecycle!Disturbs, Lifecycle!Command
<1>2. Lifecycle!ReadyIsEarned'
  BY <1>1, UnderWay DEF Lifecycle!ReadyIsEarned
<1>3. PlanStands => PlanStands'
  BY <1>1 DEF PlanStands, TargetIsNamed
<1>4. lc_executable' \in [version : Int, changes : Int]
  BY DEF LifecycleInv, Lifecycle!ReplaceExecutable
<1> QED
  BY <1>1, <1>2, <1>3, <1>4 DEF LifecycleInv

\* A refusal preserves the invariant.
LEMMA LifecycleRefuses ==
    ASSUME LifecycleInv, NEW why, Lifecycle!Refuse(why),
           UNCHANGED <<lc_profiles, lc_revision, lc_directory, lc_executable, lc_changes, lc_past>>
    PROVE  LifecycleInv'
<1>1. lc_pc' = "done" /\ lc_result'.kind = "refused"
  BY DEF Lifecycle!Refuse, Lifecycle!Refused
<1>2. Lifecycle!ReadyIsEarned'
  BY <1>1 DEF Lifecycle!ReadyIsEarned
<1> QED
  BY <1>1, <1>2 DEF LifecycleInv

\* A step of the command that has no answer yet.
LEMMA CommandGoesOn ==
    ASSUME LifecycleInv, lc_pc # "done", lc_result' = lc_result,
           UNCHANGED <<lc_profiles, lc_revision, lc_directory, lc_executable, lc_changes, lc_past>>
    PROVE  /\ lc_directory' \in Places /\ lc_executable' \in [version : Int, changes : Int]
           /\ lc_revision' \in Int
           /\ lc_profiles' \in [lc_Aliases -> ProfileRecords]
           /\ lc_past' \in [lc_Aliases -> SUBSET ProfileRecords]
           /\ \A a \in lc_Aliases : lc_profiles'[a] \in lc_past'[a]
           /\ lc_result' = Lifecycle!None
           /\ Lifecycle!ReadyIsEarned'
<1>1. lc_result'.kind = "none"
  BY UnderWay
<1> QED
  BY <1>1 DEF LifecycleInv, Lifecycle!ReadyIsEarned

\* So does a plan for a profile.
LEMMA PlanProfileStep ==
    ASSUME LifecycleInv, NEW contract \in lc_Contracts, NEW operation, NEW alias \in lc_Aliases,
           Lifecycle!PlanProfile(contract, operation, alias)
    PROVE  LifecycleInv'
<1> DEFINE profile == lc_profiles[alias]
           target == [mode |-> "profile", alias |-> alias, revision |-> profile.revision,
                      identity |-> profile.identity]
<1>1. UNCHANGED <<lc_profiles, lc_revision, lc_directory, lc_executable, lc_changes, lc_past>>
  BY DEF Lifecycle!PlanProfile, Lifecycle!Keep, Lifecycle!world
<1>2. CASE Lifecycle!Refuse("plan")
  BY <1>1, <1>2, LifecycleRefuses
<1>3. CASE /\ profile # Lifecycle!None /\ lc_plan' = Lifecycle!Planned(contract, operation, target)
           /\ lc_pc = "plan" /\ lc_pc' = "bind" /\ lc_result' = lc_result
  <2>1. /\ lc_plan'.contract = contract /\ lc_plan'.operation = operation /\ lc_plan'.target = target
        /\ operation = "status" => lc_plan'.rules = contract.rules
    BY <1>3 DEF Lifecycle!Planned
  <2>2. target.alias = alias /\ target.revision = profile.revision /\ target.identity = profile.identity
    OBVIOUS
  <2>3. profile \in lc_past'[alias]
    BY <1>1 DEF LifecycleInv
  <2> HIDE DEF profile, target
  <2>4. PlanStands'
    BY <1>1, <1>3, <2>1, <2>2, <2>3 DEF PlanStands, TargetIsNamed
  <2> QED
    BY <1>1, <1>3, <2>4, CommandGoesOn DEF LifecycleInv
<1> QED
  BY <1>2, <1>3 DEF Lifecycle!PlanProfile, Lifecycle!Keep

\* So does a plan without one.
LEMMA PlanImplicitStep ==
    ASSUME LifecycleInv, NEW contract \in lc_Contracts, NEW operation,
           Lifecycle!PlanImplicit(contract, operation)
    PROVE  LifecycleInv'
<1> DEFINE target == [mode |-> "implicit", alias |-> "none", revision |-> 0, identity |-> "none"]
<1>1. UNCHANGED <<lc_profiles, lc_revision, lc_directory, lc_executable, lc_changes, lc_past>>
  BY DEF Lifecycle!PlanImplicit, Lifecycle!Keep, Lifecycle!world
<1>2. CASE Lifecycle!Refuse("plan")
  BY <1>1, <1>2, LifecycleRefuses
<1>3. CASE /\ lc_plan' = Lifecycle!Planned(contract, operation, target)
           /\ lc_pc = "plan" /\ lc_pc' = "bind" /\ lc_result' = lc_result
  <2>1. /\ lc_plan'.contract = contract /\ lc_plan'.operation = operation
        /\ lc_plan'.target.identity = "none"
        /\ operation = "status" => lc_plan'.rules = contract.rules
    BY <1>3 DEF Lifecycle!Planned
  <2>2. PlanStands'
    BY <2>1 DEF PlanStands, TargetIsNamed
  <2> QED
    BY <1>1, <1>3, <2>2, CommandGoesOn DEF LifecycleInv
<1> QED
  BY <1>2, <1>3 DEF Lifecycle!PlanImplicit, Lifecycle!Keep

\* So does the binding of the directory and the executable.
LEMMA BindCommandStep ==
    ASSUME LifecycleInv, NEW contract, NEW owner, Lifecycle!Bind(contract, owner)
    PROVE  LifecycleInv'
<1>1. UNCHANGED <<lc_profiles, lc_revision, lc_directory, lc_executable, lc_changes, lc_past>>
  BY DEF Lifecycle!Bind, Lifecycle!Keep, Lifecycle!world
<1>2. ASSUME NEW why, Lifecycle!Refuse(why) PROVE LifecycleInv'
  BY <1>1, <1>2, LifecycleRefuses
<1>3. CASE /\ lc_bound' = [kind |-> "bound", directory |-> lc_directory.identity, changes |-> lc_executable.changes,
                           digest |-> 0]
           /\ lc_pc = "bind" /\ lc_pc' = "digest" /\ lc_plan' = lc_plan /\ lc_result' = lc_result
  <2>1. lc_bound' \in BoundProcesses
    BY <1>3 DEF LifecycleInv, BoundProcesses, Places
  <2>2. PlanStands'
    BY <1>1, <1>3 DEF LifecycleInv, PlanStands, TargetIsNamed
  <2> QED
    BY <1>1, <1>3, <2>1, <2>2, CommandGoesOn DEF LifecycleInv
<1> QED
  BY <1>2, <1>3 DEF Lifecycle!Bind, Lifecycle!Keep

\* So does the digest of the plan.
LEMMA DigestCommandStep ==
    ASSUME LifecycleInv, Lifecycle!Digest
    PROVE  LifecycleInv'
<1>1. /\ UNCHANGED <<lc_profiles, lc_revision, lc_directory, lc_executable, lc_changes, lc_past>>
      /\ lc_pc = "digest" /\ lc_pc' = "resolved" /\ lc_plan' = lc_plan /\ lc_result' = lc_result
      /\ lc_bound' = [lc_bound EXCEPT !.digest = lc_executable.version]
  BY DEF Lifecycle!Digest, Lifecycle!Keep, Lifecycle!world
<1>2. lc_bound' \in BoundProcesses
  BY <1>1 DEF LifecycleInv, BoundProcesses
<1>3. PlanStands'
  BY <1>1 DEF LifecycleInv, PlanStands, TargetIsNamed
<1> QED
  BY <1>1, <1>2, <1>3, CommandGoesOn DEF LifecycleInv

\* So does the check of the plan that was resolved.
LEMMA ResolvedCommandStep ==
    ASSUME LifecycleInv, Lifecycle!Resolved
    PROVE  LifecycleInv'
<1>1. UNCHANGED <<lc_profiles, lc_revision, lc_directory, lc_executable, lc_changes, lc_past>>
  BY DEF Lifecycle!Resolved, Lifecycle!Keep, Lifecycle!world
<1>2. CASE Lifecycle!Refuse("bind")
  BY <1>1, <1>2, LifecycleRefuses
<1>3. CASE /\ lc_pc = "resolved" /\ lc_pc' = "before"
           /\ UNCHANGED <<lc_plan, lc_bound, lc_result, lc_ran>>
  <2>1. PlanStands'
    BY <1>1, <1>3 DEF LifecycleInv, PlanStands, TargetIsNamed
  <2> QED
    BY <1>1, <1>3, <2>1, CommandGoesOn DEF LifecycleInv
<1> QED
  BY <1>2, <1>3 DEF Lifecycle!Resolved, Lifecycle!Keep

\* So does the look before the command, from which the directories are listed.
LEMMA BeforeCommandStep ==
    ASSUME LifecycleInv, Lifecycle!Before
    PROVE  LifecycleInv'
<1>1. UNCHANGED <<lc_profiles, lc_revision, lc_directory, lc_executable, lc_changes, lc_past>>
  BY DEF Lifecycle!Before, Lifecycle!Keep, Lifecycle!world
<1>2. CASE Lifecycle!Refuse("changed")
  BY <1>1, <1>2, LifecycleRefuses
<1>3. CASE /\ lc_pc = "before" /\ lc_pc' = "launch" /\ Lifecycle!Revalidates
           /\ lc_ran' = [kind |-> "ran", version |-> 0, directories |-> <<lc_directory.identity>>]
           /\ UNCHANGED <<lc_plan, lc_bound, lc_result>>
  <2>1. PlanStands'
    BY <1>1, <1>3 DEF LifecycleInv, PlanStands, TargetIsNamed
  <2>2. lc_directory.identity \in lc_Directories /\ lc_bound.directory = lc_directory.identity
    BY <1>3 DEF LifecycleInv, Places, Lifecycle!Revalidates, Lifecycle!DirectoryUnchanged
  <2>3. Looked(lc_ran', lc_bound.directory, lc_directory.identity)
    BY <1>3, <2>2 DEF Looked, Runs
  <2> QED
    BY <1>1, <1>3, <2>1, <2>3, CommandGoesOn DEF LifecycleInv
<1> QED
  BY <1>2, <1>3 DEF Lifecycle!Before, Lifecycle!Keep

\* So does the launch.
LEMMA LaunchStep ==
    ASSUME LifecycleInv, Lifecycle!Launch
    PROVE  LifecycleInv'
<1>1. UNCHANGED <<lc_profiles, lc_revision, lc_directory, lc_executable, lc_changes, lc_past>>
  BY DEF Lifecycle!Launch, Lifecycle!Keep, Lifecycle!world
<1>2. CASE Lifecycle!Refuse("changed")
  BY <1>1, <1>2, LifecycleRefuses
<1>3. CASE /\ lc_pc = "launch" /\ lc_pc' = "running" /\ lc_executable.version = lc_bound.digest
           /\ lc_ran' = [lc_ran EXCEPT !.version = lc_executable.version]
           /\ UNCHANGED <<lc_plan, lc_bound, lc_result>>
  <2>1. PlanStands'
    BY <1>1, <1>3 DEF LifecycleInv, PlanStands, TargetIsNamed
  <2>2. Looked(lc_ran, lc_bound.directory, lc_directory.identity) /\ lc_executable.version \in Int
    BY <1>3 DEF LifecycleInv
  <2>3. Looked(lc_ran', lc_bound.directory, lc_directory.identity) /\ lc_ran'.version = lc_bound.digest
    BY <1>3, <2>2 DEF Looked, Runs
  <2> QED
    BY <1>1, <1>3, <2>1, <2>3, CommandGoesOn DEF LifecycleInv
<1> QED
  BY <1>2, <1>3 DEF Lifecycle!Launch, Lifecycle!Keep

\* So does the end of the command.
LEMMA RunCommandStep ==
    ASSUME LifecycleInv, Lifecycle!Run
    PROVE  LifecycleInv'
<1>1. /\ UNCHANGED <<lc_profiles, lc_revision, lc_directory, lc_executable, lc_changes, lc_past>>
      /\ lc_pc = "running" /\ lc_pc' = "after" /\ UNCHANGED <<lc_plan, lc_bound, lc_result, lc_ran>>
  BY DEF Lifecycle!Run, Lifecycle!Keep, Lifecycle!world
<1>2. PlanStands'
  BY <1>1 DEF LifecycleInv, PlanStands, TargetIsNamed
<1> QED
  BY <1>1, <1>2, CommandGoesOn DEF LifecycleInv

\* An answer that says ready comes of one state that rules say, and of an identity
\* that was expected.
LEMMA ReadySays ==
    ASSUME NEW ending, NEW output, NEW answer, answer = Lifecycle!Evaluate(ending, output),
           answer.kind = "status", answer.state = "ready", lc_plan.operation = "status",
           IsFiniteSet(DOMAIN lc_plan.rules)
    PROVE  LET payload == IF lc_plan.contract.format = "json" THEN output ELSE Lifecycle!None
               K == Lifecycle!Speaking(lc_plan.rules, ending.code, payload)
           IN  /\ K # {} /\ \A k \in K : lc_plan.rules[k].state = "ready"
               /\ Lifecycle!ExpectsIdentity(lc_plan.contract) =>
                     /\ lc_plan.target.identity # "none"
                     /\ Lifecycle!SameIdentity(lc_plan.contract, lc_plan.target.identity,
                                               payload.at[lc_plan.contract.selector].of)
<1> DEFINE payload == IF lc_plan.contract.format = "json" THEN output ELSE Lifecycle!None
           K == Lifecycle!Speaking(lc_plan.rules, ending.code, payload)
           states == Lifecycle!Collected(lc_plan.rules, K)
           state == CHOOSE s \in states : TRUE
<1>1. /\ Lifecycle!Conclusive(states)
      /\ answer = IF state # "ready" THEN Lifecycle!Answer(state, "not_evaluated") ELSE Lifecycle!Verified(payload)
  <2>1. (Lifecycle!Evaluation(lc_plan.rules, ending.code, payload)).states = states
    BY DEF Lifecycle!Evaluation
  <2>2. \A why : (Lifecycle!Refused(why)).kind # "status"
    BY DEF Lifecycle!Refused
  <2> DEFINE e == Lifecycle!Evaluation(lc_plan.rules, ending.code, payload)
             found == CHOOSE s \in e.states : TRUE
             final == IF found # "ready" THEN Lifecycle!Answer(found, "not_evaluated")
                      ELSE Lifecycle!Verified(payload)
  <2>3. (Lifecycle!Conclusive(e.states) /\ answer = final) \/ \E why : answer = Lifecycle!Refused(why)
    <3>1. answer = IF lc_plan.operation # "status" THEN Lifecycle!Refused("wrong_operation")
                   ELSE IF ~output.fits THEN Lifecycle!Refused("too_large")
                   ELSE IF ending.kind # "exited" THEN Lifecycle!Refused(ending.kind)
                   ELSE IF lc_plan.contract.format = "json" /\ ~Lifecycle!Parses(output)
                   THEN Lifecycle!Refused("malformed")
                   ELSE IF e.work > lc_MaxWork THEN Lifecycle!Refused("limit")
                   ELSE IF ~Lifecycle!Conclusive(e.states)
                   THEN Lifecycle!Refused(IF e.states = {} THEN "unmapped" ELSE "ambiguous")
                   ELSE final
      BY Zenon DEF Lifecycle!Evaluate
    <3> HIDE DEF e, final, found, payload
    <3> QED
      BY <3>1, Zenon
  <2>4. Lifecycle!Conclusive(e.states) /\ answer = final
    <3> HIDE DEF e, final
    <3> QED
      BY <2>2, <2>3
  <2> HIDE DEF K, e
  <2> QED
    BY <2>1, <2>4 DEF e
<1> HIDE DEF payload
<1>2. K # {} /\ \A k \in K : lc_plan.rules[k].state = state
  BY <1>1, OneStateIsSaid
<1> HIDE DEF K, states, state
<1>3. state = "ready" /\ answer = Lifecycle!Verified(payload)
  BY <1>1 DEF Lifecycle!Answer
<1>4. ASSUME Lifecycle!ExpectsIdentity(lc_plan.contract)
      PROVE  /\ lc_plan.target.identity # "none"
             /\ Lifecycle!SameIdentity(lc_plan.contract, lc_plan.target.identity,
                                       payload.at[lc_plan.contract.selector].of)
  <2>1. lc_plan.contract.identity \notin {"none", "unverified"}
    BY <1>4 DEF Lifecycle!ExpectsIdentity
  <2> DEFINE actual == IF payload = Lifecycle!None THEN [kind |-> "absent"]
                       ELSE payload.at[lc_plan.contract.selector]
  <2>2. answer = IF lc_plan.target.identity = "none" \/ ~Lifecycle!Text(actual) THEN Lifecycle!Refused("identity")
                 ELSE IF actual.of \notin lc_Identities THEN Lifecycle!Refused("identity")
                 ELSE IF Lifecycle!SameIdentity(lc_plan.contract, lc_plan.target.identity, actual.of)
                 THEN Lifecycle!Answer("ready", "matched")
                 ELSE Lifecycle!Answer("identity_mismatch", "mismatched")
    BY <1>3, <2>1 DEF Lifecycle!Verified
  <2>3. (Lifecycle!Refused("identity")).kind # "status"
    BY DEF Lifecycle!Refused
  <2>4. (Lifecycle!Answer("identity_mismatch", "mismatched")).state # "ready"
    BY DEF Lifecycle!Answer
  <2>5. /\ lc_plan.target.identity # "none" /\ Lifecycle!Text(actual)
        /\ Lifecycle!SameIdentity(lc_plan.contract, lc_plan.target.identity, actual.of)
    <3> HIDE DEF actual
    <3> QED
      BY <2>2, <2>3, <2>4
  <2>6. payload # Lifecycle!None
    BY <2>5 DEF Lifecycle!Text
  <2> QED
    BY <2>5, <2>6
<1> QED
  BY <1>2, <1>3, <1>4 DEF K, payload

\* So does the check after it.
LEMMA AfterStep ==
    ASSUME LifecycleInv, NEW ending, NEW output, Lifecycle!After(ending, output)
    PROVE  LifecycleInv'
<1>1. /\ UNCHANGED <<lc_profiles, lc_revision, lc_directory, lc_executable, lc_changes, lc_past>>
      /\ lc_pc = "after" /\ UNCHANGED <<lc_plan, lc_bound, lc_ran>>
  BY DEF Lifecycle!After, Lifecycle!world
<1>2. CASE ~Lifecycle!Revalidates
  BY <1>1, <1>2, LifecycleRefuses DEF Lifecycle!After
<1>3. CASE Lifecycle!Revalidates
  <2>1. lc_pc' = "done" /\ lc_shown' = [kind |-> "shown", ending |-> ending, output |-> output]
    BY <1>3 DEF Lifecycle!After
  <2>2. lc_result' = CASE lc_plan.operation = "status" -> Lifecycle!Evaluate(ending, output)
                       [] lc_plan.operation = "logout" -> [kind |-> "next", what |-> "invalidate"]
                       [] OTHER -> [kind |-> "next", what |-> "fresh_status"]
    BY <1>3 DEF Lifecycle!After
  <2>3. PlanStands /\ lc_bound \in BoundProcesses /\ lc_ran.version = lc_bound.digest
        /\ Looked(lc_ran, lc_bound.directory, lc_directory.identity)
    BY <1>1 DEF LifecycleInv
  <2>4. /\ lc_ran.directories[1] = lc_bound.directory
        /\ lc_ran.directories[Len(lc_ran.directories)] = lc_bound.directory
    BY <1>3, <2>3 DEF Lifecycle!Revalidates, Lifecycle!DirectoryUnchanged, Looked
  <2>5. Lifecycle!ReadyIsEarned'
    <3> SUFFICES ASSUME lc_result'.kind = "status" /\ lc_result'.state = "ready"
                 PROVE  Lifecycle!ReadyIsEarned'
      BY DEF Lifecycle!ReadyIsEarned
    <3>1. lc_plan.operation = "status" /\ lc_result' = Lifecycle!Evaluate(ending, output)
      BY <2>2
    <3>2. lc_plan.rules = lc_plan.contract.rules /\ IsFiniteSet(DOMAIN lc_plan.rules)
      BY <2>3, <3>1, RulesAssumed DEF PlanStands
    <3> DEFINE payload == IF lc_plan.contract.format = "json" THEN output ELSE Lifecycle!None
               K == Lifecycle!Speaking(lc_plan.rules, ending.code, payload)
    <3>3. /\ K # {} /\ \A k \in K : lc_plan.rules[k].state = "ready"
          /\ Lifecycle!ExpectsIdentity(lc_plan.contract) =>
                /\ lc_plan.target.identity # "none"
                /\ Lifecycle!SameIdentity(lc_plan.contract, lc_plan.target.identity,
                                          payload.at[lc_plan.contract.selector].of)
      BY <3>1, <3>2, ReadySays
    <3>4. K = {k \in DOMAIN lc_plan.contract.rules :
                  /\ Lifecycle!Applies(lc_plan.contract.rules[k], ending.code)
                  /\ Lifecycle!Matches(lc_plan.contract.rules[k], payload)}
      BY <3>2 DEF Lifecycle!Speaking
    <3>5. lc_shown'.output = output /\ lc_shown'.ending.code = ending.code
      BY <2>1
    <3>6. Lifecycle!ExpectsIdentity(lc_plan.contract) =>
             \E profile \in lc_past[lc_plan.target.alias] :
                /\ profile # Lifecycle!None /\ profile.revision = lc_plan.target.revision
                /\ Lifecycle!SameIdentity(lc_plan.contract, profile.identity,
                                          payload.at[lc_plan.contract.selector].of)
      <4> HIDE DEF payload, K
      <4> QED
        BY <2>3, <3>3 DEF PlanStands, TargetIsNamed
    <3> QED
      BY <1>1, <2>3, <2>4, <3>2, <3>3, <3>4, <3>5, <3>6 DEF Lifecycle!ReadyIsEarned
  <2> QED
    BY <1>1, <2>1, <2>5 DEF LifecycleInv
<1> QED
  BY <1>2, <1>3

\* Every step preserves the invariant.
LEMMA LifecycleStep == LifecycleInv /\ [Lifecycle!Next]_Lifecycle!vars => LifecycleInv'
<1> SUFFICES ASSUME LifecycleInv, [Lifecycle!Next]_Lifecycle!vars PROVE LifecycleInv'
  OBVIOUS
<1>1. CASE \E a \in lc_Aliases : Lifecycle!EditProfile(a)
  BY <1>1, EditProfileStep
<1>2. CASE Lifecycle!ReplaceDirectory
  BY <1>2, ReplaceDirectoryStep
<1>3. CASE Lifecycle!ReplaceExecutable
  BY <1>3, ReplaceExecutableStep
<1>4. CASE \E contract \in lc_Contracts, operation \in Lifecycle!Operations :
              Lifecycle!PlanImplicit(contract, operation)
  BY <1>4, PlanImplicitStep
<1>5. CASE \E contract \in lc_Contracts, operation \in Lifecycle!Operations, a \in lc_Aliases :
              Lifecycle!PlanProfile(contract, operation, a)
  BY <1>5, PlanProfileStep
<1>6. CASE \E contract \in lc_Contracts, owner \in lc_Aliases \cup {"none"} : Lifecycle!Bind(contract, owner)
  BY <1>6, BindCommandStep
<1>7. CASE Lifecycle!Digest
  BY <1>7, DigestCommandStep
<1>8. CASE Lifecycle!Resolved
  BY <1>8, ResolvedCommandStep
<1>13. CASE Lifecycle!Before
  BY <1>13, BeforeCommandStep
<1>9. CASE Lifecycle!Launch
  BY <1>9, LaunchStep
<1>10. CASE Lifecycle!Run
  BY <1>10, RunCommandStep
<1>11. CASE \E ending \in lc_Endings, output \in lc_Outputs : Lifecycle!After(ending, output)
  BY <1>11, AfterStep
<1>12. CASE UNCHANGED Lifecycle!vars
  BY <1>12 DEF Lifecycle!vars, Lifecycle!world, LifecycleInv, PlanStands, TargetIsNamed, Lifecycle!ReadyIsEarned
<1> QED
  BY <1>1, <1>2, <1>3, <1>4, <1>5, <1>6, <1>7, <1>8, <1>9, <1>10, <1>11, <1>12, <1>13 DEF Lifecycle!Next

\* Whatever is edited and replaced while a status command runs, with identities of
\* directories that come back or are used again, a profile is only called ready by
\* the command that was bound, by rules that agree, for the identity of the
\* revision, and when the directory had the identity that was bound at the looks
\* before and after the command; what was there in between is not claimed
\* (credential_lifecycle_execution.rs, credential_lifecycle_observation.rs).
THEOREM ReadyStaysEarned == Lifecycle!Spec => []ReadyIsEarned
<1>1. LifecycleInv => ReadyIsEarned
  BY DEF LifecycleInv, ReadyIsEarned
<1> QED
  BY <1>1, LifecycleStarts, LifecycleStep, PTL DEF Lifecycle!Spec
=============================================================================
