---------------------------- MODULE JailMembers ----------------------------
(***************************************************************************)
(* The processes of a macOS jail with exec roots.  They may fork and leave *)
(* the launcher's process group, so they are found by their sandbox: each  *)
(* jail has a directory, its sentinel, that only its own profile may read. *)
(* Teardown scans the processes of the user, stops and kills the members   *)
(* it finds, and ends after scans that found none.  The host that owns a   *)
(* jail may crash; another one then finds the sentinel and finishes.       *)
(*                                                                         *)
(* A scan lists the processes at one moment and looks at them one by one   *)
(* later.  A member that forks and exits between the two is not seen in    *)
(* that scan: MaxHops bounds how often that happens.                       *)
(***************************************************************************)
EXTENDS Integers, FiniteSets

CONSTANTS
    Pids,         \* process ids that members get, used again after an exit
    MaxStarts,    \* processes that are started
    MaxHops,      \* listed members that exit before they are looked at
    MaxUnknown,   \* looks that fail
    QuietScans    \* confirming scans

MembersAssumption ==
    /\ {MaxStarts, MaxHops, MaxUnknown, QuietScans} \subseteq Nat

\* What the confirming scans count on: no jail's members escape as many looks.
HopsAreFew == MaxHops < QuietScans

VARIABLES
    started,      \* processes started so far, which gives each its start time
    proc,         \* the start time under each pid, 0 for none
    stopped,      \* pids that are stopped
    owner,        \* the host that built the jail: "runs", "gone", or "reused" when
                  \* another process has its pid
    sentinel,     \* "none", "fresh" (no owner recorded yet), "owned"
    aged,         \* the sentinel is older than any run may take
    jail,         \* "new", "made", "ready", "running", "teardown", "over"
    sweeping,     \* a sweep is at work on the sentinel
    scan,         \* the scan of whoever tears the jail down
    survived,     \* a teardown ended without proof
    hops, unknown \* counted against their bounds

vars == <<started, proc, stopped, owner, sentinel, aged, jail, sweeping, scan, survived, hops, unknown>>

Off == [at |-> "off", todo |-> {}, members |-> {}, uncertain |-> FALSE, quiet |-> 0]
Alive == {p \in Pids : proc[p] # 0}
Key(p) == <<p, proc[p]>>

-----------------------------------------------------------------------------
(* The host that owns the jail.                                            *)

\* MacosJailMembers::new makes the sentinel, then records its owner.
MakeSentinel ==
    /\ owner = "runs" /\ jail = "new"
    /\ sentinel' = "fresh" /\ jail' = "made"
    /\ UNCHANGED <<started, proc, stopped, owner, aged, sweeping, scan, survived, hops, unknown>>
RecordOwner ==
    /\ owner = "runs" /\ jail = "made"
    /\ IF sentinel = "fresh" THEN sentinel' = "owned" /\ jail' = "ready"
       ELSE UNCHANGED sentinel /\ jail' = "over"
    /\ UNCHANGED <<started, proc, stopped, owner, aged, sweeping, scan, survived, hops, unknown>>

Start(p) ==
    /\ started < MaxStarts /\ proc[p] = 0
    /\ started' = started + 1
    /\ proc' = [proc EXCEPT ![p] = started + 1]

\* The first member that is outside of the launcher's process group.
Launch(p) ==
    /\ owner = "runs" /\ jail = "ready"
    /\ Start(p)
    /\ jail' = "running"
    /\ UNCHANGED <<stopped, owner, sentinel, aged, sweeping, scan, survived, hops, unknown>>

\* terminate_and_reap and try_wait: the group is killed, then the members are.
BeginTeardown ==
    /\ owner = "runs" /\ jail = "running"
    /\ jail' = "teardown"
    /\ scan' = [Off EXCEPT !.at = "between"]
    /\ UNCHANGED <<started, proc, stopped, owner, sentinel, aged, sweeping, survived, hops, unknown>>

\* Drop keeps the sentinel of a jail whose members may have survived.
Drop ==
    /\ owner = "runs" /\ jail = "over" /\ sentinel # "none" /\ ~survived
    /\ sentinel' = "none"
    /\ UNCHANGED <<started, proc, stopped, owner, aged, jail, sweeping, scan, survived, hops, unknown>>

\* A crash at any step; the members of the jail run on.
Crash ==
    /\ owner = "runs"
    /\ owner' = "gone"
    /\ scan' = IF sweeping THEN scan ELSE Off
    /\ UNCHANGED <<started, proc, stopped, sentinel, aged, jail, sweeping, survived, hops, unknown>>
ReusePid ==
    /\ owner = "gone" /\ owner' = "reused"
    /\ UNCHANGED <<started, proc, stopped, sentinel, aged, jail, sweeping, scan, survived, hops, unknown>>

-----------------------------------------------------------------------------
(* The members.                                                            *)

Runs(p) == p \in Alive \ stopped

Fork(p, child) ==
    /\ Runs(p) /\ Start(child)
    /\ UNCHANGED <<stopped, owner, sentinel, aged, jail, sweeping, scan, survived, hops, unknown>>

Exit(p) ==
    /\ Runs(p)
    /\ Key(p) \in scan.todo => hops < MaxHops
    /\ hops' = IF Key(p) \in scan.todo THEN hops + 1 ELSE hops
    /\ proc' = [proc EXCEPT ![p] = 0]
    /\ UNCHANGED <<started, stopped, owner, sentinel, aged, jail, sweeping, scan, survived, unknown>>

\* A member may signal the others of its sandbox.
Resume(p, q) ==
    /\ Runs(p) /\ q \in stopped
    /\ stopped' = stopped \ {q}
    /\ UNCHANGED <<started, proc, owner, sentinel, aged, jail, sweeping, scan, survived, hops, unknown>>

-----------------------------------------------------------------------------
(* kill_all, for the owner or for a sweep.                                 *)

\* all_pids
List ==
    /\ scan.at = "between"
    /\ scan' = [scan EXCEPT !.at = "looking", !.todo = {Key(p) : p \in Alive}, !.members = {}, !.uncertain = FALSE]
    /\ UNCHANGED <<started, proc, stopped, owner, sentinel, aged, jail, sweeping, survived, hops, unknown>>

\* probe and membership of one listed pid, under which another process may be by
\* now; a member is stopped as it is found.
Look(k) ==
    /\ scan.at = "looking" /\ k \in scan.todo
    /\ LET p == k[1] IN
        \/ /\ p \in Alive
           /\ stopped' = stopped \cup {p}
           /\ scan' = [scan EXCEPT !.todo = @ \ {k}, !.members = @ \cup {Key(p)}]
           /\ UNCHANGED unknown
        \/ /\ p \notin Alive
           /\ scan' = [scan EXCEPT !.todo = @ \ {k}]
           /\ UNCHANGED <<stopped, unknown>>
        \/ /\ unknown < MaxUnknown /\ unknown' = unknown + 1
           /\ scan' = [scan EXCEPT !.todo = @ \ {k}, !.uncertain = TRUE]
           /\ UNCHANGED stopped
    /\ UNCHANGED <<started, proc, owner, sentinel, aged, jail, sweeping, survived, hops>>

\* still_member, and the kill, of a member that was found.
Kill(k) ==
    /\ scan.at = "looking" /\ scan.todo = {} /\ k \in scan.members
    /\ IF k[1] \in Alive /\ Key(k[1]) = k
       THEN proc' = [proc EXCEPT ![k[1]] = 0] /\ stopped' = stopped \ {k[1]}
       ELSE UNCHANGED <<proc, stopped>>
    /\ scan' = [scan EXCEPT !.members = @ \ {k}, !.quiet = -1]
    /\ UNCHANGED <<started, owner, sentinel, aged, jail, sweeping, survived, hops, unknown>>

\* What is left when the teardown ends: a proof that all are dead, or not.
Ends(clean) ==
    /\ survived' = (survived \/ ~clean)
    /\ scan' = Off
    /\ jail' = IF sweeping THEN jail ELSE "over"
    /\ sentinel' = IF sweeping /\ clean THEN "none" ELSE sentinel
    /\ sweeping' = FALSE

\* The end of a scan.  One that found members starts the count again; the first
\* that found none begins it, and one with a process that could not be read too.
Quiet ==
    IF scan.quiet = -1 THEN 0 ELSE IF scan.uncertain THEN 1 ELSE scan.quiet + 1
EndScan ==
    /\ scan.at = "looking" /\ scan.todo = {} /\ scan.members = {}
    /\ \/ Quiet > QuietScans /\ Ends(TRUE)
       \/ /\ Quiet <= QuietScans
          /\ scan' = [scan EXCEPT !.at = "between", !.quiet = Quiet]
          /\ UNCHANGED <<survived, jail, sentinel, sweeping>>
       \/ Quiet <= QuietScans /\ Ends(FALSE)    \* the time is over
    /\ UNCHANGED <<started, proc, stopped, owner, aged, hops, unknown>>

\* The processes cannot be listed.
ListFails ==
    /\ scan.at = "between" /\ unknown < MaxUnknown
    /\ unknown' = unknown + 1
    /\ Ends(FALSE)
    /\ UNCHANGED <<started, proc, stopped, owner, aged, hops>>

-----------------------------------------------------------------------------
(* sweep_stale, by a host that started later.                              *)

\* More than any run's wall ceiling: the jail of a host that runs is not so old.
Age ==
    /\ sentinel # "none" /\ owner # "runs"
    /\ ~aged /\ aged' = TRUE
    /\ UNCHANGED <<started, proc, stopped, owner, sentinel, jail, sweeping, scan, survived, hops, unknown>>

\* Not the code: a failed look counts as a missing owner.
ConcludesHastily(probe) == IF probe = "same" THEN "alive" ELSE "gone"

\* owner_is_gone: what can be concluded from a look at the recorded pid.
Concludes(probe) ==
    CASE probe = "unknown" -> "nothing"
      [] probe = "not ours" -> "gone"
      [] probe = "other" -> "gone"
      [] probe = "same" -> "alive"
Probes == {CASE owner = "runs" -> "same" [] owner = "gone" -> "not ours" [] owner = "reused" -> "other"}
              \cup (IF unknown < MaxUnknown THEN {"unknown", "no record"} ELSE {})

\* A sentinel is stale when its owner is gone, and, when no record of the owner
\* can be read, when it is old.
Stale(probe) == IF probe = "no record" THEN aged ELSE Concludes(probe) = "gone"

Sweep(probe) ==
    /\ sentinel # "none" /\ ~sweeping
    /\ probe \in IF sentinel = "fresh" THEN {"no record"} ELSE Probes
    /\ Stale(probe)
    /\ sweeping' = TRUE
    /\ unknown' = IF sentinel = "owned" /\ probe \in {"unknown", "no record"} THEN unknown + 1 ELSE unknown
    /\ scan' = [Off EXCEPT !.at = "between"]
    /\ UNCHANGED <<started, proc, stopped, owner, sentinel, aged, jail, survived, hops>>

Init ==
    /\ started = 0 /\ proc = [p \in Pids |-> 0] /\ stopped = {}
    /\ owner = "runs" /\ sentinel = "none" /\ aged = FALSE /\ jail = "new"
    /\ sweeping = FALSE /\ scan = Off /\ survived = FALSE
    /\ hops = 0 /\ unknown = 0

Next ==
    \/ MakeSentinel \/ RecordOwner \/ BeginTeardown \/ Drop \/ Crash \/ ReusePid
    \/ \E p \in Pids : Launch(p)
    \/ \E p, q \in Pids : Fork(p, q)
    \/ \E p \in Pids : Exit(p)
    \/ \E p, q \in Pids : Resume(p, q)
    \/ List
    \/ \E k \in scan.todo : Look(k)
    \/ \E k \in scan.members : Kill(k)
    \/ EndScan
    \/ ListFails
    \/ Age
    \/ \E probe \in {"same", "other", "not ours", "unknown", "no record"} : Sweep(probe)

Spec == Init /\ [][Next]_vars

-----------------------------------------------------------------------------

\* As long as a member lives, so does the sentinel by which it can be found: it
\* is removed only after scans that prove every member dead, by the jail that
\* ends or by a later sweep, whatever crashes in between.
SurvivorsKeepTheirSentinel == Alive # {} => sentinel # "none"
=============================================================================
