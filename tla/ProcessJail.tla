---------------------------- MODULE ProcessJail ----------------------------
(***************************************************************************)
(* The strict jail of one command: what a caller configures (limits, a     *)
(* broker, an interpreter, directories to run programs from, staged        *)
(* files), what the jail says of itself, and the launch that must keep it. *)
(* The files of the host may change between any two of these steps.        *)
(*                                                                         *)
(* A launch is abstracted to what the launcher is told: on macOS the rules *)
(* of a profile, of which the last that applies decides, on Linux a        *)
(* sequence of mounts, of which the last on a path hides the others.       *)
(* Rules, or mounts, that follow each other and say the same of several    *)
(* paths are one, for the set of those paths.                              *)
(*                                                                         *)
(* First what a jail asks of the files of its host before it relies on     *)
(* them: that a path is what it is spelled as, that only root (or root and *)
(* the user) can change it, and that a whole tree is so.  A path is a      *)
(* sequence of names and a file system a function from paths to nodes      *)
(* [kind, owner, open, sticky, links, target, bytes, id]: "open" is a mode *)
(* that lets a group or everybody write, "id" what device, inode, length   *)
(* and times identify.                                                     *)
(***************************************************************************)
EXTENDS Integers, Sequences, FiniteSets, SequencesExt

CONSTANTS
    MaxTree,       \* entries of a tree that are looked at before it is refused
    MaxLinks,      \* links that the host follows before it refuses a path
    Version,       \* the version named by each file name "python3.N"
    Hosts,         \* hosts to build on: [platform, facts, hard]
    Installed,     \* the files of the host
    Changes,       \* what may happen to one of them: [at, node]
    MaxChanges,    \* changes of the host
    HardLimits,    \* hard limits of tasks that the process may be left with
    Limits,        \* limits that a caller asks for
    Ceilings,      \* the most the runtime allows
    MinBrokered,   \* open files that a relayed jail needs
    Brokers,       \* brokers that a caller names
    Forbidden,     \* homes, and directories that no root may overlap
    Declarations,  \* directories to run from: [roots, search]
    Stagers,       \* threads that stage input files
    Inputs,        \* the staged files: [name, length]
    Helpers, LauncherPaths, Candidates, Needed, Bundles, System,
                   \* where helpers, launchers, interpreters, trust bundles and
                   \* the directories of the system are
    Programs,      \* installed programs that a call may name
    Contract,      \* variables that a contract gives to the command
    Work,          \* the private directory of the jail
    Snapshot       \* the copy of the program: <<..., name>>

-----------------------------------------------------------------------------
(* The files of the host.                                                  *)

Absent ==
    [kind |-> "none", owner |-> "none", open |-> FALSE, sticky |-> FALSE, links |-> 0,
     target |-> <<>>, bytes |-> "none", id |-> 0]
Nowhere == <<"nowhere">>

At(files, p) == IF p \in DOMAIN files THEN files[p] ELSE Absent
Under(p, q) == IsPrefix(q, p)
Parent(p) == Front(p)
Spelling(p) == {SubSeq(p, 1, n) : n \in 0..Len(p)}    \* the path and its ancestors
Below(files, p) == {q \in DOMAIN files : Under(q, p) /\ q # p}

\* Nobody but root can change the entry.
RootOnly(node) == node.owner = "root" /\ ~node.open
\* Nobody but root and the user can.
OwnOrRoot(node) == node.owner \in {"root", "user"} /\ ~node.open

\* The links that a path goes through, and the path behind the first of them.
LinksOn(files, p) == {q \in Spelling(p) : At(files, q).kind = "link"}
Behind(files, p, links) ==
    IF links = {} THEN p
    ELSE LET q == CHOOSE q \in links : \A o \in links : Len(q) <= Len(o)
         IN  At(files, q).target \o SubSeq(p, Len(q) + 1, Len(p))
Follow(files, p) == Behind(files, p, LinksOn(files, p))

\* canonicalize: every link is followed; what does not exist is nowhere.
Existing(files, p) == IF LinksOn(files, p) # {} \/ At(files, p).kind = "none" THEN Nowhere ELSE p
Canonical(files, p) ==
    Existing(files, FoldLeft(LAMBDA at, hop : Follow(files, at), p, [hop \in 1..MaxLinks |-> hop]))

\* canonicalize gives back a path that exists just when it goes through no link.
RealFile(files, p) == At(files, p).kind = "file" /\ LinksOn(files, p) = {}
RealDirectory(files, p) == At(files, p).kind = "directory" /\ LinksOn(files, p) = {}

\* A launcher, helper, image or bundle: a real file that only root can replace.
TrustedLauncher(files, p) == RealFile(files, p) /\ \A q \in Spelling(p) : RootOnly(At(files, q))

\* The mode of a link says nothing.
TrustedTreeEntry(node) == node.owner = "root" /\ (node.kind = "link" \/ ~node.open)

\* symlink_metadata follows every link but the last.
Entry(files, p) == IF p = <<>> THEN At(files, p) ELSE At(files, Canonical(files, Parent(p)) \o <<Last(p)>>)
\* Every part of the spelling is root's, the links in it included.
RootOwnedSpelling(files, p) == \A q \in Spelling(p) : TrustedTreeEntry(Entry(files, q))

\* walk_tree: the entries met below a directory when denied ones are not entered.
Walked(files, root, denied) ==
    {p \in Below(files, root) : \A q \in denied : ~(Under(p, q) /\ p # q)}
TrustedTree(files, root, denied) ==
    /\ RealDirectory(files, root)
    /\ \A q \in Spelling(root) : RootOnly(At(files, q))
    /\ Cardinality(Walked(files, root, denied)) <= MaxTree
    /\ \A p \in Walked(files, root, denied) : TrustedTreeEntry(files[p])

TrustedDirectory(files, p) == At(files, p).kind = "directory" /\ OwnOrRoot(At(files, p))
\* A root of what may be run in place; above it a sticky directory of root's will do.
TrustedRoot(files, p) ==
    /\ TrustedDirectory(files, p)
    /\ \A q \in Spelling(p) \ {p} :
        LET node == At(files, q) IN
        /\ node.kind = "directory" /\ node.owner \in {"root", "user"}
        /\ ~node.open \/ (node.sticky /\ node.owner = "root")

\* No file below an excluded directory has a second name.
SingleLinkTree(files, p) ==
    /\ Cardinality(Below(files, p)) <= MaxTree
    /\ \A q \in Below(files, p) : files[q].kind = "file" => files[q].links = 1

BrokerSocket(files, p) ==
    /\ At(files, p).kind = "socket" /\ At(files, p).owner = "user" /\ LinksOn(files, p) = {}
    /\ TrustedDirectory(files, Parent(p))

-----------------------------------------------------------------------------
(* The pinned interpreter.                                                 *)

NoInterpreter ==
    [platform |-> "none", version |-> "none", executable |-> <<>>, images |-> <<>>,
     libraries |-> {}, denied |-> {}, digest |-> <<>>]
NoLayout == [executable |-> Nowhere, images |-> <<>>, libraries |-> {}, denied |-> {}]

Digest(files, paths) == [i \in DOMAIN paths |-> At(files, paths[i]).bytes]

\* The first directory that has the library which the executable needs. Names
\* of libraries are given with the executable: <<>> is a static build.
LibraryImages(files, needed, directories) ==
    LET Holder(name) ==
            LET real == [i \in DOMAIN directories |-> Canonical(files, directories[i])]
                holding == SelectSeq(real, LAMBDA d : At(files, d \o <<name>>).kind = "file")
            IN  IF holding = <<>> THEN Nowhere ELSE Head(holding) \o <<name>>
    IN  [i \in DOMAIN needed |-> Holder(needed[i])]

\* canonical_unique_directories
RealDirectories(files, candidates) ==
    {d \in {Canonical(files, c) : c \in candidates} : At(files, d).kind = "directory"}

\* <prefix>/bin/python3.N and <prefix>/lib{,64}/python3.N
LinuxLayout(files, real, needed) ==
    LET prefix == Parent(Parent(real))
        libraries == RealDirectories(files, {prefix \o <<l, Last(real)>> : l \in {"lib", "lib64"}})
        images ==
            LibraryImages(files, needed, <<prefix \o <<"lib64">>, prefix \o <<"lib", "multiarch">>, prefix \o <<"lib">> >>)
    IN  IF /\ Last(Parent(real)) = "bin"
           /\ \E l \in libraries : At(files, l \o <<"os.py">>).kind = "file"
           /\ Nowhere \notin Range(images)
        THEN [executable |-> real, images |-> images, libraries |-> libraries, denied |-> {}]
        ELSE NoLayout

\* <name>.framework/Versions/X.Y/bin/pythonX.Y: the application inside the
\* framework is run, its library is an image, its site-packages are denied.
MacosLayout(files, real) ==
    LET version == Parent(Parent(real))
        stdlib == version \o <<"lib", Last(real)>>
        framework == Last(Parent(Parent(version)))
    IN  IF /\ Last(Parent(real)) = "bin" /\ Last(version) = Version[Last(real)]
           /\ Last(Parent(version)) = "Versions" /\ framework = "Python.framework"
           /\ At(files, stdlib \o <<"os.py">>).kind = "file"
        THEN [executable |-> version \o <<"Resources", "Python">>, images |-> <<version \o <<"Python">> >>,
              libraries |-> {version \o <<"lib">>}, denied |-> {stdlib \o <<"site-packages">>}]
        ELSE NoLayout

\* revalidate: every check and the digest again.
Revalidated(files, i) ==
    /\ TrustedLauncher(files, i.executable)
    /\ \A k \in DOMAIN i.images : TrustedLauncher(files, i.images[k])
    /\ \A l \in i.libraries : TrustedTree(files, l, i.denied)
    /\ Digest(files, <<i.executable>> \o i.images) = i.digest

Pinned(files, platform, version, layout) ==
    [platform |-> platform, version |-> version, executable |-> layout.executable,
     images |-> layout.images, libraries |-> layout.libraries, denied |-> layout.denied,
     digest |-> Digest(files, <<layout.executable>> \o layout.images)]

\* python3_candidate; no interpreter when any check fails.
Python3Candidate(files, platform, candidate, needed) ==
    LET real == Canonical(files, candidate)
        layout == IF platform = "macos" THEN MacosLayout(files, real) ELSE LinuxLayout(files, real, needed)
        found == Pinned(files, platform, Version[Last(real)], layout)
    IN  IF /\ RootOwnedSpelling(files, candidate) /\ TrustedLauncher(files, real)
           /\ Last(real) \in DOMAIN Version /\ layout # NoLayout
           /\ Revalidated(files, found)
        THEN found
        ELSE NoInterpreter

\* python3_for_host: the first candidate that passes.
Python3(files, platform, candidates, needed) ==
    LET Found(i) == Python3Candidate(files, platform, candidates[i], needed)
        passing == {i \in DOMAIN candidates : Found(i) # NoInterpreter}
    IN  IF passing = {} THEN NoInterpreter ELSE Found(CHOOSE i \in passing : \A k \in passing : i <= k)

-----------------------------------------------------------------------------
(* The jail.                                                               *)

\* What may be at a path.
Places == DOMAIN Installed \cup {c.at : c \in Changes}
NodesAt(p) == {Installed[q] : q \in DOMAIN Installed \cap {p}} \cup {c.node : c \in {d \in Changes : d.at = p}}

JailAssumption ==
    /\ MaxTree \in Nat /\ MaxLinks \in Nat /\ MaxChanges \in Nat /\ MinBrokered \in Nat
    /\ HardLimits \subseteq Nat
    /\ \A h \in Hosts : h.platform \in {"macos", "linux"} /\ h.hard \in Nat
    \* nothing is below a file or a socket, and no path is "nowhere"
    /\ \A p \in Places :
        /\ p \in Seq(STRING) /\ p # Nowhere
        /\ (\E node \in NodesAt(p) : node.kind \in {"file", "socket"}) => \A q \in Places : Under(q, p) => q = p
    \* one identity, which has the time of the last change in it, is of one content
    /\ \A p \in Places : \A m, n \in NodesAt(p) :
        m.kind = "file" /\ n.kind = "file" /\ m.id = n.id => m.bytes = n.bytes
    \* somebody else than root may change what leads to the copy of the program
    /\ Snapshot \in Seq(STRING) \ {<<>>}
    /\ \E q \in Spelling(Snapshot) : \A node \in NodesAt(q) : ~RootOnly(node)
    /\ Work \in Seq(STRING)
    /\ System.macos \subseteq Seq(STRING) /\ System.linux \subseteq Seq(STRING)
    /\ {"files", "file_bytes", "total_bytes", "tasks"} \subseteq DOMAIN Ceilings
    /\ \A f \in DOMAIN Ceilings : Ceilings[f] \in Nat
    /\ \A b \in Brokers :
        /\ b.kind \in {"none", "unix_socket", "loopback_tcp"} /\ b.at \in Seq(STRING)
        /\ b = [kind |-> b.kind, at |-> b.at, bundle |-> b.bundle]
    /\ \A d \in Declarations : \A r \in Range(d.roots) : r.path \in Seq(STRING) /\ r.excluded \subseteq Seq(STRING)
    /\ \A i \in Inputs : i.length \in Nat /\ i.name # "none"

VARIABLES
    platform,    \* the host
    facts,       \* what it says of user namespaces
    changed,     \* what has changed on it
    hard,        \* its hard limit of tasks
    reading,     \* a jail being built: its helper has been read
    jail,        \* the jail
    found,       \* an interpreter that was found
    declared,    \* directories that were accepted
    work,        \* the working directory: the length of each staged file
    folder,      \* it has a directory for staged files
    stage,       \* what each thread stages
    launched     \* the last command

vars == <<platform, facts, changed, hard, reading, jail, found, declared, work, folder, stage, launched>>

\* The files with what has happened to them.
After(changes) ==
    [p \in DOMAIN Installed \cup {c.at : c \in changes} |->
        IF \E c \in changes : c.at = p THEN (CHOOSE c \in changes : c.at = p).node ELSE Installed[p]]
Files == After(changed)

NoJail == [platform |-> "none"]
NoBroker == [kind |-> "none", at |-> <<>>, bundle |-> Nowhere]
\* "seen" is a history: which file the digest was made of.  The code keeps the "id"
\* that it looks up afterwards.
NoHelper == [path |-> Nowhere, digest |-> "none", seen |-> 0, id |-> 0, exact |-> FALSE]
NoRoots == [roots |-> <<>>, search |-> <<>>]
Idle == [name |-> "none", length |-> 0]
Nothing == [platform |-> "none"]

-----------------------------------------------------------------------------
(* Building a jail.                                                        *)

ValidLimits(l) ==
    /\ \A f \in DOMAIN Ceilings : l[f] \in 1..Ceilings[f]
    /\ l.open_files >= 3 /\ l.tasks >= l.processes /\ l.file_bytes <= l.total_bytes

\* The first path that passes, if one does.
First(paths, Test(_)) ==
    LET first == {i \in DOMAIN paths : Test(paths[i]) /\ \A k \in 1..(i - 1) : ~Test(paths[k])}
    IN  IF first = {} THEN Nowhere ELSE paths[CHOOSE i \in first : TRUE]
Launcher == First(LauncherPaths[platform], LAMBDA p : TrustedLauncher(Files, p))
Helper == First(Helpers, LAMBDA p : TrustedLauncher(Files, p))
TrustBundle == Canonical(Files, First(Bundles[platform], LAMBDA p : TrustedLauncher(Files, Canonical(Files, p))))

\* brokered_egress_for: each platform has one kind of broker.
BrokerFits(b) ==
    \/ b.kind = "none"
    \/ platform = "macos" /\ b.kind = "loopback_tcp"
    \/ platform = "linux" /\ b.kind = "unix_socket" /\ BrokerSocket(Files, b.at)
Bound(b) == IF b.kind = "none" THEN NoBroker ELSE [b EXCEPT !.bundle = TrustBundle]

\* Whether a limit of tasks set inside the jail binds that jail alone.
ExactTaskCeiling ==
    /\ ~facts.root /\ facts.kernel
    /\ facts.setuid => facts.namespaces /\ ~facts.disabled /\ facts.most # 0

\* Tasks of the jail's own: an init, and the relay.
HelperTasks(j) == IF j.broker = NoBroker THEN 1 ELSE 2

\* build, up to the bytes of the helper.
Read(l, b) ==
    /\ jail = NoJail /\ reading = NoJail
    /\ ValidLimits(l) /\ Launcher # Nowhere /\ BrokerFits(b)
    /\ platform = "linux" =>
        /\ b.kind # "none" => l.open_files >= MinBrokered
        /\ Helper # Nowhere
    /\ reading' = [platform |-> platform, limits |-> l, broker |-> Bound(b), interpreter |-> NoInterpreter,
                   roots |-> NoRoots, launcher |-> Launcher,
                   helper |-> IF platform = "macos" THEN NoHelper
                              ELSE [NoHelper EXCEPT !.path = Helper, !.digest = Files[Helper].bytes,
                                                 !.seen = Files[Helper].id]]
    /\ UNCHANGED <<platform, facts, changed, hard, jail, found, declared, work, folder, stage, launched>>

\* The rest of build: which file the helper is, and whether its limit is exact.
Build ==
    /\ reading # NoJail
    /\ jail' = IF platform = "macos" THEN reading
               ELSE [reading EXCEPT !.helper.id = At(Files, reading.helper.path).id,
                                    !.helper.exact = /\ ExactTaskCeiling
                                                     /\ hard >= reading.limits.tasks + HelperTasks(reading)]
    /\ reading' = NoJail
    /\ UNCHANGED <<platform, facts, changed, hard, found, declared, work, folder, stage, launched>>

-----------------------------------------------------------------------------
(* The interpreter, and the directories to run programs from.              *)

Discover ==
    /\ found = NoInterpreter
    /\ found' = Python3(Files, platform, Candidates[platform], Needed)
    /\ found' # NoInterpreter
    /\ UNCHANGED <<platform, facts, changed, hard, reading, jail, declared, work, folder, stage, launched>>

\* with_interpreter
WithInterpreter ==
    /\ jail # NoJail /\ jail.interpreter = NoInterpreter
    /\ found.platform = jail.platform /\ Revalidated(Files, found)
    /\ jail' = [jail EXCEPT !.interpreter = found]
    /\ UNCHANGED <<platform, facts, changed, hard, reading, found, declared, work, folder, stage, launched>>

Overlap(p, q) == Under(p, q) \/ Under(q, p)
Excluded(r) == {r.path \o x : x \in r.excluded}
RootsOf(d) == Range(d.roots)
AllExcluded(d) == UNION {Excluded(r) : r \in RootsOf(d)}
\* Inside a root and outside of what is excluded from it.
Inside(d, p) == \E r \in RootsOf(d) : Under(p, r.path) /\ \A x \in Excluded(r) : ~Under(p, x)
Admits(d, p) == \E r \in RootsOf(d) : Under(p, r.path) /\ p # r.path /\ \A x \in Excluded(r) : ~Under(p, x)

Reserved == {<<"app">>, <<"work">>, <<"proc">>, <<"dev">>, <<"run", "magicrun">>}

\* declared, and the homes and forbidden directories of new_with_forbidden.
Acceptable(d) ==
    /\ d.roots # <<>>
    /\ \A i \in DOMAIN d.roots :
        LET r == d.roots[i] IN
        /\ r.path # <<>> /\ <<>> \notin r.excluded
        /\ \A q \in Reserved : ~Overlap(r.path, q)
        /\ \A j \in 1..(i - 1) : ~Overlap(r.path, d.roots[j].path)
        /\ \A h \in Forbidden.homes : ~Under(Canonical(Files, h), r.path)
        /\ \A q \in Forbidden.overlap : ~Overlap(r.path, q)
    /\ \A i \in DOMAIN d.search : Inside(d, d.search[i])
    /\ IsInjective(d.search)

\* revalidate
RootsStand(d) ==
    /\ \A r \in RootsOf(d) :
        /\ RealDirectory(Files, r.path) /\ TrustedRoot(Files, r.path)
        /\ \A x \in Excluded(r) : RealDirectory(Files, x) /\ SingleLinkTree(Files, x)
    /\ \A i \in DOMAIN d.search :
        /\ RealDirectory(Files, d.search[i])
        /\ \A r \in RootsOf(d) : Under(d.search[i], r.path) =>
            \A q \in Spelling(d.search[i]) : Len(q) > Len(r.path) => TrustedDirectory(Files, q)

Declare(d) ==
    /\ declared = NoRoots
    /\ Acceptable(d) /\ RootsStand(d)
    /\ declared' = d
    /\ UNCHANGED <<platform, facts, changed, hard, reading, jail, found, work, folder, stage, launched>>

\* with_exec_roots: one declaration, before any file is staged.
WithExecRoots ==
    /\ jail # NoJail /\ declared # NoRoots
    /\ jail.roots = NoRoots
    /\ \A r \in RootsOf(declared) : ~Overlap(Work, r.path)
    /\ DOMAIN work = {} /\ ~folder /\ \A t \in Stagers : stage[t] = Idle
    /\ RootsStand(declared)
    /\ jail' = [jail EXCEPT !.roots = declared]
    /\ UNCHANGED <<platform, facts, changed, hard, reading, found, declared, work, folder, stage, launched>>

-----------------------------------------------------------------------------
(* Staged files.                                                           *)

\* The bytes of all files, counted.
Bytes(w) == Cardinality(UNION {{n} \X (1..w[n]) : n \in DOMAIN w})
Entries == Cardinality(DOMAIN work) + (IF folder THEN 1 ELSE 0)

\* workdir_within_limits: what the watchdog asks of the directory.
WithinLimits(entries) ==
    /\ entries <= jail.limits.files
    /\ \A n \in DOMAIN work : work[n] <= jail.limits.file_bytes
    /\ Bytes(work) <= jail.limits.total_bytes

\* One thread at a time checks and writes.  Not the code: without the lock.
Unlocked(t) == stage[t] = Idle
TakesLock(t) == \A u \in Stagers : stage[u] = Idle

\* stage_input_file up to its check.
Admit(t, i) ==
    /\ jail # NoJail /\ TakesLock(t)
    /\ i.length <= jail.limits.file_bytes
    /\ Entries + 1 <= jail.limits.files
    /\ Bytes(work) + i.length <= jail.limits.total_bytes
    /\ stage' = [stage EXCEPT ![t] = i]
    /\ UNCHANGED <<platform, facts, changed, hard, reading, jail, found, declared, work, folder, launched>>

\* The rest of it: the file is created fresh; one that cannot be written goes
\* again, and the directory it was made for stays.
Write(t, written) ==
    /\ stage[t] # Idle
    /\ folder' = (folder \/ jail.roots # NoRoots)
    /\ work' = IF written
               THEN [n \in DOMAIN work \cup {stage[t].name} |-> IF n \in DOMAIN work THEN work[n] ELSE stage[t].length]
               ELSE work
    /\ stage' = [stage EXCEPT ![t] = Idle]
    /\ UNCHANGED <<platform, facts, changed, hard, reading, jail, found, declared, launched>>

-----------------------------------------------------------------------------
(* macOS: a profile.                                                       *)

Rule(allow, ops, paths, deep) == [allow |-> allow, ops |-> ops, at |-> paths, deep |-> deep]
Allow(ops, paths) == Rule(TRUE, ops, paths, FALSE)
AllowBelow(ops, paths) == Rule(TRUE, ops, paths, TRUE)
DenyBelow(ops, paths) == Rule(FALSE, ops, paths, TRUE)

\* The last rule that applies decides; none denies.
Applies(rule, op, p) == op \in rule.ops /\ IF rule.deep THEN \E q \in rule.at : Under(p, q) ELSE p \in rule.at
Decides(rules, op, p) ==
    \E i \in DOMAIN rules :
        /\ rules[i].allow /\ Applies(rules[i], op, p)
        /\ \A k \in DOMAIN rules : k > i => ~Applies(rules[k], op, p)

OnlyIf(condition, paths) == IF condition THEN paths ELSE {}
\* The copy of a program, or the program in place, and what the system is told to execute.
Program(j, program) == IF j.roots = NoRoots THEN Snapshot ELSE program
Executable(j, program) ==
    IF j.interpreter = NoInterpreter THEN Program(j, program) ELSE j.interpreter.executable

\* Directories of the system's programs, which may be run with declared roots.
Programmes == System.programs[platform]
Granted(j) == OnlyIf(j.roots # NoRoots, Programmes)
BundleDirectory(b) == OnlyIf(b.bundle # Nowhere, {Parent(b.bundle)})

\* macos_profile: nothing forks, one program runs, the system and the copy are
\* read, and the private directory is written but not mapped.
NoForks == DenyBelow({"fork"}, {<<>>})
Runs(program) == Allow({"exec", "read"}, {program})
SystemRead(j) == AllowBelow({"read"}, System.macos \cup OnlyIf(j.roots = NoRoots, {Parent(Snapshot)}))
WorkWritten == AllowBelow({"read", "write"}, {Work})
WorkUnmapped == DenyBelow({"map"}, {Work})

\* macos_interpreter_profile
ScriptRead(j) == Allow({"read"}, OnlyIf(j.roots = NoRoots /\ j.interpreter # NoInterpreter, {Snapshot}))
ImagesRead(i) == Allow({"read"}, Range(i.images))
LibrariesRead(i) == AllowBelow({"read"}, i.libraries)
SiteDenied(i) == DenyBelow({"read"}, i.denied)

\* macos_exec_roots_profile: what is excluded is denied behind all that is allowed.
RootForks(j) == AllowBelow({"fork"}, OnlyIf(j.roots # NoRoots, {<<>>}))
ProgrammesRun(j) == AllowBelow({"read", "exec"}, Granted(j))
RootsRun(d) == AllowBelow({"read", "exec", "map"}, {r.path : r \in RootsOf(d)})
ExcludedDenied(d) == DenyBelow({"read", "exec", "map"}, AllExcluded(d))

\* macos_egress_rules
BundleRead(b) == AllowBelow({"read"}, BundleDirectory(b))
BrokerReached(b) == Allow({"connect"}, OnlyIf(b # NoBroker, {b.at}))

\* macos_command
Profile(j, program) ==
    <<NoForks, Runs(Executable(j, program)), SystemRead(j), WorkWritten, WorkUnmapped,
      ScriptRead(j), ImagesRead(j.interpreter), LibrariesRead(j.interpreter),
      RootForks(j), ProgrammesRun(j), RootsRun(j.roots), ExcludedDenied(j.roots),
      SiteDenied(j.interpreter), BundleRead(j.broker), BrokerReached(j.broker)>>

-----------------------------------------------------------------------------
(* Linux: mounts.                                                          *)

\* Each pair is a place in the jail and what of the host is there.
Mount(pairs, writable) == [pairs |-> pairs, writable |-> writable]
ReadOnly(paths) == Mount({<<p, p>> : p \in paths}, FALSE)
Masked(paths) == Mount({<<p, Nowhere>> : p \in paths}, FALSE)
Put(p, paths) == Mount({<<p, of>> : of \in paths}, FALSE)

InterpreterGrants(i) == OnlyIf(i # NoInterpreter, {i.executable} \cup Range(i.images) \cup i.libraries)

\* linux_bwrap_args_for, with those directories of the system that are there: the
\* empty root is made read-only once all is mounted.
Mounts(j, there) ==
    <<Masked({<<>>}), ReadOnly(System.linux \cap there), Put(<<"app">>, OnlyIf(j.roots = NoRoots, {Parent(Snapshot)})),
      ReadOnly(Granted(j) \cap there), ReadOnly({r.path : r \in RootsOf(j.roots)}), Masked(AllExcluded(j.roots)),
      Mount({<<<<"work">>, Work>>}, TRUE), Put(<<"run", "magicrun", "jail-helper">>, {j.helper.path}),
      Put(<<"run", "magicrun", "egress.sock">>, OnlyIf(j.broker # NoBroker, {j.broker.at})),
      Put(<<"etc", "ssl", "certs">>, OnlyIf(j.broker.bundle # Nowhere, {j.broker.bundle})),
      ReadOnly(InterpreterGrants(j.interpreter))>>

\* The mounts a path of the host is seen by: none that follows is on its place.
Covers(mount, q) == \E m \in mount.pairs : Under(q, m[1])
SeenBy(mounts, p) ==
    {i \in DOMAIN mounts :
        \E m \in mounts[i].pairs :
            LET q == m[1] \o SubSeq(p, Len(m[2]) + 1, Len(p)) IN
            /\ m[2] # Nowhere /\ Under(p, m[2])
            /\ \A k \in DOMAIN mounts : k > i => ~Covers(mounts[k], q)}

-----------------------------------------------------------------------------
(* The launch, and what the jail says of it.                               *)

\* The arguments before those of the call.
Flags(j) == IF j.roots = NoRoots THEN <<"-I", "-S", "-B">> ELSE <<"-s", "-B">>
Arguments(j, program) ==
    IF j.interpreter = NoInterpreter THEN <<Program(j, program)>>
    ELSE <<j.interpreter.executable>> \o Flags(j) \o <<Program(j, program)>>

\* harden_environment: the fixed variables go over those of the contract, and
\* what a loader reads is removed.
Home == {"HOME", "PATH", "TMPDIR", "TMP", "TEMP"}
Loader == {"DYLD_INSERT_LIBRARIES", "LD_PRELOAD", "GLIBC_TUNABLES", "__PYVENV_LAUNCHER__"}
Python == {"PYTHONNOUSERSITE", "PYTHONDONTWRITEBYTECODE", "OPENSSL_CONF"}
Proxies == {"HTTPS_PROXY", "https_proxy", "HTTP_PROXY", "http_proxy", "ALL_PROXY", "all_proxy"}
NoProxies == {"NO_PROXY", "no_proxy"}
Certificates == "SSL_CERT_FILE"
\* exec_roots_environment_template
RootsOverlay(j) == IF j.roots = NoRoots THEN {} ELSE {"PATH"} \cup Python
Environment(j) ==
    LET fixed == Home \cup RootsOverlay(j) \cup (IF j.broker = NoBroker THEN {} ELSE Proxies \cup NoProxies)
        bundle == j.broker.bundle # Nowhere
    IN  [v \in (((Contract \cup fixed) \ Loader) \ {Certificates}) \cup (IF bundle THEN {Certificates} ELSE {}) |->
            IF v \in fixed \/ v = Certificates THEN "jail" ELSE "contract"]

\* linux_launch: the helper is still the file it was, and can set the limit.
HelperStands(j) ==
    /\ TrustedLauncher(Files, j.helper.path)
    /\ At(Files, j.helper.path).id = j.helper.id
    /\ j.helper.exact => hard >= j.limits.tasks + HelperTasks(j)
    /\ j.broker # NoBroker =>
        /\ BrokerSocket(Files, j.broker.at)
        /\ j.broker.bundle # Nowhere => TrustedLauncher(Files, j.broker.bundle)

\* command, for an installed program; a refusal changes nothing.
MayLaunch(program) ==
    /\ jail # NoJail
    /\ TrustedLauncher(Files, jail.launcher) /\ RealFile(Files, Snapshot) /\ RealDirectory(Files, Work)
    /\ jail.interpreter # NoInterpreter => Revalidated(Files, jail.interpreter)
    /\ jail.roots # NoRoots =>
        RootsStand(jail.roots) /\ RealFile(Files, program) /\ Admits(jail.roots, program)
    /\ platform = "linux" => HelperStands(jail)
Launched(program) ==
    [platform |-> platform, arguments |-> Arguments(jail, program), environment |-> Environment(jail),
     rules |-> IF platform = "macos" THEN Profile(jail, program) ELSE <<>>,
     mounts |-> IF platform = "linux" THEN Mounts(jail, DOMAIN Installed) ELSE <<>>,
     ceiling |-> IF jail.helper.exact THEN jail.limits.tasks + HelperTasks(jail) ELSE 0,
     hard |-> hard, files |-> changed]
Launch(program) ==
    /\ MayLaunch(program)
    /\ launched' = Launched(program)
    /\ UNCHANGED <<platform, facts, changed, hard, reading, jail, found, declared, work, folder, stage>>

\* audit: guarantees, interpreter_audit, exec_roots_audit, egress_audit, and the
\* digest of the helper, which is that of the forwarder as well.
Audit(j) ==
    [process_ceiling |-> j.helper.exact,
     helper |-> j.helper.digest,
     exact_executable_snapshot |-> j.roots = NoRoots,
     interpreter |-> j.interpreter.digest,
     script_exec_denied |-> j.interpreter # NoInterpreter /\ j.platform = "macos" /\ j.roots = NoRoots,
     site_packages_read_denied |-> j.interpreter.denied # {},
     excluded_read_denied |-> j.roots # NoRoots,
     trust_bundle_exposed |-> j.broker.bundle # Nowhere,
     brokered |-> j.broker # NoBroker]

\* profile_identity: what a reviewer locks without a host.  Placeholders stand for
\* what is measured or chosen on one; directories to run from are bound as they
\* are, and there always is a trust bundle.
Placeholder(name) == <<"placeholder", name>>
Unmeasured(j) ==
    [j EXCEPT
        !.helper.path = Placeholder("helper"),
        !.broker = IF @ = NoBroker THEN NoBroker
                   ELSE [@ EXCEPT !.at = Placeholder("socket"), !.bundle = Placeholder("bundle") \o <<"file">>],
        !.interpreter = IF @ = NoInterpreter THEN NoInterpreter
                        ELSE [@ EXCEPT !.executable = Placeholder("interpreter"),
                                !.images = IF j.platform = "macos" THEN <<Placeholder("image")>> ELSE <<>>,
                                !.libraries = {Placeholder("library")},
                                !.denied = IF j.platform = "macos" THEN {Placeholder("site")} ELSE {}]]
ProfileIdentity(j) ==
    LET t == Unmeasured(j) IN
    [platform |-> j.platform, brokered |-> j.broker # NoBroker,
     rules |-> IF j.platform = "macos" THEN Profile(t, Placeholder("program")) ELSE <<>>,
     mounts |-> IF j.platform = "linux" THEN Mounts(t, System.linux \cup Programmes) ELSE <<>>,
     environment |-> RootsOverlay(j)
                     \cup (IF j.broker = NoBroker THEN {} ELSE Proxies \cup NoProxies \cup {Certificates}),
     version |-> j.interpreter.version,
     flags |-> IF j.interpreter = NoInterpreter THEN <<>> ELSE Flags(j),
     declared |-> j.roots]

-----------------------------------------------------------------------------
(* The host.                                                               *)

Change(c) ==
    /\ Cardinality(changed) < MaxChanges
    /\ \A e \in changed : e.at # c.at
    /\ changed' = changed \cup {c}
    /\ UNCHANGED <<platform, facts, hard, reading, jail, found, declared, work, folder, stage, launched>>

LowerHardLimit(h) ==
    /\ h < hard /\ hard' = h
    /\ UNCHANGED <<platform, facts, changed, reading, jail, found, declared, work, folder, stage, launched>>

Init ==
    /\ \E h \in Hosts : platform = h.platform /\ facts = h.facts /\ hard = h.hard
    /\ changed = {}
    /\ reading = NoJail /\ jail = NoJail
    /\ found = NoInterpreter /\ declared = NoRoots
    /\ work = <<>> /\ folder = FALSE /\ stage = [t \in Stagers |-> Idle]
    /\ launched = Nothing

\* The model ends with the launch: what is launched is not changed by what
\* happens to the host, the jail or its directory afterwards.
Next ==
    /\ launched = Nothing
    /\ \/ \E l \in Limits, b \in Brokers : Read(l, b)
       \/ Build
       \/ Discover
       \/ WithInterpreter
       \/ \E d \in Declarations : Declare(d)
       \/ WithExecRoots
       \/ \E t \in Stagers, i \in Inputs : Admit(t, i)
       \/ \E t \in Stagers, written \in BOOLEAN : Write(t, written)
       \/ \E p \in Programs : Launch(p)
       \/ \E c \in Changes : Change(c)
       \/ \E h \in HardLimits : LowerHardLimit(h)

Spec == Init /\ [][Next]_vars

-----------------------------------------------------------------------------
(* What the launched command can do, and what must hold of it.             *)

HostPaths == DOMAIN Installed \cup {q \o <<"any">> : q \in {d \in DOMAIN Installed : Installed[d].kind = "directory"}}
Reads(l, p) == IF l.platform = "macos" THEN Decides(l.rules, "read", p) ELSE SeenBy(l.mounts, p) # {}
Writes(l, p) ==
    IF l.platform = "macos" THEN Decides(l.rules, "write", p)
    ELSE \E i \in SeenBy(l.mounts, p) : l.mounts[i].writable
Executes(l, p) == l.platform = "macos" /\ Decides(l.rules, "exec", p)

\* The files as they were when it was launched.
Then(l) == After(l.files)
OfTheSystem(p) == \E q \in System[platform] \cup Programmes \cup BundleDirectory(jail.broker) : Under(p, q)
\* What the caller itself handed to the jail.
Handed(p) ==
    \/ Under(p, Work) \/ Under(p, Parent(Snapshot))
    \/ jail.broker # NoBroker /\ p = jail.broker.at
    \/ jail.roots # NoRoots /\ Inside(jail.roots, p)

\* What a jail grants behind its exclusions, wherever that is.
OwnGrants ==
    IF platform = "macos" THEN BundleDirectory(jail.broker)
    ELSE {jail.helper.path} \cup OnlyIf(jail.broker # NoBroker, {jail.broker.at})
         \cup OnlyIf(jail.broker.bundle # Nowhere, {jail.broker.bundle}) \cup InterpreterGrants(jail.interpreter)

\* What is launched is what the jail says of itself: it writes its own directory
\* only; of what is excluded nothing runs, and nothing is read but what the jail
\* grants for itself; the interpreter is the one that was pinned, a limit called
\* exact can be set, and the command's variables do not lead around the broker.
\* Whatever else of the host it can read, only root can change.  The helper has the
\* digest that is told of it, unless it was replaced while the jail was built, after
\* it was read and before it was looked up: that identity is the one kept to.
LaunchKeepsTheAudit ==
    launched # Nothing =>
        LET audit == Audit(jail)
            l == launched
            readable == {p \in HostPaths : Reads(l, p)}
            executable == {p \in HostPaths : Executes(l, p)}
            Hidden(paths) == \A p \in readable, x \in paths : Under(p, x) => \E q \in OwnGrants : Under(p, q)
        IN
        /\ \A p \in HostPaths : Writes(l, p) => Under(p, Work)
        /\ \A p \in readable \cap DOMAIN Installed : OfTheSystem(p) \/ Handed(p) \/ TrustedTreeEntry(Then(l)[p])
        /\ audit.exact_executable_snapshot => executable \subseteq {l.arguments[1]}
        /\ audit.excluded_read_denied =>
            /\ Hidden(AllExcluded(jail.roots))
            /\ \A p \in executable, x \in AllExcluded(jail.roots) : ~Under(p, x)
        /\ audit.site_packages_read_denied => Hidden(jail.interpreter.denied)
        /\ audit.script_exec_denied => Snapshot \notin executable
        /\ jail.interpreter # NoInterpreter =>
            Digest(Then(l), <<l.arguments[1]>> \o jail.interpreter.images) = audit.interpreter
        /\ platform = "linux" =>
            At(Then(l), jail.helper.path).bytes = audit.helper \/ jail.helper.seen # jail.helper.id
        /\ audit.process_ceiling => l.ceiling \in (jail.limits.tasks + 1)..l.hard
        /\ audit.brokered => \A v \in Proxies \cup NoProxies : l.environment[v] = "jail"
        /\ Certificates \in DOMAIN l.environment <=> audit.trust_bundle_exposed
        /\ DOMAIN l.environment \cap Loader = {}

\* A lock that a reviewer computed without a host binds the launch: past what was
\* measured on the host or chosen for the call, in the same order, the command is
\* given the rules and mounts of the template and none besides, the interpreter
\* gets the flags that were locked, and every variable the jail sets, the
\* directories of the call aside, is one that the lock names.
LaunchIsAsLocked ==
    launched # Nothing =>
        LET l == launched
            lock == ProfileIdentity(jail)
            i == jail.interpreter
            measured ==
                {jail.helper.path} \cup OnlyIf(jail.broker # NoBroker, {jail.broker.at})
                \cup OnlyIf(jail.broker.bundle # Nowhere, {jail.broker.bundle}) \cup BundleDirectory(jail.broker)
                \cup InterpreterGrants(i) \cup i.denied \cup Programs
            gone == (System.linux \cup Programmes) \ DOMAIN Installed
            Locked(p) == p \notin measured /\ ~Under(p, <<"placeholder">>)
            RulesLeft(rules) ==
                [k \in DOMAIN rules |-> [rules[k] EXCEPT !.at = {p \in rules[k].at : Locked(p)}]]
            MountsLeft(mounts) ==
                [k \in DOMAIN mounts |->
                    [mounts[k] EXCEPT !.pairs = {m \in mounts[k].pairs : Locked(m[2]) /\ m[2] \notin gone}]]
        IN
        /\ RulesLeft(l.rules) = RulesLeft(lock.rules)
        /\ MountsLeft(l.mounts) = MountsLeft(lock.mounts)
        /\ i # NoInterpreter => SubSeq(l.arguments, 2, Len(l.arguments) - 1) = lock.flags
        /\ {v \in DOMAIN l.environment : l.environment[v] = "jail"} \ lock.environment \subseteq Home

\* Whatever files were staged before the launch, by however many threads, they are
\* within the limits that the watchdog holds the command to.  The directory that a
\* jail with declared roots puts them in is not among them, and only such a jail has
\* it: it is an entry for the watchdog, but is made after the check and not counted
\* by it, so that the entries may be one more than allowed (stage_input_file).
StagedInputsFit ==
    jail # NoJail => WithinLimits(Cardinality(DOMAIN work)) /\ (folder => jail.roots # NoRoots)
=============================================================================
