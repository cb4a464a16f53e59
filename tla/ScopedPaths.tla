----------------------------- MODULE ScopedPaths -----------------------------
(***************************************************************************)
(* Directories of a scope as capabilities                                  *)
(* (src/tool-runtime-core/src/scoped_paths.rs): a path below the container *)
(* of all scopes is walked component by component, what was found is kept  *)
(* as device, inode and owner, and the walk is repeated before each use,   *)
(* while other programs of the same user rename and replace directories.   *)
(*                                                                         *)
(* A component is looked at in two steps, by its name and by what the path *)
(* so far resolves to.  An inode is not given to another directory while   *)
(* the model watches; AuthStatus has one that is.  An identity that may be *)
(* missing is a set of at most one.                                        *)
(***************************************************************************)
EXTENDS Integers, Sequences, FiniteSets

CONSTANTS
    Profiles,        \* the directories of profiles below auth
    Used,            \* the locators somebody asks for
    Names,           \* position -> facts of the name there
    Inodes,          \* position -> the inode there at first
    User, Device,    \* whom and where the container belongs to
    MaxComponent,    \* MAX_SCOPED_PATH_COMPONENT_BYTES
    MaxEntries,      \* MAX_SCOPED_DIRECTORY_ENTRIES
    MaxChanges,      \* changes other programs make, at most
    Statuses         \* what a profile is authorized with

\* A profile's directory is none of those of the scope.
ScopedAssumption ==
    /\ Profiles \cap {"container", "principal", "workspace", "auth"} = {}
    /\ Used \subseteq {"container", "workspace", "auth"} \cup Profiles
    /\ MaxEntries \in Nat

VARIABLES
    tree,        \* position -> the node there
    aliases,     \* positions beside which a name differs only in case
    crowd,       \* entries of the auth directory
    changes,
    container,   \* the identity of the container once it is opened
    handles,     \* locator -> the identity it was issued for
    walk,        \* the walk that is under way
    descriptor,  \* the identity of the directory a pin has opened
    pinned,      \* history: the locator and identity of the last pinned directory
    refused      \* history: locators refused before anybody changed anything

vars == <<tree, aliases, crowd, changes, container, handles, walk, descriptor, pinned, refused>>

Positions == {"container", "principal", "workspace", "auth"} \cup Profiles

\* Of the scope itself, of its auth directory, or of a profile's.
PathTo(locator) ==
    LET scope == <<"container", "principal", "workspace">>
    IN  CASE locator = "container" -> <<"container">>
          [] locator = "workspace" -> scope
          [] locator = "auth" -> Append(scope, "auth")
          [] locator \in Profiles -> scope \o <<"auth", locator>>

Parent(path) == SubSeq(path, 1, Len(path) - 1)
IsCredential(position) == position = "auth" \/ position \in Profiles

-----------------------------------------------------------------------------
(* What a component must be.                                               *)

PortableComponent(name) ==
    /\ name.bytes \in 1..MaxComponent
    /\ ~name.dots
    /\ name.first_alphanumeric /\ name.plain

\* A path through a link leads to directories of another tree, which are as
\* good in all else.
Linked(path) == \E i \in 1..Len(path) : tree[path[i]].kind = "link"
Decoy(position) == [tree[position] EXCEPT !.inode = 0 - @]
Seen(path) ==
    LET position == path[Len(path)]
    IN  IF Linked(Parent(path)) THEN Decoy(position) ELSE tree[position]

Identity(node) == {[device |-> node.device, inode |-> node.inode, owner |-> node.owner]}

\* The user must have all rights, and the others no write to a directory of
\* the scope and nothing at all in one with credentials.
PrivateModes == {"private"}
SharedModes == {"private", "readable"}
SafeModes(position) == IF IsCredential(position) THEN PrivateModes ELSE SharedModes
AlwaysPrivate(position) == PrivateModes
AcceptedModes(position) == SafeModes(position)

Inspects(path) ==
    LET node == Seen(path)
        position == path[Len(path)]
    IN  /\ node.kind = "directory"
        /\ node.owner = User
        /\ position # "container" => node.device = Device
        /\ node.mode \in AcceptedModes(position)

\* A child is found by its exact name in a directory of bounded size that
\* has no other spelling of the name.
FindsExact(path) ==
    LET position == path[Len(path)]
    IN  \/ position = "container"
        \/ /\ PortableComponent(Names[position])
           /\ position \notin aliases
           /\ tree[position].kind # "missing"
           /\ position \in Profiles => crowd <= MaxEntries

Canonical(path) == ~Linked(path)

-----------------------------------------------------------------------------
(* Walks.                                                                  *)

WalkFor(purpose, locator) == [purpose |-> purpose, locator |-> locator, at |-> 1, looked |-> FALSE, found |-> {}]
NoWalk == [WalkFor("none", "container") EXCEPT !.at = 0]

WalkedPath == SubSeq(PathTo(walk.locator), 1, walk.at)
AtLast == walk.at = Len(PathTo(walk.locator))

World == <<tree, aliases, crowd, changes>>

Refuse ==
    /\ walk' = NoWalk
    /\ descriptor' = {}
    /\ refused' = IF changes = 0 THEN refused \cup {walk.locator} ELSE refused
    /\ UNCHANGED <<World, container, handles, pinned>>

Start(purpose, locator) ==
    /\ walk = NoWalk
    /\ walk' = WalkFor(purpose, locator)
    /\ UNCHANGED <<World, container, handles, descriptor, pinned, refused>>

\* inspect_directory, after the search for the name.
Look ==
    /\ walk.at > 0 /\ ~walk.looked
    /\ \/ /\ FindsExact(WalkedPath) /\ Inspects(WalkedPath)
          /\ walk' = [walk EXCEPT !.looked = TRUE, !.found = Identity(Seen(WalkedPath))]
          /\ UNCHANGED <<World, container, handles, descriptor, pinned, refused>>
       \/ ~(FindsExact(WalkedPath) /\ Inspects(WalkedPath)) /\ Refuse

\* The container must be the directory it was when it was opened.
SameContainer == walk.at = 1 /\ container # {} => walk.found = container

\* The path so far is its own canonical form.
Resolve ==
    /\ walk.looked /\ ~AtLast
    /\ \/ /\ Canonical(WalkedPath) /\ SameContainer
          /\ walk' = [walk EXCEPT !.at = @ + 1, !.looked = FALSE]
          /\ UNCHANGED <<World, container, handles, descriptor, pinned, refused>>
       \/ ~(Canonical(WalkedPath) /\ SameContainer) /\ Refuse

Arrives(purposes) == walk.looked /\ AtLast /\ walk.purpose \in purposes /\ Canonical(WalkedPath)
MissesTheEnd == walk.looked /\ AtLast /\ ~Canonical(WalkedPath) /\ Refuse

\* ScopedPathAuthority::open, and what it issues.
OpenContainer == container = {} /\ Start("open", "container")
Opened ==
    /\ Arrives({"open"})
    /\ container' = walk.found
    /\ walk' = NoWalk
    /\ UNCHANGED <<World, handles, descriptor, pinned, refused>>

Issue(locator) == container # {} /\ handles[locator] = {} /\ Start("issue", locator)
Issued ==
    /\ Arrives({"issue"})
    /\ handles' = [handles EXCEPT ![walk.locator] = walk.found]
    /\ walk' = NoWalk
    /\ UNCHANGED <<World, container, descriptor, pinned, refused>>

\* ScopedPath::revalidate: the walk finds what was issued.
Unchanged == walk.found = handles[walk.locator]

\* A profile is authorized for a key, and for execution only while a status
\* says that it is enabled and ready.
Authorize(locator, status) ==
    /\ locator \in Profiles /\ handles[locator] # {}
    /\ walk = NoWalk
    /\ \/ /\ status.key = locator
          /\ status.purpose = "lifecycle" \/ (status.enabled /\ status.state = "ready")
          /\ Start("authorize", locator)
       \/ /\ ~(status.key = locator /\ (status.purpose = "lifecycle" \/ (status.enabled /\ status.state = "ready")))
          /\ UNCHANGED vars

Revalidated ==
    /\ Arrives({"authorize"}) /\ Unchanged
    /\ walk' = NoWalk
    /\ UNCHANGED <<World, container, handles, descriptor, pinned, refused>>

Changed == Arrives({"authorize", "before", "after"}) /\ ~Unchanged /\ Refuse

-----------------------------------------------------------------------------
(* open_revalidated_directory: walk, open, walk again.                     *)

Pin(locator) == handles[locator] # {} /\ Start("before", locator)

Walked ==
    /\ Arrives({"before"}) /\ Unchanged
    /\ walk' = [NoWalk EXCEPT !.purpose = "open_directory", !.locator = walk.locator]
    /\ UNCHANGED <<World, container, handles, descriptor, pinned, refused>>

\* The last component is not followed, those before it are; the descriptor
\* itself is compared with what was issued.
Openable(path) == Seen(path).kind = "directory"
DescriptorFits(node, locator) ==
    Identity(node) = handles[locator] /\ node.mode \in SafeModes(locator)

OpenDirectory ==
    /\ walk.purpose = "open_directory"
    /\ LET path == PathTo(walk.locator)
           fits == Openable(path) /\ DescriptorFits(Seen(path), walk.locator)
       IN  \/ /\ fits
              /\ descriptor' = Identity(Seen(path))
              /\ walk' = WalkFor("after", walk.locator)
              /\ UNCHANGED <<World, container, handles, pinned, refused>>
           \/ ~fits /\ Refuse

Pinned ==
    /\ Arrives({"after"}) /\ Unchanged
    /\ pinned' = {[locator |-> walk.locator, identity |-> descriptor]}
    /\ descriptor' = {}
    /\ walk' = NoWalk
    /\ UNCHANGED <<World, container, handles, refused>>

-----------------------------------------------------------------------------
(* Other programs of the user.                                             *)

Touches ==
    /\ changes < MaxChanges
    /\ changes' = changes + 1
    /\ UNCHANGED <<container, handles, walk, descriptor, pinned, refused>>

\* Two profiles' directories trade names, or one component becomes another
\* kind of thing and back.
Swap ==
    /\ Touches
    /\ \E p, q \in Profiles :
          /\ tree[p] # tree[q]
          /\ tree' = [tree EXCEPT ![p] = tree[q], ![q] = tree[p]]
    /\ UNCHANGED <<aliases, crowd>>

Alter ==
    /\ Touches
    /\ \E p \in Positions :
          \/ \E kind \in {"directory", "link", "missing"} \ {tree[p].kind} : tree' = [tree EXCEPT ![p].kind = kind]
          \/ \E mode \in {"private", "readable", "writable"} \ {tree[p].mode} : tree' = [tree EXCEPT ![p].mode = mode]
          \/ tree[p].owner = User /\ tree' = [tree EXCEPT ![p].owner = User + 1]
          \/ tree[p].device = Device /\ tree' = [tree EXCEPT ![p].device = Device + 1]
    /\ UNCHANGED <<aliases, crowd>>

Crowd ==
    /\ Touches
    /\ \/ \E p \in Positions \ {"container"} : aliases' = aliases \cup {p} /\ p \notin aliases /\ UNCHANGED crowd
       \/ crowd = MaxEntries /\ crowd' = MaxEntries + 1 /\ UNCHANGED aliases
    /\ UNCHANGED tree

Init ==
    /\ tree = [p \in Positions |->
                 [kind |-> "directory", owner |-> User, device |-> Device, inode |-> Inodes[p],
                  mode |-> IF IsCredential(p) THEN "private" ELSE "readable"]]
    /\ aliases = {} /\ crowd = MaxEntries
    /\ changes = 0
    /\ container = {}
    /\ handles = [l \in Used |-> {}]
    /\ walk = NoWalk
    /\ descriptor = {} /\ pinned = {} /\ refused = {}

Walks == Look \/ Resolve \/ MissesTheEnd \/ Opened \/ Issued \/ Revalidated \/ Changed \/ Walked \/ OpenDirectory \/ Pinned

Next ==
    \/ OpenContainer
    \/ \E l \in Used : Issue(l) \/ Pin(l) \/ \E status \in Statuses : Authorize(l, status)
    \/ Walks
    \/ Swap \/ Alter \/ Crowd

Spec == Init /\ [][Next]_vars
-----------------------------------------------------------------------------
(* Properties.                                                             *)

\* A directory that is handed out as a descriptor is the one the capability
\* was issued for, however often names moved back and forth while it was
\* walked to, opened and walked to again.
PinsWhatWasIssued == \A p \in pinned : p.identity = handles[p.locator]

\* Nobody is refused a directory that nobody touched: the checks of a scope's
\* own directories and of those with credentials agree with what both are
\* made with, up to the limits.
UntouchedIsAccepted ==
    \A locator \in refused :
        \E i \in 2..Len(PathTo(locator)) : ~PortableComponent(Names[PathTo(locator)[i]])
=============================================================================
