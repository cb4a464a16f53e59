-------------------------- MODULE ExecutionAuthority --------------------------
(***************************************************************************)
(* The executable and the working directory of one call                    *)
(* (src/tool-runtime-core/src/governed_execution_authority.rs): found and  *)
(* read when the authority is bound, looked at again at every step, copied *)
(* into a private snapshot and opened before the command is started, while *)
(* installers write and replace files and others replace directories.      *)
(*                                                                         *)
(* A file or directory is an inode.  A file has its bytes, in Blocks that  *)
(* are read and written one at a time, and a change time, a counter here:  *)
(* every write moves it.  A digest is the bytes it is of.  An inode of a   *)
(* directory may be given to a new one, which then has another birth time. *)
(* On macOS the snapshot may hold the adjacent libraries too, and a file   *)
(* of the sealed system volume, which nobody can write, is not copied.     *)
(***************************************************************************)
EXTENDS Integers, Sequences

CONSTANTS
    Bytes,           \* what a block may hold
    Installed,       \* inode of an executable -> its blocks at first
    Named,           \* canonical path -> the inode it names at first
    Entry,           \* the path that the entry of PATH leads to at first
    Directories,     \* inodes of directories
    Laid,            \* the directories from the trusted root to the working
                     \* directory at first
    MaxChanges,      \* what installers and others do, at most
    BirthTimes       \* the file system records birth times

AuthorityAssumption ==
    /\ Entry \in DOMAIN Named /\ Named \in [DOMAIN Named -> DOMAIN Installed]
    /\ Installed \in [DOMAIN Installed -> Seq(Bytes)]
    /\ \A f, g \in DOMAIN Installed : Len(Installed[f]) = Len(Installed[g])
    /\ Laid \in Seq(Directories) \ {<<>>}
    /\ \A k, l \in DOMAIN Laid : Laid[k] = Laid[l] => k = l
    /\ MaxChanges \in Nat /\ BirthTimes \in BOOLEAN

VARIABLES
    content, changed,  \* file -> its blocks, its change time
    name, link,        \* path -> the file, and the path the entry of PATH leads to
    chain, born,       \* directories from the root down, and their birth times
    changes,
    pc,
    expected,          \* the digest of the install review, or none
    path, identity,    \* where the file was found, and what was recorded of it
    digest, copy,      \* blocks read when it was bound, and copied
    bound, handle,     \* what was recorded of the directories, and the open one
    contents           \* history: all that a file ever held

system == <<content, changed, name, link, chain, born, changes, contents>>
authority == <<expected, path, identity, bound>>
vars == <<system, pc, authority, digest, copy, handle>>

None == <<>>
Files == DOMAIN Installed
Paths == DOMAIN Named
Blocks == Len(Installed[Named[Entry]])
Levels == DOMAIN Laid

Init ==
    /\ content = Installed /\ changed = [f \in Files |-> 0]
    /\ name = Named /\ link = Entry
    /\ chain = Laid /\ born = [l \in Levels |-> 0]
    /\ changes = 0
    /\ contents = [f \in Files |-> {content[f]}]
    /\ pc = "resolve"
    /\ expected \in {None} \cup {content[f] : f \in Files}
    /\ path = None /\ identity = None /\ bound = None
    /\ digest = <<>> /\ copy = <<>> /\ handle = None

Ended == pc \in {"launched", "refused"}

-----------------------------------------------------------------------------
(* Installers and others.                                                  *)

Disturbs == ~Ended /\ changes < MaxChanges /\ changes' = changes + 1
Call == <<pc, authority, digest, copy, handle>>

Write(f, block, byte) ==
    /\ Disturbs
    /\ content' = [content EXCEPT ![f][block] = byte]
    /\ changed' = [changed EXCEPT ![f] = @ + 1]
    /\ contents' = [contents EXCEPT ![f] = @ \cup {content'[f]}]
    /\ UNCHANGED <<name, link, chain, born, Call>>

Rename(p, f) ==
    /\ Disturbs /\ name[p] # f
    /\ name' = [name EXCEPT ![p] = f]
    /\ UNCHANGED <<content, changed, link, chain, born, contents, Call>>

Retarget(p) ==
    /\ Disturbs /\ link # p
    /\ link' = p
    /\ UNCHANGED <<content, changed, name, chain, born, contents, Call>>

\* Another directory takes the place of one, or it is removed and made again.
Remake(level, d) ==
    /\ Disturbs
    /\ \A l \in Levels : l # level => chain[l] # d
    /\ chain' = [chain EXCEPT ![level] = d]
    /\ born' = [born EXCEPT ![level] = changes + 1]
    /\ UNCHANGED <<content, changed, name, link, contents, Call>>

-----------------------------------------------------------------------------
(* Identities.                                                             *)

FileIdentity(f) == [inode |-> f, change |-> changed[f]]

DirectoryIdentity(l) == [inode |-> chain[l], created |-> IF BirthTimes THEN born[l] ELSE 0]

Matches(recorded, l) == recorded = DirectoryIdentity(l)
MatchesInode(recorded, l) == recorded.inode = chain[l]
SameDirectory(recorded, l) == Matches(recorded, l)

\* ResolvedExecutable::revalidate, on the open file and on its path.
ExecutableUnchanged ==
    /\ FileIdentity(identity.inode) = identity
    /\ name[path] = identity.inode

DirectoriesUnchanged == \A l \in DOMAIN bound : SameDirectory(bound[l], l)

Refuses == pc' = "refused" /\ UNCHANGED <<authority, digest, copy, handle>>
Goes(next) == pc' = next

-----------------------------------------------------------------------------
(* bind.                                                                   *)

\* The first entry of PATH that has the name is followed to a regular file; an
\* unsafe entry before it, or none at all, ends the search.
Resolve ==
    /\ pc = "resolve"
    /\ \/ /\ path' = link /\ identity' = FileIdentity(name[link])
          /\ Goes("open") /\ UNCHANGED <<expected, bound, digest, copy, handle>>
       \/ Refuses
    /\ UNCHANGED system

\* What is opened must be what was seen, or else it was replaced in between.
Open ==
    /\ pc = "open"
    /\ IF FileIdentity(name[path]) = identity
       THEN Goes("digest") /\ UNCHANGED <<authority, digest, copy, handle>>
       ELSE Refuses
    /\ UNCHANGED system

\* digest_open_file and copy_and_digest_open_file: a block at a time, from the
\* open file.
Read(blocks) == Append(blocks, content[identity.inode][Len(blocks) + 1])

Digest ==
    /\ pc = "digest" /\ Len(digest) < Blocks
    /\ digest' = Read(digest)
    /\ UNCHANGED <<system, pc, authority, copy, handle>>

Resolved ==
    /\ pc = "digest" /\ Len(digest) = Blocks
    /\ IF ExecutableUnchanged /\ expected \in {None, digest}
       THEN Goes("bind") /\ UNCHANGED <<authority, digest, copy, handle>>
       ELSE Refuses
    /\ UNCHANGED system

\* ResolvedWorkingDirectory::bind, one level after the other from the root.
Bind ==
    /\ pc = "bind" /\ Len(bound) < Len(Laid)
    /\ bound' = Append(bound, DirectoryIdentity(Len(bound) + 1))
    /\ UNCHANGED <<system, pc, expected, path, identity, digest, copy, handle>>

\* revalidate, once bound, when the call starts, and just before the command.
Revalidate(here, next) ==
    /\ pc = here
    /\ IF ExecutableUnchanged /\ DirectoriesUnchanged
       THEN Goes(next) /\ UNCHANGED <<authority, digest, copy, handle>>
       ELSE Refuses
    /\ UNCHANGED system

Bound == Len(bound) = Len(Laid) /\ Revalidate("bind", "execute")
Start == Revalidate("execute", "snapshot")

-----------------------------------------------------------------------------
(* The snapshot and the handle.                                            *)

Snapshot ==
    /\ pc = "snapshot"
    /\ IF ExecutableUnchanged
       THEN Goes("copy") /\ UNCHANGED <<authority, digest, copy, handle>>
       ELSE Refuses
    /\ UNCHANGED system

Copy ==
    /\ pc = "copy" /\ Len(copy) < Blocks
    /\ copy' = Read(copy)
    /\ UNCHANGED <<system, pc, authority, digest, handle>>

CopyMatches == copy = digest

Copied ==
    /\ pc = "copy" /\ Len(copy) = Blocks
    /\ IF CopyMatches THEN Goes("handle") /\ UNCHANGED <<authority, digest, copy, handle>> ELSE Refuses
    /\ UNCHANGED system

\* open_handle: the chain is looked at, the last directory opened, and what was
\* opened is compared again.
LookAtChain ==
    /\ pc = "handle"
    /\ IF DirectoriesUnchanged
       THEN Goes("opening") /\ UNCHANGED <<authority, digest, copy, handle>>
       ELSE Refuses
    /\ UNCHANGED system

OpenHandle ==
    /\ pc = "opening"
    /\ IF SameDirectory(bound[Len(Laid)], Len(Laid))
       THEN /\ handle' = [inode |-> chain[Len(Laid)], created |-> born[Len(Laid)]]
            /\ Goes("spawn") /\ UNCHANGED <<authority, digest, copy>>
       ELSE Refuses
    /\ UNCHANGED system

\* The command runs the copy, in the directory of the handle (fchdir).
Launch == Revalidate("spawn", "launched")

Next ==
    \/ \E f \in Files, block \in 1..Blocks, byte \in Bytes : Write(f, block, byte)
    \/ \E p \in Paths : Retarget(p) \/ \E f \in Files : Rename(p, f)
    \/ \E l \in Levels, d \in Directories : Remake(l, d)
    \/ Resolve \/ Open \/ Digest \/ Resolved \/ Bind \/ Bound
    \/ Start \/ Snapshot \/ Copy \/ Copied
    \/ LookAtChain \/ OpenHandle \/ Launch

Spec == Init /\ [][Next]_vars
-----------------------------------------------------------------------------
(* Properties.                                                             *)

\* What is launched is what was bound: bytes the file held at one moment, never
\* a mixture of two versions, the reviewed ones where a review is given, and
\* the directory that had the name then, not one made anew in its place
\* (bind_with_expected_executable_digest, snapshot, open_handle).
LaunchIsWhatWasBound ==
    pc = "launched" =>
        /\ copy \in contents[identity.inode]
        /\ expected \in {None, copy}
        /\ BirthTimes => handle = bound[Len(Laid)]
=============================================================================
