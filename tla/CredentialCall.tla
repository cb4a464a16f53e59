---------------------------- MODULE CredentialCall ----------------------------
(***************************************************************************)
(* The credentials of one call, from the contract to the command and back: *)
(* a profile is selected (profile_selection.rs), a preparation and an      *)
(* injection plan are made (credential_preparation.rs,                     *)
(* credential_injection.rs), the profile's directory is authorized         *)
(* (scoped_paths.rs), the host's resolver provides the secrets, and        *)
(* materialize_credential_io_inner (credential_materialization.rs) puts    *)
(* them where the contract says for as long as the command runs.           *)
(*                                                                         *)
(* Meanwhile others revise the profile, change its authentication state    *)
(* and replace its directory, for good or for a while.  A directory is     *)
(* known by its device, inode and owner: one that was moved away may come  *)
(* back, and a new one may have the identity of one that is gone.          *)
(* A value given to the command is a path: <<"secret", b>>, <<"profile">>,  *)
(* <<"session", f>>.                                                       *)
(***************************************************************************)
EXTENDS RuntimeContract, SequencesExt

CONSTANTS
    Contracts,     \* what skills declare
    Baseline,      \* variables every child gets: upper-case names
    Alias,         \* the alias the scope's one profile has
    Directories,   \* identities that a directory may have
    MaxRevision, MaxReplacements, MaxFaults

CallAssumption ==
    /\ \A c \in Contracts : Declarable(c) /\ c.auth.injections \in Seq(Elements(c.auth.injections))
    /\ Baseline \cap (Loaders \cup {NoName}) = {}
    /\ Directories # {}
    /\ MaxRevision \in Nat \ {0} /\ MaxReplacements \in Nat /\ MaxFaults \in Nat

VARIABLES
    contract,
    registry,     \* the profile: its revision, availability, readiness, identity
    directory,    \* identity of the one with the profile's name; how often it changed
    faults,
    pc, cause,    \* where the call is, and why it failed
    selection,    \* the status the profile was selected with
    plan,         \* which bindings are required, and how many must be there
    authority,    \* the revision and the directory the path was authorized for
    material,     \* bindings that are provided
    todo,         \* injections still to be made
    environment,  \* the child's variables
    io,           \* what stdin, files and directories hold
    patterns,     \* what the redactor looks for
    session,      \* the directory of the call's files: none, live, removed, left
    seen          \* history: the identities behind the profile's name, from the
                  \* last look before the command to the look after it

world == <<registry, directory, faults, seen>>
plans == <<contract, selection, plan, authority, material>>
given == <<todo, environment, io, patterns, session>>
vars == <<world, pc, cause, plans, given>>

None == [revision |-> 0]

Init ==
    /\ contract \in Contracts
    /\ registry \in [revision : {1}, enabled : {TRUE}, ready : BOOLEAN, identity : BOOLEAN]
    /\ directory = [identity |-> CHOOSE d \in Directories : TRUE, replaced |-> 0]
    /\ faults = 0 /\ seen = <<>>
    /\ pc = "contract" /\ cause = "none"
    /\ selection = None /\ plan = None /\ authority = None
    /\ material = {} /\ todo = <<>> /\ environment = {} /\ io = {} /\ patterns = {}
    /\ session = "none"

Faults == faults < MaxFaults /\ faults' = faults + 1

\* Every error drops what there is; the session's owner removes its directory.
Fails(why) ==
    /\ pc' = "failed" /\ cause' = why
    /\ session' = IF session = "live" THEN "removed" ELSE session
    /\ UNCHANGED <<registry, directory, faults, seen, plans, todo, environment, io, patterns>>

Goes(next) == pc' = next /\ UNCHANGED cause

-----------------------------------------------------------------------------
(* Others.                                                                 *)

Ended == pc \in {"failed", "ok"}

Revise ==
    /\ ~Ended /\ registry.revision < MaxRevision
    /\ registry' \in [revision : {registry.revision + 1}, enabled : BOOLEAN,
                      ready : {registry.ready}, identity : {registry.identity}]
    /\ UNCHANGED <<directory, faults, seen, pc, cause, plans, given>>

Observe ==
    /\ ~Ended
    /\ registry' = [registry EXCEPT !.ready = ~@]
    /\ UNCHANGED <<directory, faults, seen, pc, cause, plans, given>>

\* Another directory gets the name: any, or a new one with the same inode.  Before
\* one is authorized, that makes no difference.
Replace ==
    /\ authority # None /\ ~Ended /\ directory.replaced < MaxReplacements
    /\ \E d \in Directories :
        /\ directory' = [identity |-> d, replaced |-> directory.replaced + 1]
        /\ seen' = IF pc \in {"running", "ended"} THEN Append(seen, d) ELSE seen
    /\ UNCHANGED <<registry, faults, pc, cause, plans, given>>

-----------------------------------------------------------------------------
(* The plans.                                                              *)

auth == contract.auth
Profile == auth.selection.mode \in Chosen

Validate ==
    /\ pc = "contract"
    /\ IF ValidContract(contract)
       THEN Goes("select") /\ UNCHANGED <<world, plans, given>>
       ELSE Fails("invalid")

\* The alias that was asked for, else the contract's, else the registry's
\* default; only a selectable profile can be asked for.
Wanted(asked) == IF asked # NoName THEN asked ELSE auth.selection.alias

Select ==
    /\ pc = "select"
    /\ IF ~Profile THEN Goes("prepare") /\ UNCHANGED <<world, plans, given>>
       ELSE \E asked \in {NoName, Alias, "other"} :
              IF \/ asked # NoName /\ auth.selection.mode # "selectable"
                 \/ Wanted(asked) \notin {NoName, Alias}
                 \/ ~registry.enabled
              THEN Fails("selection")
              ELSE /\ selection' = registry /\ Goes("prepare")
                   /\ UNCHANGED <<world, contract, plan, authority, material, given>>

\* What a call may be given: the secrets, and a session or grant of its kind.
Bindings ==
    Elements(auth.bindings) \cup
        (IF auth.kind \in {"oauth_session", "delegated_credential"} THEN {"grant"} ELSE {})

Prepare ==
    /\ pc = "prepare"
    /\ IF Profile /\ ~selection.ready
       THEN Fails("preparation")
       ELSE \E required \in SUBSET Bindings :
            \E minimum \in Cardinality(required)..Cardinality(Bindings) :
              /\ plan' = [revision |-> selection.revision, required |-> required, minimum |-> minimum]
              /\ Goes("compile")
              /\ UNCHANGED <<world, contract, selection, authority, material, given>>

\* CredentialInjectionPlan::compile: targets are compared without their case.
Folded(target) == [kind |-> target.kind, name |-> Fold[target.name]]

TargetsCompile ==
    LET targets == [i \in DOMAIN auth.injections |-> Folded(auth.injections[i].target)]
    IN  /\ \A i, j \in DOMAIN targets : targets[i] = targets[j] => i = j
        /\ \A i \in DOMAIN targets : targets[i].kind = "environment" => targets[i].name \notin Baseline

IdentityKnown ==
    (\E i \in Elements(auth.injections) : i.source.kind = "expected_identity") => selection.identity

Compiles ==
    /\ Remote(contract) => auth.injections = <<>>
    /\ TargetsCompile
    /\ UsedSecrets(auth.injections) = Elements(auth.bindings)
    /\ IdentityKnown

Compile ==
    /\ pc = "compile"
    /\ IF Compiles THEN Goes("authorize") /\ UNCHANGED <<world, plans, given>> ELSE Fails("uncompiled")

\* authorize_ready_profile, with a status that was read again.
Authorize ==
    /\ pc = "authorize"
    /\ IF ~Profile THEN Goes("resolve") /\ UNCHANGED <<world, plans, given>>
       ELSE IF ~(registry.enabled /\ registry.ready) THEN Fails("profile_not_ready")
       ELSE /\ authority' = [revision |-> registry.revision, directory |-> directory.identity]
            /\ Goes("resolve")
            /\ UNCHANGED <<world, contract, selection, plan, material, given>>

\* The resolver provides a binding once; what it does wrong is refused.
Provide(b) ==
    /\ pc = "resolve" /\ b \in Bindings \ material
    /\ material' = material \cup {b}
    /\ UNCHANGED <<world, pc, cause, contract, selection, plan, authority, given>>

Sufficient == plan.required \subseteq material /\ Cardinality(material) >= plan.minimum

Finish ==
    /\ pc = "resolve"
    /\ IF Sufficient THEN Goes("materialize") /\ UNCHANGED <<world, plans, given>>
       ELSE Fails("missing_material")

-----------------------------------------------------------------------------
(* The materialization.                                                    *)

Names == {entry.name : entry \in environment}
Entry(name, item) == [name |-> name, item |-> item]

\* Files, and a configuration directory with a secret in it, need a session.
NeedsSession ==
    \E i \in Elements(auth.injections) :
        \/ i.target.kind = "scoped_file"
        \/ i.target.kind = "config_directory" /\ i.source.kind = "secret"

\* The fixed variables were provided to the child beside its baseline; every
\* secret is a pattern before anything is made.
Begin ==
    /\ pc = "materialize"
    /\ IF contract.environment \cap Baseline # {} THEN Fails("duplicate_baseline_value")
       ELSE /\ environment' = {Entry(n, <<"fixed">>) : n \in contract.environment \cup Baseline}
            /\ patterns' = {<<"secret", b>> : b \in material}
            /\ todo' = auth.injections
            /\ session' = IF NeedsSession THEN "live" ELSE "none"
            /\ Goes("inject")
            /\ UNCHANGED <<world, plans, io>>

FileSystemFails ==
    /\ pc \in {"materialize", "inject", "seal"} /\ Faults
    /\ pc' = "failed" /\ cause' = "filesystem"
    /\ session' = IF session = "live" THEN "removed" ELSE session
    /\ UNCHANGED <<registry, directory, seen, plans, todo, environment, io, patterns>>

\* CredentialProfileDirectory::resolve: the directory of the plan's revision.
MayResolve == authority.revision = plan.revision
\* What a look at the profile's name finds is what was authorized.
Found == authority.directory = directory.identity
ProfileResolves == Profile /\ MayResolve /\ Found

\* What a source stands for; an optional binding may stand for nothing.
Item(source) ==
    CASE source.kind = "secret" -> <<"secret", source.binding>>
      [] source.kind = "profile_auth_root" -> <<"profile">>
      [] source.kind = "profile_alias" -> <<"alias">>
      [] source.kind = "expected_identity" -> <<"identity">>

Skips(i) == i.source.kind = "secret" /\ i.source.binding \notin material

Injects(entries, values, found) ==
    /\ {e.name : e \in entries} \cap Names = {}
    /\ environment' = environment \cup entries
    /\ io' = io \cup values
    /\ patterns' = patterns \cup found
    /\ todo' = Tail(todo)
    /\ UNCHANGED <<world, pc, cause, plans, session>>

Value(target, item) == [target |-> target, item |-> item]

\* One injection: entries of the environment, values elsewhere, new patterns.
Makes(i) ==
    LET item == Item(i.source)
        name == i.target.name
        found == IF item[1] = "profile" THEN {item} ELSE {}
    IN  CASE i.target.kind = "environment" -> Injects({Entry(name, item)}, {}, found)
          [] i.target.kind = "stdin" -> Injects({}, {Value(<<"stdin">>, item)}, {})
          [] i.target.kind = "scoped_file" ->
                Injects({}, {Value(<<"session", name>>, item)}, {<<"session", name>>})
          [] i.target.kind = "config_directory" /\ item[1] = "profile" ->
                Injects({}, {Value(<<"config", name>>, item)}, found)
          [] OTHER -> Injects({Entry(name, <<"session", name>>)},
                              {Value(<<"session", name, "config.json">>, item)}, {})

Shadows(i) ==
    /\ \/ i.target.kind = "environment"
       \/ i.target.kind = "config_directory" /\ i.source.kind # "profile_auth_root"
    /\ i.target.name \in Names

Inject ==
    /\ pc = "inject" /\ todo # <<>>
    /\ LET i == Head(todo)
       IN  IF Skips(i)
           THEN todo' = Tail(todo) /\ UNCHANGED <<world, pc, cause, plans, environment, io, patterns, session>>
           ELSE IF i.source.kind = "profile_auth_root" /\ ~ProfileResolves
           THEN Fails("profile_directory")
           ELSE IF Shadows(i) THEN Fails("baseline_mismatch")
           ELSE Makes(i)

\* The session's own path is a pattern too; then all is looked at once more.
SessionPattern == IF session = "live" THEN {<<"session">>} ELSE {}
NoSessionPattern == {}
LastPatterns == SessionPattern

\* Every directory of the profile that the command is given is looked at again.
UsesProfile == \E i \in Elements(auth.injections) : i.source.kind = "profile_auth_root"
Revalidated == UsesProfile => Found

Seal ==
    /\ pc = "inject" /\ todo = <<>>
    /\ IF ~Revalidated THEN Fails("profile_directory")
       ELSE /\ patterns' = patterns \cup LastPatterns
            /\ Goes("seal")
            /\ UNCHANGED <<world, plans, todo, environment, io, session>>

\* governed_environment, inside the consumer: names the plan admits.
ChildNames ==
    Baseline \cup contract.environment
        \cup {i.target.name : i \in {j \in Elements(auth.injections) :
                                        j.target.kind \in {"environment", "config_directory"}}}

Dispatch ==
    /\ pc = "seal"
    /\ IF ~Revalidated THEN Fails("profile_directory")
       ELSE IF ~(Names \subseteq ChildNames) THEN Fails("environment")
       ELSE /\ seen' = <<directory.identity>> /\ Goes("running")
            /\ UNCHANGED <<registry, directory, faults, plans, given>>

CommandEnds ==
    /\ pc = "running"
    /\ Goes("ended")
    /\ UNCHANGED <<world, plans, given>>

\* The profile's directories are looked at again, then the session is removed.
StillThere == Revalidated

Return ==
    /\ pc = "ended"
    /\ IF ~StillThere THEN Fails("profile_directory")
       ELSE \/ /\ session' = IF session = "live" THEN "removed" ELSE session
               /\ Goes("ok")
               /\ UNCHANGED <<world, plans, todo, environment, io, patterns>>
            \/ /\ session = "live" /\ Faults
               /\ session' \in {"removed", "left"}
               /\ pc' = "failed" /\ cause' = "cleanup"
               /\ UNCHANGED <<registry, directory, seen, plans, todo, environment, io, patterns>>

Next ==
    \/ Revise \/ Observe \/ Replace
    \/ Validate \/ Select \/ Prepare \/ Compile \/ Authorize
    \/ (\E b \in Bindings : Provide(b)) \/ Finish
    \/ Begin \/ FileSystemFails \/ Inject \/ Seal \/ Dispatch \/ CommandEnds \/ Return

Spec == Init /\ [][Next]_vars
-----------------------------------------------------------------------------
(* Properties.                                                             *)

Given == {e.item : e \in environment} \cup {v.item : v \in io}

\* A command is given the directory of the revision its profile was selected
\* with, whatever became of the profile since; and a call succeeds only if the
\* identity that was authorized is the one behind the profile's name both when the
\* command is launched and when it has ended
\* (CredentialProfileDirectory::resolve, materialize_credential_io_inner).  Of the
\* time between these looks nothing is said: a directory moved away and back, or
\* made anew under the same inode, is not noticed.
OneProfileThroughout ==
    /\ pc \in {"running", "ok"} /\ <<"profile">> \in Given =>
          authority.revision = selection.revision
    /\ pc = "ok" /\ <<"profile">> \in Given =>
          seen[1] = authority.directory /\ seen[Len(seen)] = authority.directory

\* Whatever secret, profile directory or session path the command is given is
\* replaced in its output: it, or the directory it is in, is a pattern of the
\* redactor (materialize_credential_io_inner).
Sensitive(item) == item[1] \in {"secret", "profile", "session"}

DeliveredIsRedacted ==
    pc = "running" =>
        \A item \in Given : Sensitive(item) => \E p \in patterns : IsPrefix(p, item)

\* A contract that was accepted compiles, unless the host's baseline or the
\* profile stand against it or two of its names differ in case alone: the
\* validator and the compiler of injections agree on everything else.
Clashes ==
    \E i, j \in Elements(auth.injections) :
        i.target # j.target /\ Folded(i.target) = Folded(j.target)

AcceptedContractsCompile ==
    cause = "uncompiled" =>
        \/ Clashes
        \/ \E name \in EnvironmentTargets(contract) : Fold[name] \in Baseline
        \/ ~IdentityKnown
=============================================================================
