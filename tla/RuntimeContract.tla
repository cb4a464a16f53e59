--------------------------- MODULE RuntimeContract ---------------------------
(***************************************************************************)
(* What a skill's runtime contract may say (the vocabulary of              *)
(* src/tool-runtime-core/src/manifest.rs) and which contracts              *)
(* validate_skill_runtime_contract of manifest_validation.rs accepts.      *)
(*                                                                         *)
(* A name, reference, path or argument is a value; Malformed holds those   *)
(* that fail their predicate (is_identifier, is_reference, is_path_segment,*)
(* is_environment_name, ... and the limits of their length).  A limit that *)
(* a contract may leave out is absent from the domain of limits.           *)
(***************************************************************************)
EXTENDS InlineCode, FiniteSets

CONSTANTS
    Malformed,
    Fold,        \* name -> its upper-case form
    Loaders,     \* upper-case names through which a value becomes code
    NeverFixed,  \* other upper-case names refused to the public environment
    NeverInjected, \* and those refused to credentials: PATH, HOME, USER, ...
    Permitted,   \* limit -> the values it may have
    MaxEntries,  \* the limits of the collections, which differ in the code
    Minimax      \* MINIMAX_PROVIDER

MmxConfigDir == "MMX_CONFIG_DIR"

ContractAssumption == MaxEntries \in Nat

Portable(names) == names \cap Malformed = {}
Elements(seq) == {seq[i] : i \in DOMAIN seq}
NoName == "none"

Cli(c) == c.runtime.protocol = "cli"
Remote(c) == c.runtime.protocol = "http"
ProfileKinds == {"cli_profile", "oauth_session", "browser_profile"}
Chosen == {"selectable", "fixed"}

-----------------------------------------------------------------------------
(* What a file can declare at all: the enumerations it is read into.  The  *)
(* rest of the module decides which of these contracts are accepted.       *)

DeclarableProcess(runtime) ==
    /\ runtime.protocol \in {"cli", "stdio", "http"} /\ runtime.interaction \in {"batch", "pty"}
    /\ runtime.stdin \in {"denied", "optional", "required"}
    /\ runtime.sensitivity \in {"public", "private", "secret"}
    /\ runtime.oauth \in BOOLEAN

DeclarableLimits(limits) == DOMAIN limits \subseteq {"timeout", "stdin", "stdout", "stderr", "memory"}

DeclarableAccount(auth) ==
    /\ auth.kind \in ProfileKinds \cup {"none", "secrets", "native_permission", "delegated_credential"}
    /\ auth.requirement \in {"none", "optional", "required", "at_least_one", "conditional"}
    /\ auth.selection.mode \in Chosen \cup {"none", "implicit"}
    /\ auth.selection.mode \in {"none", "implicit"} => auth.selection.alias = NoName
    /\ auth.storage.kind \in {"none", "scoped_directory", "cli_owned", "browser_profile",
                              "operating_system", "ephemeral_grant"}

\* A hook has no limit but its time; the observation and the identity are of one kind each.
DeclarableLifecycle(auth) ==
    /\ DOMAIN auth.lifecycle \subseteq {"status", "login", "logout", "refresh"}
    /\ \A hook \in DOMAIN auth.lifecycle :
          /\ auth.lifecycle[hook].interaction \in {"batch", "pty"}
          /\ DOMAIN auth.lifecycle[hook].limits \subseteq {"timeout"}
    /\ auth.observation \in {"none", "exit_code", "json"}
    /\ auth.identity \in {"none", "profile_expected", "unverified"}

\* Only a secret names a binding, and only standard input has no name.
DeclarableInjection(i) ==
    /\ i.source.kind \in {"secret", "profile_auth_root", "profile_alias", "expected_identity"}
    /\ i.source.kind = "secret" <=> i.source.binding # NoName
    /\ i.target.kind \in {"environment", "stdin", "scoped_file", "config_directory"}
    /\ i.target.kind = "stdin" <=> i.target.name = NoName

Declarable(c) ==
    /\ DeclarableProcess(c.runtime) /\ DeclarableLimits(c.runtime.limits)
    /\ DeclarableAccount(c.auth) /\ DeclarableLifecycle(c.auth)
    /\ \A i \in Elements(c.auth.injections) : DeclarableInjection(i)

-----------------------------------------------------------------------------
(* The process: executables, arguments, standard input and limits.         *)

CollectionsFit(c) ==
    /\ Cardinality(c.bins) <= MaxEntries /\ Cardinality(c.environment) <= MaxEntries
    /\ Len(c.runtime.arguments) <= MaxEntries
    /\ Len(c.auth.bindings) <= MaxEntries /\ Len(c.auth.injections) <= MaxEntries
    /\ \A kind \in DOMAIN c.floor : Cardinality(c.floor[kind]) <= MaxEntries

\* A command has one executable: its entrypoint, or the only one it requires.
Executable(c) == IF c.entrypoint # NoName THEN c.entrypoint ELSE CHOOSE b \in c.bins : TRUE

ValidRequirements(c) ==
    /\ Portable(c.bins)
    /\ CASE Cli(c) ->
            /\ c.bins # {}
            /\ IF c.entrypoint = NoName THEN Cardinality(c.bins) = 1 ELSE c.entrypoint \in c.bins
         [] c.runtime.protocol = "stdio" ->
            c.runtime.executable \in c.bins /\ c.entrypoint = NoName /\ c.environment = {}
         [] Remote(c) -> c.bins = {} /\ c.entrypoint = NoName /\ c.environment = {}

\* Fixed public variables: upper-case names that neither the process nor a
\* loader reads and that no injected variable has.
EnvironmentTargets(c) ==
    {i.target.name : i \in {j \in Elements(c.auth.injections) : j.target.kind = "environment"}}

ValidFixedEnvironment(c) ==
    \A name \in c.environment :
        /\ name \notin Malformed /\ Fold[name] = name
        /\ name \notin Loaders \cup NeverFixed
        /\ \A target \in EnvironmentTargets(c) : Fold[target] # Fold[name]

ValidLimits(limits) == \A limit \in DOMAIN limits : limits[limit] \in Permitted[limit]

ValidProcess(c) ==
    /\ Portable(Elements(c.runtime.arguments))
    /\ ValidLimits(c.runtime.limits)
    /\ CASE Cli(c) ->
            /\ NoInlineCode(Executable(c), c.runtime.arguments)
            /\ c.runtime.stdin = "denied" =>
                 c.runtime.sensitivity = "public" /\ "stdin" \notin DOMAIN c.runtime.limits
            /\ "memory" \in DOMAIN c.runtime.limits => c.runtime.interaction = "batch"
         [] c.runtime.protocol = "stdio" ->
            /\ c.runtime.executable \notin Malformed
            /\ NoInlineCode(c.runtime.executable, c.runtime.arguments)
            /\ "memory" \notin DOMAIN c.runtime.limits
         [] Remote(c) -> "memory" \notin DOMAIN c.runtime.limits

ValidFloor(floor) == \A kind \in DOMAIN floor : Portable(floor[kind])

-----------------------------------------------------------------------------
(* Authentication.                                                         *)

ValidRequirement(auth) ==
    /\ (auth.kind = "none") <=> (auth.requirement = "none")
    /\ auth.requirement = "at_least_one" => auth.kind = "secrets" /\ Len(auth.bindings) >= 2

ValidProvider(auth) ==
    /\ auth.provider \notin Malformed
    /\ auth.kind = "none" => auth.provider = NoName
    /\ auth.kind \in ProfileKinds \cup {"delegated_credential"} => auth.provider # NoName

ValidSelection(auth) ==
    /\ auth.selection.alias \notin Malformed
    /\ (auth.kind \in ProfileKinds) <=> (auth.selection.mode # "none")

\* A directory shared by profiles only where no profile is chosen.
ValidStorage(c) ==
    LET storage == c.auth.storage
    IN  /\ storage.kind = "scoped_directory" /\ c.auth.selection.mode \in Chosen => storage.partitioned
        /\ storage.kind \in
             CASE c.auth.kind \in {"none", "secrets"} -> {"none"}
               [] c.auth.kind = "oauth_session" /\ ~Cli(c) -> {"none"}
               [] c.auth.kind \in {"cli_profile", "oauth_session"} -> {"scoped_directory", "cli_owned"}
               [] c.auth.kind = "browser_profile" -> {"browser_profile"}
               [] c.auth.kind = "native_permission" -> {"operating_system"}
               [] c.auth.kind = "delegated_credential" -> {"ephemeral_grant"}

ValidBindings(auth) ==
    /\ auth.bindings # <<>> => auth.kind \in {"secrets", "cli_profile", "oauth_session"}
    /\ auth.kind = "secrets" => auth.bindings # <<>>
    /\ Portable(Elements(auth.bindings))
    /\ Cardinality(Elements(auth.bindings)) = Len(auth.bindings)

\* The hooks a contract declares are the domain of its lifecycle.
ValidHook(c, hook) ==
    LET h == c.auth.lifecycle[hook]
    IN  /\ h.arguments # <<>> /\ Len(h.arguments) <= MaxEntries
        /\ Portable(Elements(h.arguments))
        /\ NoInlineCode(Executable(c), h.arguments)
        /\ h.interaction = "pty" => hook = "login"
        /\ ValidLimits(h.limits)

ValidLifecycle(c) ==
    DOMAIN c.auth.lifecycle # {} \/ c.auth.observation # "none" =>
        /\ Cli(c) /\ c.auth.kind \in {"cli_profile", "oauth_session"}
        /\ ("status" \in DOMAIN c.auth.lifecycle) <=> (c.auth.observation # "none")
        /\ \A hook \in DOMAIN c.auth.lifecycle : ValidHook(c, hook)
        /\ c.auth.observation = "exit_code" => c.auth.identity # "profile_expected"

\* A verified identity needs a chosen profile and a status that can be read.
ValidIdentity(c) ==
    CASE c.auth.identity = "none" -> TRUE
      [] c.auth.identity = "unverified" -> c.auth.kind # "none"
      [] c.auth.identity = "profile_expected" ->
            /\ c.auth.kind \in {"cli_profile", "oauth_session"}
            /\ c.auth.selection.mode \in Chosen
            /\ Cli(c) /\ c.auth.observation = "json"

ValidSource(auth, source) ==
    CASE source.kind = "secret" -> source.binding \in Elements(auth.bindings)
      [] source.kind = "profile_auth_root" ->
            /\ auth.kind \in {"cli_profile", "oauth_session"}
            /\ auth.storage.kind \in {"scoped_directory", "cli_owned"}
      [] source.kind = "profile_alias" -> auth.selection.mode \in Chosen
      [] source.kind = "expected_identity" -> auth.identity = "profile_expected"

ValidTarget(c, i) ==
    /\ i.target.name \notin Malformed
    /\ CASE i.target.kind = "environment" -> Fold[i.target.name] \notin Loaders \cup NeverInjected
         [] i.target.kind = "stdin" ->
               Cli(c) /\ c.runtime.stdin = "denied" /\ i.source.kind = "secret"
         [] i.target.kind = "scoped_file" -> i.source.kind = "secret"
         [] i.target.kind = "config_directory" ->
               \/ i.source.kind = "profile_auth_root"
               \/ /\ i.source.kind = "secret"
                  /\ c.auth.provider = Minimax /\ i.target.name = MmxConfigDir

\* Targets are compared as they are written.
DistinctTargets(injections) ==
    \A i, j \in DOMAIN injections : injections[i].target = injections[j].target => i = j

UsedSecrets(injections) ==
    {i.source.binding : i \in {j \in Elements(injections) : j.source.kind = "secret"}}

ValidInjections(c) ==
    /\ Remote(c) => c.auth.injections = <<>>
    /\ \A i \in Elements(c.auth.injections) : ValidSource(c.auth, i.source) /\ ValidTarget(c, i)
    /\ DistinctTargets(c.auth.injections)
    /\ Elements(c.auth.bindings) \subseteq UsedSecrets(c.auth.injections)

\* A remote server is reached without credentials, with a session or a grant.
ValidProtocol(c) ==
    /\ c.runtime.protocol = "stdio" => c.auth.kind # "browser_profile"
    /\ Remote(c) => /\ c.auth.kind \in {"none", "oauth_session", "delegated_credential"}
                    /\ (c.auth.kind = "oauth_session") <=> c.runtime.oauth

ValidAuth(c) ==
    /\ ValidRequirement(c.auth) /\ ValidProvider(c.auth) /\ ValidSelection(c.auth)
    /\ ValidStorage(c) /\ ValidBindings(c.auth)
    /\ ValidLifecycle(c) /\ ValidIdentity(c)
    /\ ValidInjections(c) /\ ValidProtocol(c)

ValidContract(c) ==
    /\ CollectionsFit(c)
    /\ ValidRequirements(c) /\ ValidFixedEnvironment(c)
    /\ ValidProcess(c) /\ ValidFloor(c.floor)
    /\ ValidAuth(c)
=============================================================================
