---------------------------- MODULE MCComponents ----------------------------
(***************************************************************************)
(* The components that take part in one governed call, side by side: an    *)
(* initial state picks one of them, its steps run, and the others stand    *)
(* still.  GovernedExecution, which the others are called from, is         *)
(* extended, so that its invariants keep their names.                      *)
(*                                                                         *)
(* Here are the values of the constants of each part, and the parts that   *)
(* Components does not hold; the README says why they are enough.          *)
(***************************************************************************)
EXTENDS GovernedExecution, Components, TLC

-----------------------------------------------------------------------------
(* Writers of one registry of profiles, crashes and a replaced lock.       *)

Writers == {"w1", "w2"}
Objects == {"r1", "r2"}
OnOneOrTwo == {[w \in Writers |-> "r1"], [w \in Writers |-> IF w = "w1" THEN "r1" ELSE "r2"]}
ProfileKeys == {"legacy", "new"}
OneGroup == [k \in ProfileKeys |-> "provider"]
Reference(r, default, disabled) == [revision |-> r, default |-> default, disabled |-> disabled]
References ==
    {Reference(1, TRUE, FALSE), Reference(1, FALSE, FALSE), Reference(2, TRUE, FALSE), Reference(2, FALSE, TRUE)}
NoReference == Reference(0, FALSE, FALSE)
Configured ==
    [r \in Objects |-> [k \in ProfileKeys |->
        IF k = "legacy" THEN Reference(1, TRUE, FALSE) ELSE NoReference]]

-----------------------------------------------------------------------------
(* Directories of sessions in two processes, one of which recovers.        *)

Callers == "a" :> "p1" @@ "b" :> "p1" @@ "c" :> "p2"

-----------------------------------------------------------------------------
(* The relay of a brokered jail.                                           *)

Talk == "a" :> 1 @@ "b" :> 0

-----------------------------------------------------------------------------
(* Redaction of a terminal and of what is sealed.                          *)

SecretSets ==
    { {}, {<<0, 0>>}, {<<0, 0, 1>>, <<0>>}, {<<0, 1>>, <<1, 0, 0>>}, {<<2>>, <<0, 2>>}, {<<0, 1>>, <<2>>} }

-----------------------------------------------------------------------------
(* From a contract to the credentials of the command.                      *)

UpperCase ==
    ("key" :> "KEY" @@ "lang" :> "LANG") @@ [n \in {"KEY", "LANG", "MMX_CONFIG_DIR", "path", "none"} |-> n]
NoInterpreter == [n \in {"tool", "none"} |-> "other"]
Allowed == [n \in {"timeout"} |-> 1..2]

\* A skill without credentials, and what the families below change in it.
Plain ==
    [bins |-> {"tool"}, entrypoint |-> "none", environment |-> {}, floor |-> [grants |-> {}],
     runtime |-> [protocol |-> "cli", interaction |-> "batch", arguments |-> <<>>, stdin |-> "denied",
                  sensitivity |-> "public", limits |-> <<>>, executable |-> "none", oauth |-> FALSE],
     auth |-> [kind |-> "none", requirement |-> "none", provider |-> "none",
               selection |-> [mode |-> "none", alias |-> "none"], bindings |-> <<>>,
               storage |-> [kind |-> "none", partitioned |-> FALSE], injections |-> <<>>,
               lifecycle |-> <<>>, observation |-> "none", identity |-> "none"]]
Skill(kind, requirement, bindings, injections) ==
    [Plain EXCEPT !.auth.kind = kind, !.auth.requirement = requirement, !.auth.provider = "minimax",
                  !.auth.bindings = bindings, !.auth.injections = injections]
Injected(source, binding, target) ==
    [source |-> [kind |-> source, binding |-> binding], target |-> [kind |-> target[1], name |-> target[2]]]
Variable(n) == <<"environment", n>>
ConfigDirectory == <<"config_directory", "MMX_CONFIG_DIR">>

Secret(binding) ==
    {Injected("secret", binding, t) :
        t \in {Variable("KEY"), Variable("key"), Variable("LANG"), Variable("lang"), Variable("MMX_CONFIG_DIR"),
               <<"stdin", "none">>, <<"scoped_file", "path">>, ConfigDirectory}}
ProfileInjections ==
    {Injected("profile_auth_root", "none", t) : t \in {Variable("KEY"), ConfigDirectory}}
    \cup {Injected(s, "none", Variable("KEY")) : s \in {"profile_alias", "expected_identity"}}

OneSecret == {Skill("secrets", "required", <<"a">>, <<i>>) : i \in Secret("a")}
TwoSecrets ==
    {Skill("secrets", "at_least_one", <<"a", "b">>, <<i, j>>) :
        i \in {k \in Secret("a") : k.target.name # "MMX_CONFIG_DIR"}, j \in Secret("b")}
WithEnvironment == {[c EXCEPT !.environment = {"MMX_CONFIG_DIR"}] : c \in OneSecret}

OfProfile(skill, mode) ==
    [skill EXCEPT !.auth.selection = [mode |-> mode, alias |-> IF mode = "fixed" THEN "personal" ELSE "none"],
                  !.auth.storage = [kind |-> "cli_owned", partitioned |-> TRUE],
                  !.auth.lifecycle = [status |-> [arguments |-> <<"status">>, interaction |-> "batch", limits |-> <<>>]],
                  !.auth.observation = "json",
                  !.auth.identity = IF mode = "implicit" THEN "none" ELSE "profile_expected"]
OneProfile ==
    {OfProfile(Skill("cli_profile", "required", <<>>, <<i>>), mode) :
        i \in ProfileInjections, mode \in {"selectable", "fixed", "implicit"}}
SecretAndProfile ==
    {OfProfile(Skill("oauth_session", "required", <<"a">>, <<i, j>>), "selectable") :
        i \in {k \in Secret("a") : k.target.name \in {"KEY", "none"}}, j \in ProfileInjections}
Skills == OneSecret \cup TwoSecrets \cup WithEnvironment \cup OneProfile \cup SecretAndProfile \cup {Plain}

-----------------------------------------------------------------------------
(* From the entry in PATH to the file that is launched.                    *)

TwoVersions == <<<<"x", "x">>, <<"y", "y">>>>
TwoNames == "p" :> 1 @@ "q" :> 2
TwoLevels == <<"d", "e">>

-----------------------------------------------------------------------------
(* A lifecycle command, and what its output says.                          *)

LowerCase == [i \in {"ann", "ANN"} |-> IF i = "ANN" THEN "ann" ELSE i]
String(x) == [kind |-> "string", of |-> x]
Missing == [kind |-> "absent"]
Array(x) == [kind |-> "array", of |-> x, length |-> Cardinality(x)]
Rule(state, codes, all) == [state |-> state, codes |-> codes, all |-> all]
JsonRules ==
    <<Rule("ready", {0}, <<[kind |-> "equals", pointer |-> "state", value |-> String("in")],
                           [kind |-> "contains", pointer |-> "scopes", values |-> {"a"}]>>),
      Rule("expired", {0}, <<[kind |-> "exists", pointer |-> "expired"]>>),
      Rule("missing", {0, 1}, <<[kind |-> "missing", pointer |-> "state"]>>)>>
CodeRules == <<Rule("ready", {0}, <<>>), Rule("missing", {1}, <<>>)>>

Projected(source, name) == [source |-> source, target |-> "environment", name |-> name, nested |-> FALSE]
Cli ==
    [kind |-> "cli_profile", protocol |-> "cli", selection |-> [mode |-> "selectable", alias |-> "none"],
     hooks |-> {"status", "login", "logout", "refresh"}, rules |-> JsonRules, format |-> "json",
     identity |-> "exact", selector |-> "who", injections |-> <<Projected("auth_root", "DIR")>>,
     baseline |-> {"PATH"}]
Clis ==
    { Cli,
      [Cli EXCEPT !.selection = [mode |-> "fixed", alias |-> "personal"], !.identity = "folded"],
      [Cli EXCEPT !.selection.mode = "implicit", !.identity = "unverified", !.rules = CodeRules,
                  !.format = "exit_code"],
      [Cli EXCEPT !.kind = "oauth_session", !.hooks = {"status"}, !.identity = "none",
                  !.injections = <<Projected("secret", "KEY")>>],
      [Cli EXCEPT !.injections = <<Projected("identity", "WHO"), Projected("alias", "WHO")>>] }
PathLists ==
    {<<"vanishes", "safe">>, <<"unsafe", "safe">>, <<"absent", "safe">>, <<"vanishes">>, <<"vanishes", "vanishes", "safe">>}
Endings ==
    {[kind |-> "exited", code |-> 0], [kind |-> "exited", code |-> 1], [kind |-> "timed_out", code |-> 0]}

Printed(state, who, until, scopes) ==
    [kind |-> "json", fits |-> TRUE, readable |-> TRUE,
     at |-> [state |-> state, who |-> who, expired |-> until, scopes |-> scopes]]
Unreadable == [Printed(Missing, Missing, Missing, Missing) EXCEPT !.readable = FALSE]
TooLong == [Printed(Missing, Missing, Missing, Missing) EXCEPT !.fits = FALSE]
Outputs ==
    {Unreadable, TooLong} \cup
    {Printed(s, w, e, a) : s \in {String("in"), Missing},
                           w \in {String(n) : n \in {"ann", "ANN", "bob", "?"}} \cup {Missing},
                           e \in {String("t"), Missing}, a \in {Array({"a"}), Array({"a", "b"})}}

-----------------------------------------------------------------------------
(* The intent of an execution against contract and policy.                 *)

Loose == [n \in {} |-> 0]
IntentContract ==
    [protocol |-> "cli", bins |-> <<"tool">>, prefix |-> <<"run">>, interaction |-> "batch", stdin |-> "optional",
     sensitivity |-> "public", cwd |-> "optional", targets |-> {"environment"}, limits |-> Loose]
WithCredential == [IntentContract EXCEPT !.stdin = "denied", !.targets = {"stdin"}]
IntentContracts ==
    {IntentContract, WithCredential,
     [IntentContract EXCEPT !.protocol = "stdio"],
     [IntentContract EXCEPT !.bins = <<"other", "tool">>],
     [IntentContract EXCEPT !.prefix = <<>>],
     [IntentContract EXCEPT !.interaction = "pty"],
     [IntentContract EXCEPT !.stdin = "denied"],
     [IntentContract EXCEPT !.stdin = "required", !.sensitivity = "private"],
     [IntentContract EXCEPT !.cwd = "denied"],
     [WithCredential EXCEPT !.limits = "stdout" :> 1],
     [IntentContract EXCEPT !.limits = "timeout" :> 1 @@ "stdin" :> 2],
     [IntentContract EXCEPT !.limits = "timeout" :> 2 @@ "stderr" :> 1],
     [IntentContract EXCEPT !.limits = "memory" :> 1]}
IntentCeilings(default, timeout, stream) ==
    [default |-> default, timeout |-> timeout, stdin |-> stream, stdout |-> stream, stderr |-> stream]
IntentPolicies == {IntentCeilings(2, 3, 3), IntentCeilings(1, 1, 2), IntentCeilings(3, 2, 1), IntentCeilings(1, 4, 1)}
Word(length) == [length |-> length, control |-> FALSE]
Component(length, kind) == [length |-> length, kind |-> kind]
Asked(arguments, stdin, path, timeout) ==
    [arguments |-> arguments, item_limit |-> 1, stdin |-> stdin, path |-> path, timeout |-> timeout]
IntentRequests ==
    {Asked(<<Word(1)>>, stdin, path, timeout) :
        stdin \in {0, 2, 3, 4}, path \in {<<>>, <<Component(1, "name")>>}, timeout \in {1, 2, 3, 4}}
    \cup {Asked(<<Word(2)>>, 4, <<>>, 4), [Asked(<<Word(2), Word(1)>>, 4, <<>>, 4) EXCEPT !.item_limit = 3],
          [Asked(<<Word(2), Word(2)>>, 4, <<>>, 4) EXCEPT !.item_limit = 3], Asked(<<Word(0), Word(0), Word(0)>>, 4, <<>>, 4),
          Asked(<<[length |-> 1, control |-> TRUE]>>, 4, <<>>, 4)}
    \cup {Asked(<<>>, 4, path, 4) :
            path \in {<<Component(0, "name")>>, <<Component(1, "dot")>>, <<Component(3, "name")>>,
                      <<Component(2, "name"), Component(2, "name")>>, <<Component(2, "name"), Component(1, "name")>>,
                      <<Component(0, "name"), Component(0, "name"), Component(0, "name")>>, <<Component(1, "foreign")>>}}
IntentModes == {[kind |-> "batch", wall |-> 0], [kind |-> "pty", wall |-> 0], [kind |-> "jail", wall |-> 1]}

-----------------------------------------------------------------------------
(* What is asked, approved and recorded of one call.                       *)

OneCall == [call |-> "c", capability |-> "cap", action |-> "act", contract |-> "plain", plan |-> "p",
            executable |-> "x", prefix |-> <<>>, arguments |-> <<>>, directory |-> <<>>,
            interaction |-> "batch", limits |-> "l", memory |-> {}, stdin |-> {}, mode |-> "batch"]
CallWords == {<<>>, <<"a">>, <<"a", "b">>}
ComparedCalls ==
    {[OneCall EXCEPT !.prefix = p, !.arguments = a, !.directory = d] :
        p \in CallWords, a \in {<<>>, <<"a">>, <<"b">>}, d \in {<<>>, <<"b">>}}
      \cup {[OneCall EXCEPT !.memory = m, !.stdin = s] : m \in {{}, {"1"}}, s \in {{}, {"1"}, {"0"}}}
      \cup {[OneCall EXCEPT !.contract = "floored", !.mode = m, !.interaction = i] :
              m \in {"batch", "jailed", "pty"}, i \in {"batch", "pty"}}
CallFloor ==
    [plain |-> [approval |-> 0, grants |-> <<>>, scopes |-> <<>>, authorities |-> <<>>],
     floored |-> [approval |-> 1, grants |-> <<"g">>, scopes |-> <<>>, authorities |-> <<"o">>]]
OfferedEvidence ==
    [digest : {<<>>}, class : {0, 1}, approval_receipt : BOOLEAN,
     grants : {<<>>, <<"g">>, <<"g", "h">>}, scopes : {<<>>}, authorities : {<<>>, <<"o">>}]

-----------------------------------------------------------------------------
(* A jail is built, audited, staged and launched while files change.       *)

Node(kind, owner) ==
    [kind |-> kind, owner |-> owner, open |-> FALSE, sticky |-> FALSE, links |-> 1, target |-> <<>>,
     bytes |-> "old", id |-> 1]
LinkTo(p) == [Node("link", "root") EXCEPT !.target = p, !.open = TRUE]
In(p, names) == {p \o <<n>> : n \in names}
Nodes(paths, node) == [p \in paths |-> node]

Usr == <<"usr">>
UsrBin == <<"usr", "bin">>
UsrPython == <<"usr", "lib", "python3.9">>
Versions == <<"Python.framework", "Versions">>
Framework == Versions \o <<"3.9">>
FrameworkPython == Framework \o <<"lib", "python3.9">>
Site == FrameworkPython \o <<"site-packages">>
JailSkill == <<"opt", "skill">>
JailSecrets == JailSkill \o <<"config">>

JailFiles ==
    Nodes({<<>>, Usr, UsrBin, <<"usr", "lib">>, UsrPython, <<"Python.framework">>, Versions, FrameworkPython,
           <<"etc">>, <<"opt">>, Site}
          \cup In(<<>>, {"home"}) \cup {Framework} \cup In(Framework, {"bin", "Resources", "lib"}), Node("directory", "root"))
    @@ Nodes({UsrPython \o <<"os.py">>, FrameworkPython \o <<"os.py">>, <<"usr", "helper">>, <<"etc", "certs">>,
              <<"usr", "lib", "libpython.so">>}
             \cup In(UsrBin, {"sandbox-exec", "bwrap", "python3.9"})
             \cup {Framework \o <<"bin", "python3.9">>, Framework \o <<"Resources", "Python">>, Framework \o <<"Python">>},
             Node("file", "root"))
    @@ Nodes({<<"run">>, JailSkill, JailSecrets, JailSkill \o <<"bin">>, <<"tmp", "work">>, <<"tmp", "snap">>}, Node("directory", "user"))
    @@ Nodes({JailSkill \o <<"run">>, JailSecrets \o <<"key">>, JailSecrets \o <<"run">>, Site \o <<"module">>, <<"tmp", "snap", "program">>},
             Node("file", "user"))
    @@ <<"tmp">> :> [Node("directory", "root") EXCEPT !.open = TRUE, !.sticky = TRUE]
    @@ <<"run", "broker">> :> Node("socket", "user")
    @@ Versions \o <<"Current">> :> LinkTo(Framework)
    @@ Framework \o <<"bin", "python3">> :> LinkTo(Framework \o <<"bin", "python3.9">>)
    @@ UsrBin \o <<"python3">> :> LinkTo(UsrBin \o <<"python3.9">>)
    @@ <<"usr", "lib64">> :> LinkTo(<<"usr", "lib">>)

Replaced(p) == [at |-> p, node |-> [JailFiles[p] EXCEPT !.bytes = "new", !.id = 2]]
Opened(p) == [at |-> p, node |-> [JailFiles[p] EXCEPT !.open = TRUE]]
TakenOver(p) == [at |-> p, node |-> [JailFiles[p] EXCEPT !.owner = "user"]]
Happenings ==
    {Replaced(<<"usr", "helper">>), Replaced(UsrBin \o <<"python3.9">>), Replaced(Framework \o <<"Python">>),
     Opened(<<"etc", "certs">>),
     TakenOver(UsrPython \o <<"os.py">>), TakenOver(FrameworkPython \o <<"os.py">>), Opened(JailSkill),
     [at |-> JailSecrets, node |-> LinkTo(<<"opt">>)],
     [at |-> JailSecrets \o <<"key">>, node |-> [JailFiles[JailSecrets \o <<"key">>] EXCEPT !.links = 2]]}

Allowance(files, tasks, open) ==
    [files |-> files, file_bytes |-> 2, total_bytes |-> 3, tasks |-> tasks, processes |-> 1, open_files |-> open]
Most == [files |-> 2, file_bytes |-> 2, total_bytes |-> 3, tasks |-> 2, processes |-> 1, open_files |-> 4]
Host(platform, namespaces, hard) ==
    [platform |-> platform, hard |-> hard,
     facts |-> [root |-> FALSE, kernel |-> TRUE, setuid |-> TRUE, namespaces |-> TRUE, disabled |-> FALSE,
                most |-> namespaces]]
Declared(search, excluded) ==
    [roots |-> <<[path |-> JailSkill, excluded |-> excluded]>>, search |-> search]

\* By these names TLC has computed them once and for all.
HostFiles == JailFiles
HostChanges == Happenings

\* A limit of tasks is set where there are namespaces only.
JailHosts == {Host("macos", 0, 2), Host("linux", 1, 4), Host("linux", 0, 2)}
JailLimits == {Allowance(2, 2, 4), Allowance(1, 1, 3), Allowance(0, 2, 4)}
JailBrokers ==
    {[kind |-> "none", at |-> <<>>, bundle |-> <<>>], [kind |-> "unix_socket", at |-> <<"run", "broker">>, bundle |-> <<>>],
     [kind |-> "loopback_tcp", at |-> <<"8080">>, bundle |-> <<>>]}
JailForbidden == [homes |-> {<<"home">>}, overlap |-> {<<"data">>}]
JailDeclarations == {Declared(<<JailSkill \o <<"bin">> >>, {<<"config">>}), Declared(<<JailSecrets>>, {<<"config">>})}
JailInputs == {[name |-> "i", length |-> 2], [name |-> "j", length |-> 1]}
JailHelpers == <<<<"usr", "helper">> >>
JailLaunchers == [macos |-> <<UsrBin \o <<"sandbox-exec">> >>, linux |-> <<UsrBin \o <<"bwrap">> >>]
JailCandidates == [macos |-> <<Versions \o <<"Current", "bin", "python3">> >>, linux |-> <<UsrBin \o <<"python3">> >>]
JailNeeded == <<"libpython.so">>
JailBundles == [macos |-> <<<<"etc", "certs">> >>, linux |-> <<<<"etc", "certs">> >>]
JailSystem ==
    [macos |-> {<<"System">>, <<"usr", "lib">>}, linux |-> {<<"lib">>},
     programs |-> [macos |-> {UsrBin}, linux |-> {UsrBin, <<"usr", "lib">>}]]
JailPrograms == {JailSkill \o <<"run">>, JailSecrets \o <<"run">>}
JailVersion == "python3.9" :> "3.9"
JailWork == <<"tmp", "work">>
JailSnapshot == <<"tmp", "snap", "program">>

-----------------------------------------------------------------------------
(* Records that are kept of a call.                                        *)

PersistedDrafts == {<<>>, <<1>>, <<2>>, <<0, 1>>, <<1, 2, 1>>, <<0, 1, 2, 0>>}
PersistedSecrets == {{}, {<<1, 2>>}, {<<1>>, <<1, 2, 1>>}, {<<1, 1>>, <<2>>}}
ReceiptPlans ==
    {[call_id |-> "call", baseline |-> b, bindings |-> 1, targets |-> <<"environment", "stdin">>] :
        b \in {"cli_owned_session"}}

-----------------------------------------------------------------------------
(* The components side by side.                                            *)

Parts == {"call", "store", "scratch", "forwarder", "status", "redactor", "sealing", "credentials", "authority", "lifecycle", "intent", "authorized", "jail", "members", "persisted"}

PartInit ==
    /\ part \in Parts
    /\ Init
    /\ IF part = "store" THEN Store!Init
       ELSE
            /\ ps_file = 0 /\ ps_survivors = 0 /\ ps_lock_file = 0 /\ ps_holder = 0
            /\ ps_object = 0 /\ ps_local_write = 0 /\ ps_pc = 0 /\ ps_held = 0
            /\ ps_view = 0 /\ ps_changed = 0 /\ ps_crashes = 0 /\ ps_acked = 0
            /\ ps_usurped = 0 /\ ps_contested = 0 /\ ps_outrun = 0
    /\ IF part = "scratch" THEN Scratch!Init
       ELSE
            /\ cs_lease = 0 /\ cs_active = 0 /\ cs_dirs = 0 /\ cs_pc = 0
            /\ cs_name = 0 /\ cs_todo = 0 /\ cs_faults = 0 /\ cs_crashes = 0
    /\ IF part = "forwarder" THEN Forwarder!Init
       ELSE
            /\ ef_child = 0 /\ ef_pc = 0 /\ ef_overdue = 0 /\ ef_conn = 0
            /\ ef_peer = 0 /\ ef_pipe = 0 /\ ef_gone = 0 /\ ef_failed = 0
    /\ IF part = "status" THEN Status!Init
       ELSE
            /\ je_shim = 0 /\ je_ran = 0 /\ je_command = 0 /\ je_lent = 0
            /\ je_channel = 0 /\ je_runner = 0
    /\ IF part = "redactor" THEN Redactor!Init
       ELSE
            /\ cr_patterns = 0 /\ cr_fed = 0 /\ cr_pending = 0 /\ cr_stable = 0
            /\ cr_phase = 0 /\ cr_text = 0 /\ cr_offsets = 0 /\ cr_position = 0
            /\ cr_matched = 0
    /\ IF part = "sealing" THEN Sealing!Init
       ELSE
            /\ rs_disk = 0 /\ rs_writes = 0 /\ rs_phase = 0 /\ rs_terminal = 0
            /\ rs_reading = 0 /\ rs_collected = 0 /\ rs_missing = 0
            /\ rs_rejection = 0 /\ rs_reserved = 0 /\ rs_result = 0
    /\ IF part = "credentials" THEN Credentials!Init
       ELSE
            /\ cc_contract = 0 /\ cc_registry = 0 /\ cc_directory = 0
            /\ cc_faults = 0 /\ cc_pc = 0 /\ cc_cause = 0 /\ cc_selection = 0
            /\ cc_plan = 0 /\ cc_authority = 0 /\ cc_material = 0 /\ cc_todo = 0
            /\ cc_environment = 0 /\ cc_io = 0 /\ cc_patterns = 0 /\ cc_session = 0
            /\ cc_seen = 0
    /\ IF part = "authority" THEN Authority!Init
       ELSE
            /\ ea_content = 0 /\ ea_changed = 0 /\ ea_name = 0 /\ ea_link = 0
            /\ ea_chain = 0 /\ ea_born = 0 /\ ea_changes = 0 /\ ea_pc = 0
            /\ ea_expected = 0 /\ ea_path = 0 /\ ea_identity = 0 /\ ea_digest = 0
            /\ ea_copy = 0 /\ ea_bound = 0 /\ ea_handle = 0 /\ ea_contents = 0
    /\ IF part = "lifecycle" THEN Lifecycle!Init
       ELSE
            /\ lc_profiles = 0 /\ lc_revision = 0 /\ lc_directory = 0
            /\ lc_executable = 0 /\ lc_changes = 0 /\ lc_pc = 0 /\ lc_plan = 0
            /\ lc_path = 0 /\ lc_bound = 0 /\ lc_result = 0 /\ lc_ran = 0
            /\ lc_shown = 0 /\ lc_past = 0
    /\ IF part = "intent" THEN Intent!Init
       ELSE
            /\ ei_skill = 0 /\ ei_edits = 0 /\ ei_compiled = 0 /\ ei_intent = 0
            /\ ei_call = 0 /\ ei_process = 0
    /\ IF part = "authorized" THEN Authorized!Init
       ELSE
            /\ ac_invocation = 0 /\ ac_issued = 0 /\ ac_accepted = 0 /\ ac_phase = 0
            /\ ac_receipt = 0 /\ ac_answer = 0
    /\ IF part = "jail" THEN Jail!Init
       ELSE
            /\ pj_platform = 0 /\ pj_facts = 0 /\ pj_changed = 0 /\ pj_hard = 0
            /\ pj_reading = 0 /\ pj_jail = 0 /\ pj_found = 0 /\ pj_declared = 0
            /\ pj_work = 0 /\ pj_folder = 0 /\ pj_stage = 0 /\ pj_launched = 0
    /\ IF part = "members" THEN Members!Init
       ELSE
            /\ jm_started = 0 /\ jm_proc = 0 /\ jm_stopped = 0 /\ jm_owner = 0
            /\ jm_sentinel = 0 /\ jm_aged = 0 /\ jm_jail = 0 /\ jm_sweeping = 0
            /\ jm_scan = 0 /\ jm_survived = 0 /\ jm_hops = 0 /\ jm_unknown = 0
    /\ IF part = "persisted" THEN Persisted!Init
       ELSE
            /\ cp_patterns = 0 /\ cp_plan = 0 /\ cp_drafts = 0 /\ cp_shown = 0
            /\ cp_batch = 0 /\ cp_receipt = 0 /\ cp_failure = 0 /\ cp_phase = 0

Still(parts) == UNCHANGED <<part, parts>>

Call == part = "call" /\ Still(<<ps, cs, ef, je, cr, rs, cc, ea, lc, ei, ac, pj, jm, cp>>) /\ Next
ProfileStoreSteps ==
    part = "store" /\ Still(<<vars, cs, ef, je, cr, rs, cc, ea, lc, ei, ac, pj, jm, cp>>) /\ Store!Next
CredentialScratchSteps ==
    part = "scratch" /\ Still(<<vars, ps, ef, je, cr, rs, cc, ea, lc, ei, ac, pj, jm, cp>>) /\ Scratch!Next
EgressForwarderSteps ==
    part = "forwarder" /\ Still(<<vars, ps, cs, je, cr, rs, cc, ea, lc, ei, ac, pj, jm, cp>>) /\ Forwarder!Next
JailExecStatusSteps ==
    part = "status" /\ Still(<<vars, ps, cs, ef, cr, rs, cc, ea, lc, ei, ac, pj, jm, cp>>) /\ Status!Next
CredentialRedactorSteps ==
    part = "redactor" /\ Still(<<vars, ps, cs, ef, je, rs, cc, ea, lc, ei, ac, pj, jm, cp>>) /\ Redactor!Next
ResultSealingSteps ==
    part = "sealing" /\ Still(<<vars, ps, cs, ef, je, cr, cc, ea, lc, ei, ac, pj, jm, cp>>) /\ Sealing!Next
CredentialCallSteps ==
    part = "credentials" /\ Still(<<vars, ps, cs, ef, je, cr, rs, ea, lc, ei, ac, pj, jm, cp>>) /\ Credentials!Next
ExecutionAuthoritySteps ==
    part = "authority" /\ Still(<<vars, ps, cs, ef, je, cr, rs, cc, lc, ei, ac, pj, jm, cp>>) /\ Authority!Next
LifecycleCommandSteps ==
    part = "lifecycle" /\ Still(<<vars, ps, cs, ef, je, cr, rs, cc, ea, ei, ac, pj, jm, cp>>) /\ Lifecycle!Next
ExecutionIntentSteps ==
    part = "intent" /\ Still(<<vars, ps, cs, ef, je, cr, rs, cc, ea, lc, ac, pj, jm, cp>>) /\ Intent!Next
AuthorizedCallSteps ==
    part = "authorized" /\ Still(<<vars, ps, cs, ef, je, cr, rs, cc, ea, lc, ei, pj, jm, cp>>) /\ Authorized!Next
ProcessJailSteps ==
    part = "jail" /\ Still(<<vars, ps, cs, ef, je, cr, rs, cc, ea, lc, ei, ac, jm, cp>>) /\ Jail!Next
JailMembersSteps ==
    part = "members" /\ Still(<<vars, ps, cs, ef, je, cr, rs, cc, ea, lc, ei, ac, pj, cp>>) /\ Members!Next
CallPersistenceSteps ==
    part = "persisted" /\ Still(<<vars, ps, cs, ef, je, cr, rs, cc, ea, lc, ei, ac, pj, jm>>) /\ Persisted!Next

PartNext ==
    \/ Call
    \/ ProfileStoreSteps
    \/ CredentialScratchSteps
    \/ EgressForwarderSteps
    \/ JailExecStatusSteps
    \/ CredentialRedactorSteps
    \/ ResultSealingSteps
    \/ CredentialCallSteps
    \/ ExecutionAuthoritySteps
    \/ LifecycleCommandSteps
    \/ ExecutionIntentSteps
    \/ AuthorizedCallSteps
    \/ ProcessJailSteps
    \/ JailMembersSteps
    \/ CallPersistenceSteps

all == <<part, vars, ps, cs, ef, je, cr, rs, cc, ea, lc, ei, ac, pj, jm, cp>>
PartSpec == PartInit /\ [][PartNext]_all

\* Lifecycle commands alone.
CommandSpec == part = "lifecycle" /\ PartInit /\ [][LifecycleCommandSteps]_all
-----------------------------------------------------------------------------
(* What only lifecycle commands by themselves are asked.                   *)

\* An executable that is safe in an entry of the PATH is found, when no earlier
\* entry has that name at all (resolve).
LaterEntriesAreSearched == part = "lifecycle" => Lifecycle!LaterEntriesAreSearched
=============================================================================
