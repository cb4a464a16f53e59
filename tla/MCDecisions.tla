---------------------------- MODULE MCDecisions -----------------------------
(***************************************************************************)
(* What is decided outside of a call, about tools and profiles, side by    *)
(* side: an initial state picks one of the components, its steps run, and  *)
(* the others stand still.  AuthStatus, logins against the cache of        *)
(* readiness, is extended.                                                 *)
(*                                                                         *)
(* Here are the values of the constants of each part, and the parts that   *)
(* Decisions does not hold; the README says why they are enough.           *)
(***************************************************************************)
EXTENDS AuthStatus, Decisions, Sequences, TLC

CONSTANTS t1, d1

OneTarget == {t1}
OneDirectory == {d1}
ItsDirectory == [t \in OneTarget |-> d1]

\* Coordinators are only compared for equality.
Interchangeable == Permutations(Coordinators)

-----------------------------------------------------------------------------
(* Typed actions compiled against a contract, and their invocations.       *)

AnyInterpreter == [e \in {"tool", "sh", "extra"} |-> IF e = "sh" THEN "shell" ELSE "other"]
Dashed == {"-c", "--", "-f"}
Limits ==
    [argument |-> 6, combined |-> 14, items |-> 5, description |-> 4, enum |-> 2, integer |-> 3, number |-> 4,
     control |-> 8, depth |-> 2, nodes |-> 3, rules |-> 1, prefix |-> 2, allowed |-> 1, tokens |-> 4,
     rule_bytes |-> 12, policy |-> 2, name |-> 5, timeout |-> 3, stream |-> 8, parameters |-> 2,
     mappings |-> 3, actions |-> 1]
Portables == {"run", "p", "q", "g1", "g2", "g3"}

\* Values.
Json(type, text, number, items) == [type |-> type, text |-> text, number |-> number, key |-> "", items |-> items]
Text(t) == Json("string", t, 0, <<>>)
Number(n) == Json("number", "", n, <<>>)
Truth(t) == Json("boolean", t, 0, <<>>)
List(items) == Json("array", "", 0, items)
Object(items) == Json("object", "", 0, [i \in DOMAIN items |-> [items[i] EXCEPT !.key = "k"]])

SomeValues ==
    {Text(t) : t \in {"", "a", "status", "a b", "a b c", "'a b' c", "'' \"\\\"\"", "a '", "a\tb", "abcdefg"}}
        \cup {Number(n) : n \in {-10, 0, 2, 100}} \cup {Truth("true"), Truth("false")}
        \cup {List(<<>>), List(<<Text("login")>>), List(<<Text("status"), Text("a")>>),
              List(<<Text(""), Number(1)>>), List(<<List(<<List(<<>>)>>)>>)}
        \cup {Object(<<>>), Object(<<Number(1)>>), Object(<<Text("a"), Number(1), Number(1)>>)}

None == [n \in {} |-> Text("")]
TypedInputs ==
    {None} \cup {"p" :> v : v \in SomeValues}
        \cup {"p" :> v @@ "q" :> w : v \in {Text("a"), Truth("true")}, w \in {Text("status"), Number(100)}}
        \cup {n :> v : n \in {"profile", "stdin", "timeout_secs"}, v \in {Text("a"), Number(2), Number(3)}}
        \cup {"unknown" :> Text("a")}

NoLimits == [n \in {} |-> 0]

\* A skill and an action, and what the families below change in them.
TypedSkill ==
    [id |-> "s", bins |-> {"tool", "sh"}, executable |-> "tool", prefix |-> <<>>, limits |-> NoLimits,
     selection |-> "none", default_profile |-> FALSE, stdin |-> "denied", injects_stdin |-> FALSE,
     working_directory |-> "denied",
     hooks |-> [auth_status |-> <<"auth", "status">>, logout |-> <<"auth", "login">>],
     floor |-> [approval |-> "read", grants |-> {"g1"}, scopes |-> {}, authorities |-> {"g1"}]]
NoRules == [denied |-> <<>>, next |-> <<>>]
NoPolicy == [approvals |-> {}, grants |-> {}, scopes |-> {}, authorities |-> {}]
TypedAction(parameters, mappings) ==
    [description |-> "d", route |-> "execute", fixed |-> <<"repo">>, suffix |-> <<>>, stdin |-> "inherit",
     parameters |-> parameters, mappings |-> mappings, rules |-> NoRules, policy |-> NoPolicy]
Package(skill, delivery, action) ==
    [skill |-> skill, overrides |-> [version |-> 2, delivery |-> delivery, actions |-> "run" :> action]]

Parameter(type, required) == [type |-> type, required |-> required, description |-> "d"]
StringParameter(required) == Parameter("string", required) @@ [enum |-> {}]
Map(kind, name) ==
    [kind |-> kind, parameter |-> name, flag |-> "-f", omit_if_empty |-> TRUE, items |-> 2, item_bytes |-> 3,
     arguments |-> <<"lit">>]
Arrays == Parameter("string_array", FALSE) @@ [max |-> 2, item_bytes |-> 6]
Passing == TypedAction("p" :> Arrays, <<Map("passthrough", "p")>>)

\* Paths: prefixes, fixed arguments, suffixes, executables and routes.
PathPackages ==
    {Package([TypedSkill EXCEPT !.prefix = prefix], "argv",
             [Passing EXCEPT !.fixed = fixed, !.suffix = suffix, !.route = route]) :
        prefix \in {<<>>, <<"auth">>}, suffix \in {<<>>, <<"-f">>},
        fixed \in {<<>>, <<"auth">>, <<"repo">>, <<"auth", "status">>, <<"auth", "status", "a">>, <<"status">>},
        route \in {"execute", "auth_status", "auth_login"}}
    \cup {Package(TypedSkill, "argv", [executable |-> e] @@ [Passing EXCEPT !.fixed = fixed, !.route = route]) :
        e \in {"sh", "extra"}, route \in {"execute", "auth_login"},
        fixed \in {<<"auth">>, <<"-c">>, <<"--", "auth">>, <<"--", "-c">>}}

\* Parameters of every type, with and without their limits.
Bounded(p, low, high) == {p, p @@ [min |-> low], p @@ [max |-> high], p @@ [min |-> low, max |-> high]}
Optional(ps, field, values) == ps \cup {p @@ (field :> v) : p \in ps, v \in values}
Strings ==
    Optional({[p EXCEPT !.enum = e] : p \in Bounded(StringParameter(FALSE), 1, 3) \cup {StringParameter(TRUE)},
                                      e \in {{}, {Text("a")}, {Text("a"), Text("abcdefg")}}},
             "default", {Text(""), Text("a"), Text("a b")})
TypedIntegers ==
    Optional({p @@ [enum |-> e] : p \in Bounded(Parameter("integer", FALSE), 0, 2), e \in {{}, {Number(2)}}},
             "default", {Number(0), Number(100)})
Jsons ==
    Optional({Parameter(t, FALSE) @@ [depth |-> d] : t \in {"json_object", "json_array"}, d \in {1, 2, 3}},
             "bytes", {0, 6, 7})
OneParameter ==
    {<<p, kind>> : p \in Strings, kind \in {"positional", "flag", "split_positional", "runtime_control"}}
    \cup {<<p, kind>> : p \in TypedIntegers \cup Bounded(Parameter("number", TRUE), 0, 2),
                        kind \in {"positional", "flag"}}
    \cup {<<p, kind>> : p \in Optional({Parameter("boolean", TRUE)}, "default", {Truth("true")}),
                        kind \in {"positional", "flag", "bool_flag"}}
    \cup {<<p, kind>> : p \in Optional(Bounded(Parameter("string_array", FALSE), 1, 2), "item_bytes", {0, 3, 6}),
                        kind \in {"repeated_flag", "passthrough"}}
    \cup {<<p, kind>> : p \in Jsons, kind \in {"json_flag", "positional"}}
    \cup {<<p @@ [access |-> access], "positional">> :
            p \in Bounded(Parameter("workspace_path", TRUE), 1, 6), access \in {"read_file", "create_file"}}
ParameterPackages ==
    {Package(TypedSkill, "argv", TypedAction("p" :> x[1], <<Map(x[2], "p")>>)) : x \in OneParameter}
    \cup {Package([TypedSkill EXCEPT !.stdin = "required"], "canonical_json", TypedAction("p" :> p, <<>>)) :
            p \in Strings \cup TypedIntegers \cup Jsons}
    \cup {Package(TypedSkill, "argv", TypedAction("p" :> StringParameter(TRUE) @@ "q" :> q, mappings)) :
            q \in {StringParameter(FALSE), Parameter("number", FALSE)},
            mappings \in {<<Map("flag", "p"), Map("literal", "p"), Map("flag", "q")>>,
                          <<Map("flag", "p"), Map("flag", "p")>>, <<Map("positional", "p")>>}}

\* Controls, rules and policies.
ControlPackages ==
    {Package([TypedSkill EXCEPT !.stdin = stdin, !.selection = selection, !.limits = limits,
                                !.injects_stdin = injects], delivery,
             [Passing EXCEPT !.stdin = refined, !.mappings = IF delivery = "argv" THEN @ ELSE <<>>]) :
        stdin \in {"denied", "optional", "required"}, selection \in {"none", "selectable"},
        limits \in {NoLimits, [timeout |-> 2]}, injects \in BOOLEAN, delivery \in {"argv", "canonical_json"},
        refined \in {"inherit", "denied", "optional", "required"}}
    \cup {Package(TypedSkill, "argv", Passing @@ [timeout |-> t]) : t \in {0, 2, 4}}
    \cup {Package(TypedSkill, "argv", [Passing EXCEPT !.policy = [NoPolicy EXCEPT !.grants = g, !.approvals = a]]) :
            g \in {{}, {"g2"}, {"g2", "g3"}, {"-"}}, a \in {{}, {"write"}}}
Constrained(prefix, allowed) == [prefix |-> prefix, allowed |-> allowed]
RulePackages ==
    {Package(TypedSkill, "argv", [Passing EXCEPT !.rules = [denied |-> denied, next |-> next]]) :
        denied \in {<<>>, <<<<"repo", "login">>>>, <<<<"repo">>>>, <<<<>>>>},
        next \in {<<>>, <<Constrained(<<"repo">>, {"status"})>>, <<Constrained(<<"repo">>, {})>>}}

TypedPackages == PathPackages \cup ParameterPackages \cup ControlPackages \cup RulePackages

VARIABLES
    ta_package, ta_stage, ta_catalog, ta_input, ta_lowered

ta == <<ta_package, ta_stage, ta_catalog, ta_input, ta_lowered>>

Typed == INSTANCE TypedActions WITH
    Family <- AnyInterpreter, Flags <- Dashed, Most <- Limits,
    Packages <- TypedPackages, Inputs <- TypedInputs, Names <- Portables,
    package <- ta_package, stage <- ta_stage, catalog <- ta_catalog,
    input <- ta_input, lowered <- ta_lowered

-----------------------------------------------------------------------------
(* Readers of one SKILL.md.                                                *)

SkillLine(indent) ==
    [text |-> "key", ended |-> TRUE, return |-> FALSE, length |-> 1, indent |-> indent, compact |-> 0, opens |-> 0, closes |-> 0,
     anchor |-> FALSE, scalar |-> FALSE, blank |-> FALSE, comment |-> FALSE]
Fence == [SkillLine(0) EXCEPT !.text = "---"]
Blank == [SkillLine(0) EXCEPT !.blank = TRUE]
SkillLines ==
    {SkillLine(0), SkillLine(1), [SkillLine(2) EXCEPT !.compact = 1], [SkillLine(0) EXCEPT !.scalar = TRUE], Blank,
     [SkillLine(1) EXCEPT !.anchor = TRUE], [SkillLine(0) EXCEPT !.opens = 1], [SkillLine(1) EXCEPT !.opens = 1, !.closes = 2],
     [SkillLine(4) EXCEPT !.comment = TRUE], [SkillLine(0) EXCEPT !.length = 5]}
Fences == {Fence, [Fence EXCEPT !.return = TRUE], [Fence EXCEPT !.ended = FALSE]}
Texts ==
    {<<>>, <<Fence>>, <<[Fence EXCEPT !.ended = FALSE]>>, <<[SkillLine(0) EXCEPT !.ended = FALSE]>>}
        \cup {<<first>> \o middle \o <<last>> :
                first \in {Fence, [Fence EXCEPT !.return = TRUE], SkillLine(0)}, last \in Fences \cup {SkillLine(0)},
                middle \in UNION {[1..n -> SkillLines] : n \in 0..2}}

EmptyCatalog ==
    [parses |-> TRUE, categories |-> <<>>, names |-> [n \in {} |-> ""], defaults |-> [n \in {} |-> 0], exposes_directory |-> FALSE,
     aliases |-> {}, spend_fits |-> TRUE]
CliContract ==
    [kind |-> "mapping", version |-> "v1", fits |-> TRUE, protocol |-> "cli", limits |-> "timeout" :> 2, directory |-> "workspace",
     endpoints |-> {}, selectable |-> TRUE, default |-> "alias"]
Catalogs ==
    {EmptyCatalog, [EmptyCatalog EXCEPT !.parses = FALSE], [EmptyCatalog EXCEPT !.spend_fits = FALSE],
     [EmptyCatalog EXCEPT !.categories = <<"media">>], [EmptyCatalog EXCEPT !.categories = <<"Media">>],
     [EmptyCatalog EXCEPT !.categories = <<"media", "media">>]}
    \cup {[EmptyCatalog EXCEPT !.defaults = "timeout" :> t] : t \in 0..3}
    \cup {[EmptyCatalog EXCEPT !.names = "directory" :> name, !.exposes_directory = shown] :
            name \in {"folder", "stdin", "Folder"}, shown \in BOOLEAN}
    \cup {[EmptyCatalog EXCEPT !.exposes_directory = TRUE, !.names = [n \in {} |-> ""]]}
    \cup {[EmptyCatalog EXCEPT !.names = "profile" :> "model", !.aliases = aliases] :
            aliases \in {{}, {"alias"}, {"work"}, {"alias", "work"}}}
    \cup {[EmptyCatalog EXCEPT !.names = "endpoint" :> name] : name \in {"endpoint", "profile"}}
SkillFileContracts ==
    {CliContract, [CliContract EXCEPT !.kind = "absent"], [CliContract EXCEPT !.kind = "scalar"],
     [CliContract EXCEPT !.version = "absent"], [CliContract EXCEPT !.version = "malformed"], [CliContract EXCEPT !.version = "other"],
     [CliContract EXCEPT !.fits = FALSE], [CliContract EXCEPT !.directory = "none"], [CliContract EXCEPT !.default = "none"],
     [CliContract EXCEPT !.selectable = FALSE], [CliContract EXCEPT !.limits = [n \in {} |-> 0]],
     [CliContract EXCEPT !.protocol = "mcp", !.endpoints = {"e"}, !.limits = [n \in {} |-> 0]]}
Yaml(contract, catalog) ==
    [parses |-> TRUE, nodes |-> 3, depth |-> 2, tagged |-> FALSE, path |-> <<"mapping", "mapping", "mapping">>, expose |-> "valid",
     audience |-> {"apps"}, contract |-> contract, actions |-> "valid", catalog |-> catalog]
Trees ==
    LET plain == Yaml(CliContract, EmptyCatalog)
    IN  {Yaml(c, catalog) : c \in SkillFileContracts, catalog \in Catalogs}
        \cup {[plain EXCEPT !.parses = FALSE], [plain EXCEPT !.nodes = 4], [plain EXCEPT !.depth = 3], [plain EXCEPT !.tagged = TRUE]}
        \cup {[plain EXCEPT !.path = path] :
                path \in {<<"scalar", "absent", "absent">>, <<"mapping", "absent", "absent">>, <<"mapping", "mapping", "scalar">>}}
        \cup {[plain EXCEPT !.expose = e] : e \in {"absent", "invalid"}}
        \cup {[Yaml([CliContract EXCEPT !.kind = k], EmptyCatalog) EXCEPT !.actions = a] :
                k \in {"absent", "mapping"}, a \in {"absent", "valid", "invalid"}}
SkillFiles ==
    {[bytes |-> 9, lines |-> lines, yaml |-> Yaml(CliContract, EmptyCatalog)] : lines \in Texts}
        \cup {[bytes |-> bytes, lines |-> <<Fence, SkillLine(0), Fence>>, yaml |-> yaml] : bytes \in {9, 10}, yaml \in Trees}

SkillFileNames == {"media", "alias", "model", "folder", "endpoint", "work", "stdin", "profile"}
ReservedNames == [directory |-> {"profile", "stdin", "timeout_secs"}, endpoint |-> {"profile", "tool_name"}, profile |-> {}]

-----------------------------------------------------------------------------
(* The reviewed tools of an MCP server.                                    *)

NoMcp == [n \in {} |-> 0]
Reviewed(risk) == [risk |-> risk, description |-> 1, approvals |-> {}, grants |-> {}, scopes |-> {}, authorities |-> {}]
Https(query) == [bare |-> TRUE, scheme |-> "https", loopback |-> FALSE, query |-> query]
Discovery ==
    [namespace |-> <<>>, allow |-> {}, deny |-> {}, policies |-> NoMcp, aliases |-> NoMcp, default |-> "none", oauth |-> NoMcp,
     commerce |-> NoMcp]
Purchase == [Reviewed("commerce") EXCEPT !.scopes = {"cart"}, !.authorities = {"payer"}]
Commerce(amount) ==
    [scope |-> "cart", authority |-> "payer", amount |-> amount, terms |-> {"pay"}, cart_terms |-> {"cart"}, fields |-> {"total"},
     final |-> {<<"a">>}, conditional |-> {}, cartless |-> {}, allow_cartless |-> FALSE]
Shop(amount) == [Discovery EXCEPT !.commerce = Commerce(amount), !.policies = <<"a">> :> Purchase]
Discoveries ==
    {Discovery, Shop("amount"), Shop("risk"), Shop("profile"),
     [Discovery EXCEPT !.namespace = <<"n">>, !.allow = {<<"a">>, <<"b">>}, !.deny = {<<"b">>}],
     [Discovery EXCEPT !.policies = <<"a">> :> Reviewed("read_only") @@ <<"c">> :> [Reviewed("commerce") EXCEPT !.grants = {"g", "h"}]],
     [Discovery EXCEPT !.policies = <<"a">> :> Reviewed("read_only"), !.deny = {<<"a">>}],
     [Discovery EXCEPT !.policies = <<"?">> :> Reviewed("read_only")],
     [Shop("amount") EXCEPT !.policies = <<"a">> :> Reviewed("commerce")],
     [Shop("amount") EXCEPT !.commerce.final = {}, !.commerce.conditional = {<<"a">>}],
     [Shop("amount") EXCEPT !.commerce.final = {}, !.commerce.conditional = {<<"a">>}, !.policies = <<"a">> :> Reviewed("commerce")],
     [Shop("amount") EXCEPT !.policies = <<"a">> :> [Purchase EXCEPT !.risk = "read_only"]],
     [Discovery EXCEPT !.aliases = "main" :> Https(FALSE)],
     [Discovery EXCEPT !.aliases = "main" :> Https(FALSE), !.default = "main"],
     [Shop("endpoint") EXCEPT !.aliases = "main" :> Https(FALSE), !.default = "main", !.commerce.cartless = {"main"}],
     [Discovery EXCEPT !.aliases = "main" :> Https(TRUE), !.default = "main", !.oauth = [issuer |-> Https(FALSE), scopes |-> {"s"}]],
     [Discovery EXCEPT !.oauth = [issuer |-> Https(FALSE), scopes |-> {"s"}]]}
Floor(grants) == [approval |-> "ordinary", sets |-> [grants |-> grants, scopes |-> {}, authorities |-> {}]]
McpSkill(discovery, transport, auth, floor) ==
    [id |-> <<"s">>, protocol |-> "mcp", authored |-> FALSE, discovery |-> discovery, transport |-> transport, auth |-> auth,
     floor |-> floor, selectable |-> TRUE, parameters |-> [endpoint |-> "endpoint", profile |-> "profile"]]
Stdio == [kind |-> "stdio", endpoint |-> Https(FALSE)]
Http(endpoint) == [kind |-> "http", endpoint |-> endpoint]
McpSkills ==
    {McpSkill(d, transport, auth, Floor(grants)) :
        d \in Discoveries, transport \in {Stdio, Http(Https(FALSE)), Http([Https(FALSE) EXCEPT !.scheme = "http"])},
        auth \in {"none", "oauth_session"}, grants \in {{}, {"g"}, {"f"}}}
    \cup {[McpSkill(Shop("amount"), Stdio, "none", Floor({})) EXCEPT !.parameters.profile = name] :
            name \in {"account", "amount", "endpoint", "tool_name"}}
    \cup {[McpSkill(Discovery, Stdio, "none", Floor({})) EXCEPT !.authored = TRUE],
          [McpSkill(Discovery, Stdio, "none", Floor({})) EXCEPT !.protocol = "cli"],
          [McpSkill(Discovery, Stdio, "none", Floor({})) EXCEPT !.id = <<"s", "t">>]}

ListedTools == SUBSET {<<"a">>, <<"b">>, <<"a", "b">>, <<"c">>, <<"?">>}
UnportableNames == {<<"?">>}

-----------------------------------------------------------------------------
(* Host-owned sessions and what is delegated to their owners.              *)

StrategyContract(auth, storage, selection) ==
    [protocol |-> "cli", auth |-> auth, storage |-> storage, requirement |-> "required", selection |-> selection, alias |-> "work",
     provider |-> "shop"]
NativeSkill == StrategyContract("native_permission", "operating_system", "none")
BrowserSkill(selection) == StrategyContract("browser_profile", "browser_profile", selection)
StrategyContracts ==
    {BrowserSkill("fixed"), [BrowserSkill("implicit") EXCEPT !.requirement = "optional"],
     [NativeSkill EXCEPT !.protocol = "mcp", !.requirement = "conditional"]}
Decided(mode, alias, scope) ==
    [mode |-> mode, alias |-> alias, provider |-> "shop", scope |-> scope, profile_scope |-> "app", binding |-> "provider",
     revision |-> 1]
StrategySelections ==
    {Decided("selected", "work", "app"), Decided("selected", "home", "app"), Decided("selected", "work", "other"),
     Decided("implicit", "none", "app"), Decided("none", "none", "app"), [permission |-> "automation", binding |-> "target"]}
OwnedProfile(mode, alias, revision) ==
    [mode |-> mode, scope |-> "app", provider |-> "shop", alias |-> alias, revision |-> revision]
Owned(identity, class, state) == [identity |-> identity, class |-> class, state |-> state, revision |-> 1]
StrategyOwners ==
    {Owned(OwnedProfile("selected", "work", 1), "user", "ready"), Owned(OwnedProfile("implicit", "none", 0), "user", "expired"),
     Owned([permission |-> "automation", binding |-> "target"], "none", "not_determined")}

-----------------------------------------------------------------------------
(* The registry of profiles as it is written, read and selected from.      *)

Named(text) == [text |-> text, bytes |-> 3, dots |-> FALSE, first_alphanumeric |-> TRUE, plain |-> TRUE]
Endpoint ==
    [scheme |-> "https", host |-> "name", bytes |-> 8, printed_bytes |-> 9, printed |-> "https://mail/",
     userinfo |-> FALSE, query |-> FALSE, fragment |-> FALSE]
OtherSpelling == [Endpoint EXCEPT !.bytes = 9]
ByProvider == [kind |-> "provider", resource |-> Endpoint, issuer |-> Endpoint]
ByOAuth(url) == [kind |-> "mcp_oauth", resource |-> url, issuer |-> Endpoint]
AskedKey(alias, binding) == [scope |-> "workspace", provider |-> Named("mail"), alias |-> alias, binding |-> binding]
AskedKeys ==
    {AskedKey(Named("home"), ByProvider), AskedKey(Named("work"), ByProvider), AskedKey(Named("home"), ByOAuth(Endpoint)),
     AskedKey(Named("home"), ByOAuth(OtherSpelling)), [AskedKey(Named("home"), ByProvider) EXCEPT !.scope = "elsewhere"]}
    \cup {AskedKey(name, ByProvider) : name \in {[Named("long") EXCEPT !.bytes = 4], [Named("") EXCEPT !.bytes = 0],
          [Named("up") EXCEPT !.dots = TRUE], [Named("-x") EXCEPT !.first_alphanumeric = FALSE], [Named("@") EXCEPT !.plain = FALSE]}}
    \cup {AskedKey(Named("home"), ByOAuth(url)) :
            url \in {[Endpoint EXCEPT !.scheme = "http"], [Endpoint EXCEPT !.userinfo = TRUE], [Endpoint EXCEPT !.query = TRUE],
                     [Endpoint EXCEPT !.fragment = TRUE], [Endpoint EXCEPT !.host = "none"], [Endpoint EXCEPT !.printed_bytes = 10],
                     [Endpoint EXCEPT !.scheme = "http", !.host = "loopback", !.printed_bytes = 10]}}

HomeKey == [scope |-> "workspace", provider |-> "mail", alias |-> "home",
            binding |-> [kind |-> "provider", resource |-> "nobody", issuer |-> "nobody"]]
WorkKey == [HomeKey EXCEPT !.alias = "work"]
Configured(key, default, root) ==
    [key |-> key, root |-> root, metadata |-> [identity |-> "anybody", default |-> default, disabled |-> FALSE, revision |-> 1]]
Configurations ==
    {{}, {Configured(HomeKey, TRUE, {HomeKey})}, {Configured(HomeKey, FALSE, {}), Configured(WorkKey, TRUE, {})},
     {Configured(HomeKey, TRUE, {WorkKey})}, {Configured(HomeKey, TRUE, {}), Configured(WorkKey, TRUE, {})}}
OAuthKey == [HomeKey EXCEPT !.binding = [kind |-> "mcp_oauth", resource |-> "https://mail/", issuer |-> "https://mail/"]]
ProfileKeys == {HomeKey, WorkKey, OAuthKey, [HomeKey EXCEPT !.scope = "elsewhere"]}
RequestBindings == {ByProvider, ByOAuth(Endpoint)}
SelectionPolicies ==
    {[kind |-> kind, alias |-> "nobody"] : kind \in {"none", "implicit", "selectable"}}
        \cup {[kind |-> kind, alias |-> alias] : kind \in {"selectable", "fixed"}, alias \in {"work", "malformed"}}

-----------------------------------------------------------------------------
(* Opening a directory that was issued, while its path changes.            *)

PositionInodes ==
    [container |-> 1, principal |-> 2, workspace |-> 3, auth |-> 4, home |-> 5, other |-> 6, odd |-> 7]
ComponentNames ==
    [p \in DOMAIN PositionInodes |->
        [bytes |-> 3, dots |-> p = "odd", first_alphanumeric |-> TRUE, plain |-> TRUE]]
ProfileStatuses ==
    {[key |-> "home", purpose |-> "lifecycle", enabled |-> FALSE, state |-> "missing"],
     [key |-> "home", purpose |-> "execution", enabled |-> TRUE, state |-> "ready"],
     [key |-> "home", purpose |-> "execution", enabled |-> TRUE, state |-> "expired"],
     [key |-> "other", purpose |-> "lifecycle", enabled |-> TRUE, state |-> "ready"]}

-----------------------------------------------------------------------------
(* A classification compiled against an inventory.                         *)

PlainSource == [id |-> "mail", env |-> {}, auth |-> FALSE, selectors |-> {},
                adapters |-> {"run"}, officialMcp |-> FALSE]
SourceInventories ==
    {[version |-> "1", skills |-> {PlainSource, [PlainSource EXCEPT !.id = "chat", !.auth = TRUE, !.env = {"KEY"},
                                                 !.selectors = {"acct"}, !.adapters = {}, !.officialMcp = TRUE]},
      findings |-> {}],
     [version |-> "1", skills |-> {PlainSource},
      findings |-> {[skill |-> "mail", code |-> "shape", source |-> "file", severity |-> s] : s \in {"Error", "Warning"}}
                       \cup {[skill |-> "", code |-> "shape", source |-> "file", severity |-> "Warning"]}]}
OpenSkills ==
    [skills |-> <<"mail">>, strategies |-> <<"None">>, requirement |-> "None", provider |-> {},
     profile |-> [policy |-> "None", source |-> "None", selector |-> {}, alias |-> {}],
     owner |-> "None", store |-> "None", setup |-> "None", identity |-> "None", runtime |-> "SkillAdapter"]
SecretSkills ==
    [OpenSkills EXCEPT !.strategies = <<"Secrets">>, !.requirement = "Required", !.provider = {"op"},
        !.owner = "Runtime", !.store = "ScopedSecretStore", !.setup = "OperatorSecretBinding",
        !.identity = "ProviderRequest"]
OfficialSkills ==
    [SecretSkills EXCEPT !.skills = <<"chat">>, !.strategies = <<"Secrets", "OAuthSession">>,
        !.owner = "OfficialSdk", !.runtime = "OfficialMcpSdk",
        !.profile = [policy |-> "Selectable", source |-> "SchemaSelector", selector |-> {"acct"}, alias |-> {}]]
SkillDecisions ==
    {OpenSkills, SecretSkills, OfficialSkills, [OpenSkills EXCEPT !.store = "BrowserProfile"],
     [SecretSkills EXCEPT !.store = "None"], [OfficialSkills EXCEPT !.skills = <<"mail", "chat">>]}
AdapterDecisions ==
    {[files |-> <<<<"mail", "run">>>>, role |-> r, ownership |-> o] :
        r \in {"RuntimeEntrypoint"}, o \in {<<"RemovablePlumbing">>, <<"NotWrapper">>}}
FindingDecisions ==
    {[skill |-> s, code |-> "shape", source |-> "file", kind |-> k] : s \in {"mail", ""}, k \in {"AcceptBaseline", "FixBeforePhase1"}}
KnownRemarks == {[id |-> "op", skills |-> <<"mail">>]}

VARIABLES
    cl_inventory, cl_manifest, cl_report

cl == <<cl_inventory, cl_manifest, cl_report>>

Classified == INSTANCE Classification WITH
    Identifiers <- {"mail", "chat", "op", "acct"},
    Inventories <- SourceInventories,
    Versions <- {<<"current", "1">>, <<"old", "1">>},
    SkillGroups <- SkillDecisions, AdapterGroups <- AdapterDecisions,
    Dispositions <- FindingDecisions, Remarks <- KnownRemarks,
    MaxGroups <- 2, inventory <- cl_inventory, manifest <- cl_manifest,
    report <- cl_report

-----------------------------------------------------------------------------
(* The scan of the skill root.                                             *)

Absent == [shape |-> "absent", items |-> {}]
Listed(names) == [shape |-> "sequence", items |-> names]
Mapped(names) == [shape |-> "mapping", items |-> names]
NoWords == [shape |-> "absent", items |-> <<>>]
LineOf(indent, anchors, names) == [indent |-> indent, bytes |-> 1, block |-> FALSE, anchors |-> anchors, aliases |-> names]
PlainDoc ==
    [parses |-> TRUE, mentionsContract |-> FALSE, name |-> {"mail"}, version |-> {"1"}, type |-> {},
     bins |-> Listed({"curl"}), env |-> Absent, package |-> {}, lines |-> <<LineOf(0, <<>>, <<>>)>>]
PlainRecipe ==
    [parameters |-> <<"to">>, required |-> <<"to">>, overrides |-> [n \in {"to"} |-> "string"], argv |-> {}, skip |-> {},
     mappings |-> {<<[type |-> "flag", param |-> "to", words |-> 0]>>}, suffix |-> {}, timeout |-> {}]
PlainSchema ==
    [parses |-> TRUE, formed |-> TRUE, nodes |-> 1, depth |-> 1, name |-> {"mail"}, version |-> {},
     lines |-> <<LineOf(0, <<"a">>, <<>>), LineOf(1, <<>>, <<>>), LineOf(0, <<>>, <<"a">>)>>,
     actions |-> Mapped({"send"}), recipes |-> [n \in {"send", "run"} |-> PlainRecipe],
     implementation |-> [shape |-> "mapping", kind |-> {"primitive"}, program |-> {"curl"}, command |-> NoWords,
                         fixed |-> NoWords, env |-> Absent, provider |-> {}, mappings |-> {}, suffix |-> {},
                         timeout |-> {}, cwd |-> {}, content |-> {}],
     auth |-> [shape |-> "absent", required |-> "absent", strings |-> {}, others |-> {}],
     parameters |-> <<>>, overrides |-> <<>>,
     execution |-> [shape |-> "absent", browser |-> "absent", categories |-> {}, timeout |-> {}]]
File(path, root) == [path |-> path, root |-> root, extension |-> "none", depth |-> 2, skipped |-> FALSE]
PlainFiles == [readable |-> TRUE, list |-> <<File("run", "bin")>>]
GovernedPackage ==
    [valid |-> TRUE, compiles |-> TRUE, selectable |-> TRUE,
     selector |-> {[parameter |-> "account", aliases |-> {"work"}, default |-> {}]},
     bins |-> {"curl"}, actions |-> {"send"}, kind |-> "primitive", program |-> "curl", prefix |-> 1,
     injected |-> {"KEY"}, auth |-> TRUE, required |-> "true", hooks |-> {"check_command"}, categories |-> {"work"},
     words |-> <<"x">>, storage |-> "scoped", selection |-> "selectable", roots |-> {"KEY"}, timeout |-> {60},
     recipes |-> [n \in {"send"} |->
         [parameters |-> {[name |-> "to", kind |-> "string", required |-> TRUE]}, required |-> {"profile"},
          mappings |-> <<[type |-> "flag", param |-> "to", words |-> 0], [type |-> "runtime_control", param |-> "stdin", words |-> 0]>>,
          controls |-> {"stdin"}, delivery |-> "argv", argv |-> <<>>, suffix |-> <<>>, rules |-> 1,
          timeout |-> {}]]]
PlainSkill ==
    [kind |-> "directory", hidden |-> FALSE, markdown |-> {PlainDoc}, schema |-> {PlainSchema}, files |-> PlainFiles]
SchemaOf(schema) == [PlainSkill EXCEPT !.schema = {schema}]
DocOf(doc) == [PlainSkill EXCEPT !.markdown = {doc}]
GovernedSkill ==
    [PlainSkill EXCEPT !.schema = {},
        !.markdown = {[PlainDoc EXCEPT !.package = {GovernedPackage}, !.mentionsContract = TRUE]}]
CommandSkill ==
    SchemaOf([PlainSchema EXCEPT !.implementation.kind = {"command"}, !.recipes["send"].timeout = {9},
                 !.implementation.mappings = {<<[type |-> "fixed_args", param |-> "to", words |-> 1]>>}])
\* Faultless to the scan: an argument of a parameter that nobody declares.
UnfitSkill == SchemaOf([PlainSchema EXCEPT !.recipes["send"].parameters = <<>>, !.recipes["send"].required = <<>>])
WebSkill ==
    [PlainSkill EXCEPT !.markdown = {[PlainDoc EXCEPT !.name = {"browser"}]},
                       !.schema = {[PlainSchema EXCEPT !.name = {"browser"}, !.implementation.timeout = {9}]}]
WebClient ==
    [GovernedSkill EXCEPT !.markdown =
        {[PlainDoc EXCEPT !.name = {"browser"}, !.mentionsContract = TRUE, !.package = {[GovernedPackage EXCEPT !.kind = "mcp"]}]}]
SkillContents ==
    {PlainSkill, CommandSkill, UnfitSkill, WebSkill, WebClient,
     [PlainSkill EXCEPT !.hidden = TRUE], [PlainSkill EXCEPT !.markdown = {}],
     GovernedSkill, [GovernedSkill EXCEPT !.schema = {PlainSchema}],
     [GovernedSkill EXCEPT !.files.readable = FALSE],
     [GovernedSkill EXCEPT !.markdown = {[PlainDoc EXCEPT !.mentionsContract = TRUE]}],
     [GovernedSkill EXCEPT !.markdown =
         {[PlainDoc EXCEPT !.mentionsContract = TRUE, !.package = {[GovernedPackage EXCEPT !.selector = {}]}]}],
     DocOf([PlainDoc EXCEPT !.env = Listed({"KEY", "no name"}), !.version = {"1"}]),
     DocOf([PlainDoc EXCEPT !.bins = [shape |-> "other", items |-> {}], !.type = {"tool"}]),
     SchemaOf([PlainSchema EXCEPT !.actions = Mapped({"send", "run"}), !.version = {"2"}]),
     SchemaOf([PlainSchema EXCEPT !.implementation.program = {}, !.implementation.env = Mapped({"KEY", "no"}),
                  !.implementation.command = [shape |-> "sequence", items |-> <<"sh", "x">>]]),
     SchemaOf([PlainSchema EXCEPT !.auth = [shape |-> "mapping", required |-> "other",
                                            strings |-> {"check_command"}, others |-> {"setup_command"}],
                  !.parameters = <<[name |-> "account", kind |-> "string", aliases |-> {"work", "@"}, default |-> {"home"}]>>]),
     [PlainSkill EXCEPT !.files.list = <<File("run", "bin"), File("send", "scripts"), File("send", "bin")>>]}
OwnedBy(owners) == {[id |-> id, owner |-> owners[id]] : id \in DOMAIN owners}
SkillOwners ==
    {OwnedBy([id \in ids |-> IF id = "mail" THEN mail ELSE browser]) :
        ids \in {{"mail"}, {"browser"}, {"mail", "browser"}},
        mail \in {"ExternalCli", "CompiledProvider"}, browser \in {"CompiledProvider", "OfficialMcpSdk"}}
KnownClassifications ==
    {[current |-> TRUE, stale |-> FALSE, skills |-> s] : s \in SkillOwners}
        \cup {[current |-> c, stale |-> c, skills |-> OwnedBy([id \in {"mail"} |-> "ExternalCli"])] : c \in BOOLEAN}

VARIABLES
    si_tree, si_source, si_result, si_inventory, si_replay

si == <<si_tree, si_source, si_result, si_inventory, si_replay>>

Inventory == INSTANCE SourceInventory WITH
    Names <- {"mail", "browser", "bad name"},
    SafeNames <- {"mail", "browser", "tool", "1", "2", "run", "send", "primitive", "command", "mcp", "account", "to"},
    SafeEnvs <- {"KEY"}, SafePrograms <- {"curl", "sh"},
    SafeAliases <- {"work", "home"}, ProfileNames <- {"account"},
    Contents <- SkillContents, Revisions <- {GovernedSkill, CommandSkill, UnfitSkill},
    Classifications <- KnownClassifications, Family <- {"mail"}, FamilyActions <- 1,
    MaxActiveSkills <- 2, MaxActions <- 1, MaxAdapterFiles <- 1,
    MaxSourceBytes <- 6, MaxExpandedBytes <- 5, MaxReferences <- 2,
    MaxNodes <- 1, MaxDepth <- 1, MaxFixtures <- 2, MaxRecords <- 9,
    tree <- si_tree, source <- si_source, result <- si_result,
    inventory <- si_inventory, replay <- si_replay

-----------------------------------------------------------------------------
(* The components side by side.                                            *)

Parts == {"logins", "typed", "package", "mcp", "strategy", "profiles", "scoped", "classified", "inventory"}

PartInit ==
    /\ subject \in Parts
    /\ Init
    /\ subject # "logins" => cache_epoch = CHOOSE e \in Epochs : TRUE
    /\ IF subject = "typed" THEN Typed!Init
       ELSE
            /\ ta_package = 0 /\ ta_stage = 0 /\ ta_catalog = 0 /\ ta_input = 0
            /\ ta_lowered = 0
    /\ IF subject = "package" THEN SkillFile!Init
       ELSE
            /\ sk_source = 0 /\ sk_package = 0 /\ sk_exposed = 0
    /\ IF subject = "mcp" THEN Mcp!Init
       ELSE
            /\ mc_skill = 0 /\ mc_contract = 0 /\ mc_offered = 0 /\ mc_catalog = 0
            /\ mc_surface = 0
    /\ IF subject = "strategy" THEN Strategy!Init
       ELSE
            /\ sa_contract = 0 /\ sa_adapter = 0 /\ sa_owner = 0
            /\ sa_observation = 0 /\ sa_flight = 0 /\ sa_status = 0
            /\ sa_invalidation = 0 /\ sa_prepared = 0 /\ sa_authority = 0
            /\ sa_call = 0
    /\ IF subject = "profiles" THEN Registry!Init
       ELSE
            /\ pr_legacy = 0 /\ pr_usable = 0 /\ pr_stored = 0 /\ pr_condition = 0
            /\ pr_outcome = 0
    /\ IF subject = "scoped" THEN Scoped!Init
       ELSE
            /\ sp_tree = 0 /\ sp_aliases = 0 /\ sp_crowd = 0 /\ sp_changes = 0
            /\ sp_container = 0 /\ sp_handles = 0 /\ sp_walk = 0 /\ sp_descriptor = 0
            /\ sp_pinned = 0 /\ sp_refused = 0
    /\ IF subject = "classified" THEN Classified!Init
       ELSE
            /\ cl_inventory = 0 /\ cl_manifest = 0 /\ cl_report = 0
    /\ IF subject = "inventory" THEN Inventory!Init
       ELSE
            /\ si_tree = 0 /\ si_source = 0 /\ si_result = 0 /\ si_inventory = 0
            /\ si_replay = 0

Still(parts) == UNCHANGED <<subject, parts>>

Logins == subject = "logins" /\ Still(<<ta, sk, mc, sa, pr, sp, cl, si>>) /\ Next
TypedActionsSteps ==
    subject = "typed" /\ Still(<<vars, sk, mc, sa, pr, sp, cl, si>>) /\ Typed!Next
SkillPackageSteps ==
    subject = "package" /\ Still(<<vars, ta, mc, sa, pr, sp, cl, si>>) /\ SkillFile!Next
McpCatalogSteps ==
    subject = "mcp" /\ Still(<<vars, ta, sk, sa, pr, sp, cl, si>>) /\ Mcp!Next
StrategyAdapterSteps ==
    subject = "strategy" /\ Still(<<vars, ta, sk, mc, pr, sp, cl, si>>) /\ Strategy!Next
ProfileRegistrySteps ==
    subject = "profiles" /\ Still(<<vars, ta, sk, mc, sa, sp, cl, si>>) /\ Registry!Next
ScopedPathsSteps ==
    subject = "scoped" /\ Still(<<vars, ta, sk, mc, sa, pr, cl, si>>) /\ Scoped!Next
ClassificationSteps ==
    subject = "classified" /\ Still(<<vars, ta, sk, mc, sa, pr, sp, si>>) /\ Classified!Next
SourceInventorySteps ==
    subject = "inventory" /\ Still(<<vars, ta, sk, mc, sa, pr, sp, cl>>) /\ Inventory!Next

PartNext ==
    \/ Logins
    \/ TypedActionsSteps
    \/ SkillPackageSteps
    \/ McpCatalogSteps
    \/ StrategyAdapterSteps
    \/ ProfileRegistrySteps
    \/ ScopedPathsSteps
    \/ ClassificationSteps
    \/ SourceInventorySteps

PartSpec == PartInit /\ [][PartNext]_<<subject, vars, ta, sk, mc, sa, pr, sp, cl, si>>
-----------------------------------------------------------------------------
(* The assumptions of the parts, and their properties.                     *)

ASSUME Typed!TypedAssumption
ASSUME Classified!ClassificationAssumption
ASSUME Inventory!InventoryAssumption

\* A typed action only narrows its contract: it never becomes a hook of the
\* lifecycle, adds no more than was projected when it was compiled, and never
\* widens a limit, an input or a policy (compile_typed_action_overrides).
TypedActionsKeepTheContract ==
    subject = "typed" =>
        /\ Typed!AuthPathsStaySeparate
        /\ Typed!InvocationsFitTheProjection
        /\ Typed!RefinementIsMonotonic

\* The reports on the skills answer for their sources: what a scan leaves out it
\* reports, a classification decides everything that was inventoried once, without
\* contradiction, and the fixtures of a replay are those of the actions that were
\* inventoried (SourceInventoryScanner, ClassificationCompiler, ReplayCompiler).
ReportsAnswerForTheSource ==
    /\ subject = "inventory" => Inventory!WhatIsLeftOutIsReported /\ Inventory!FixturesAnswerForTheInventory
    /\ subject = "classified" => Classified!OneDecisionEach /\ Classified!AuthenticationIsWhole
=============================================================================
