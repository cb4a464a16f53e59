-------------------------- MODULE SourceInventory --------------------------
(***************************************************************************)
(* The source inventory: a scan of the directory of skills that reports    *)
(* what each one declares and every fault it found; and the replay         *)
(* fixtures that are compiled from an inventory, its classification and    *)
(* the tree as it is then.  The tree is edited at any time before that,    *)
(* once after the scan.  A YAML value is a record of its shape and its     *)
(* items, an Option a set of at most one, and the findings of a scan are   *)
(* kept by directory, in the order they are pushed.                        *)
(***************************************************************************)
EXTENDS Naturals, Sequences, FiniteSets, FiniteSetsExt, SequencesExt

CONSTANTS
    Names,            \* the entries of the skill root
    SafeNames,        \* the names that pass is_safe_identifier
    SafeEnvs,         \* ... is_safe_env_name
    SafePrograms,     \* ... is_safe_program
    SafeAliases,      \* ... safe_profile_alias
    ProfileNames,     \* ... is_profile_parameter
    Contents,         \* what an entry may be: hidden, a link, or a directory of files
    Revisions,        \* ... after an edit that follows the scan
    Classifications,  \* the classifications a replay may be handed
    Family,           \* the skills of one workspace, replayed all or not at all
    FamilyActions,    \* how many actions they have
    MaxActiveSkills, MaxActions, MaxAdapterFiles,
    MaxSourceBytes, MaxExpandedBytes, MaxReferences, MaxNodes, MaxDepth,
    MaxFixtures, MaxRecords

VARIABLES
    tree,             \* Names -> Contents
    source,           \* the tree that was scanned (history)
    result,           \* "none", "scanned" or "refused"
    inventory,        \* what the scan returned, if it did
    replay            \* the compilation of the fixtures

vars == <<tree, source, result, inventory, replay>>

InventoryAssumption ==
    /\ MaxActiveSkills \in Nat /\ MaxActions \in Nat /\ MaxAdapterFiles \in Nat
    /\ MaxSourceBytes \in Nat /\ MaxExpandedBytes \in Nat /\ MaxReferences \in Nat
    /\ MaxNodes \in Nat /\ MaxDepth \in Nat /\ MaxFixtures \in Nat /\ MaxRecords \in Nat
    /\ FamilyActions \in Nat /\ Revisions \subseteq Contents

-----------------------------------------------------------------------------
(* Findings, and the lists a document declares.                             *)

Error(code) == [severity |-> "Error", code |-> code]
Warning(code) == [severity |-> "Warning", code |-> code]
Finding(finding, wrong) == IF wrong THEN <<finding>> ELSE <<>>
PerItem(finding, items) == [i \in 1 .. Cardinality(items) |-> finding]

SafeScalar(option) == option \cap SafeNames
Found(kept, findings) == [kept |-> kept, findings |-> findings]

(* extract_safe_sequence, extract_mapping_keys: what is not a safe string   *)
(* is left out, one finding each; another shape leaves all of it out.       *)
Extract(value, shape, safe, code) ==
    IF value.shape = shape
    THEN Found(value.items \cap safe, PerItem(Error(code), value.items \ safe))
    ELSE Found({}, Finding(Error(code), value.shape # "absent"))

ExtractActions(schema) ==
    LET actions == schema.actions
    IN  IF actions.shape = "mapping" /\ Cardinality(actions.items) > MaxActions
        THEN Found({}, <<Error("too_many_schema_actions")>>)
        ELSE Extract(actions, "mapping", SafeNames,
                     IF actions.shape = "mapping" THEN "invalid_action_name"
                     ELSE "invalid_native_actions_shape")

NoImplementation == [kind |-> {}, program |-> {}, prefix |-> 0, injected |-> {}]

(* The program named beside the command wins over the command's first word. *)
ProgramOf(impl) ==
    IF impl.program # {} THEN impl.program
    ELSE IF impl.command.shape = "sequence" /\ impl.command.items # <<>>
         THEN {impl.command.items[1]} ELSE {}

ExtractImplementation(schema) ==
    LET impl == schema.implementation
        command == impl.command
        words == IF command.shape = "sequence" THEN command.items ELSE <<>>
        fixed == IF impl.fixed.shape = "sequence" THEN Len(impl.fixed.items) ELSE 0
        program == ProgramOf(impl)
        env == Extract(impl.env, "mapping", SafeEnvs, "invalid_injected_env_name")
    IN  IF impl.shape # "mapping"
        THEN Found(NoImplementation,
                   Finding(Error("invalid_implementation_shape"), impl.shape # "absent"))
        ELSE Found([kind |-> SafeScalar(impl.kind), program |-> program \cap SafePrograms,
                    prefix |-> (IF words = <<>> THEN 0 ELSE Len(words) - 1) + fixed,
                    injected |-> env.kept],
                   Finding(Error("invalid_command_shape"),
                           command.shape \notin {"absent", "sequence"})
                   \o Finding(Error("empty_command"),
                              command.shape = "sequence" /\ words = <<>>)
                   \o Finding(Error("program_command_mismatch"),
                              words # <<>> /\ impl.program # {} /\ impl.program # {words[1]})
                   \o Finding(Error("unsafe_program_identity"), ~(program \subseteq SafePrograms))
                   \o Finding(Error("invalid_fixed_args_shape"),
                              impl.fixed.shape \notin {"absent", "sequence"})
                   \o env.findings)

Hooks == {"setup_command", "check_command", "reauth_command", "refresh_command",
          "logout_command", "clear_command"}
NoAuth == [declared |-> FALSE, required |-> "absent", hooks |-> {}]

(* A hook that is no string is a finding, and is listed all the same.       *)
ExtractAuth(schema) ==
    LET auth == schema.auth
    IN  IF auth.shape # "mapping"
        THEN Found(NoAuth, Finding(Error("invalid_auth_shape"), auth.shape # "absent"))
        ELSE Found([declared |-> TRUE,
                    required |-> IF auth.required = "other" THEN "absent" ELSE auth.required,
                    hooks |-> (auth.strings \cup auth.others) \cap Hooks],
                   Finding(Error("invalid_auth_required_shape"), auth.required = "other")
                   \o PerItem(Error("invalid_auth_hook_shape"), auth.others \cap Hooks))

(* One selector per parameter name: the aliases of all its definitions, the *)
(* default of the first that has one.                                       *)
ExtractSelectors(schema) ==
    LET definitions == SelectSeq(schema.parameters \o schema.overrides,
                                 LAMBDA p : p.name \in ProfileNames)
        named(n) == SelectSeq(definitions, LAMBDA p : p.name = n)
        default(n) == SelectSeq(named(n), LAMBDA p : p.default \cap SafeAliases # {})
    IN  {[parameter |-> n,
          aliases |-> UNION {p.aliases : p \in Range(named(n))} \cap SafeAliases,
          default |-> IF default(n) = <<>> THEN {} ELSE default(n)[1].default] :
            n \in {p.name : p \in Range(definitions)}}

NoExecution == [browser |-> "absent", categories |-> {}]
ExtractExecution(schema) ==
    LET execution == schema.execution
    IN  IF execution.shape # "mapping"
        THEN Found(NoExecution,
                   Finding(Error("invalid_execution_shape"), execution.shape # "absent"))
        ELSE Found([browser |-> execution.browser,
                    categories |-> execution.categories \cap SafeAliases], <<>>)

-----------------------------------------------------------------------------
(* The walk below a skill: files at depth 2 to 4, names in order, hidden    *)
(* and dependency directories skipped, links not followed.                  *)

Walked(files) == SelectSeq(files, LAMBDA f : ~f.skipped /\ f.depth \in 2 .. 4)

IsAdapterCandidate(f) ==
    \/ f.root \in {"scripts", "bin"} /\ f.extension = "script"
    \/ f.root = "bin" /\ f.extension = "none"

ScanAdapterFiles(files) ==
    LET One(acc, f) ==
            IF acc.stopped THEN acc
            ELSE IF Cardinality(acc.kept) >= MaxAdapterFiles
            THEN [acc EXCEPT !.stopped = TRUE,
                             !.findings = Append(@, Error("too_many_adapter_files"))]
            ELSE IF f.path \notin SafeNames
            THEN [acc EXCEPT !.findings = Append(@, Error("unsafe_adapter_path"))]
            ELSE [acc EXCEPT !.kept = @ \cup {f.path}]
    IN  FoldLeft(One, [kept |-> {}, findings |-> <<>>, stopped |-> FALSE],
                 SelectSeq(Walked(files), IsAdapterCandidate))

-----------------------------------------------------------------------------
(* One skill.                                                               *)

Gone(findings) == [skill |-> {}, findings |-> findings]
(* scan: an error leaves what was found before it and one finding more.     *)
ScanFailed(findings) == Gone(Append(findings, Error("skill_scan_failed")))
Scanned(skill, findings) == [skill |-> {skill}, findings |-> findings]

CompareDeclaredName(id, declared, code) == Finding(Error(code), declared # {id})

ScanGovernedSkill(id, doc, files) ==
    LET package == CHOOSE p \in doc.package : TRUE
        env == Extract(doc.env, "sequence", SafeEnvs, "invalid_required_env_name")
        before == CompareDeclaredName(id, SafeScalar(doc.name), "skill_name_mismatch") \o env.findings
        adapters == ScanAdapterFiles(files.list)
        compiles == /\ package.valid /\ package.compiles
                    /\ package.selectable => package.selector # {}
    IN  IF ~compiles \/ ~files.readable THEN ScanFailed(before)
        ELSE Scanned(
            [id |-> id, version |-> SafeScalar(doc.version), bins |-> package.bins, env |-> env.kept,
             actions |-> package.actions,
             implementation |-> [kind |-> {package.kind}, program |-> {package.program}, prefix |-> package.prefix,
                                 injected |-> package.injected],
             auth |-> [declared |-> package.auth, required |-> package.required,
                       hooks |-> package.hooks],
             selectors |-> IF package.selectable THEN package.selector ELSE {},
             execution |-> [browser |-> "false", categories |-> package.categories],
             adapters |-> adapters.kept],
            before \o adapters.findings)

(* Names and versions of the two documents, and the type the first states.  *)
CompareDocuments(id, doc, schema) ==
    LET stated == SafeScalar(doc.version)
        other == SafeScalar(schema.version)
    IN  CompareDeclaredName(id, SafeScalar(doc.name), "skill_name_mismatch")
        \o CompareDeclaredName(id, SafeScalar(schema.name), "schema_name_mismatch")
        \o Finding(Warning("version_mismatch"),
                   stated # {} /\ other # {} /\ stated # other)
        \o Finding(Error("schema_skill_type_conflict"), ~(SafeScalar(doc.type) \subseteq {"tool"}))

ScanSchemaSkill(id, doc, schema, files) ==
    LET bins == Extract(doc.bins, "sequence", SafePrograms, "invalid_required_binary")
        env == Extract(doc.env, "sequence", SafeEnvs, "invalid_required_env_name")
        actions == ExtractActions(schema)
        implementation == ExtractImplementation(schema)
        auth == ExtractAuth(schema)
        execution == ExtractExecution(schema)
        before == CompareDocuments(id, doc, schema) \o bins.findings \o env.findings
                  \o actions.findings \o implementation.findings \o auth.findings
                  \o execution.findings
        adapters == ScanAdapterFiles(files.list)
    IN  IF ~files.readable THEN ScanFailed(before)
        ELSE Scanned(
            [id |-> id,
             version |-> IF SafeScalar(schema.version) # {} THEN SafeScalar(schema.version)
                         ELSE SafeScalar(doc.version),
             bins |-> bins.kept, env |-> env.kept, actions |-> actions.kept,
             implementation |-> implementation.kept, auth |-> auth.kept,
             selectors |-> ExtractSelectors(schema), execution |-> execution.kept,
             adapters |-> adapters.kept],
            before \o adapters.findings)

(* The faults that end the scan of a skill before anything is declared.     *)
ScanSkill(id, entry) ==
    LET doc == CHOOSE d \in entry.markdown : TRUE
        schema == CHOOSE s \in entry.schema : TRUE
    IN  IF id \notin SafeNames THEN Gone(<<Error("unsafe_skill_directory_name")>>)
        ELSE IF entry.markdown = {} THEN Gone(<<Error("missing_skill_markdown")>>)
        ELSE IF ~doc.parses THEN ScanFailed(<<>>)
        ELSE IF doc.package # {} /\ entry.schema # {}
        THEN Gone(<<Error("duplicate_active_catalog_sources")>>)
        ELSE IF doc.package # {} THEN ScanGovernedSkill(id, doc, entry.files)
        ELSE IF entry.schema = {} \/ ~schema.parses THEN ScanFailed(<<>>)
        ELSE ScanSchemaSkill(id, doc, schema, entry.files)

-----------------------------------------------------------------------------
(* The scan of the whole root.                                              *)

(* A skill is active by its schema, or by the text of its SKILL.md.         *)
IsActive(entry) ==
    /\ entry.kind = "directory" /\ ~entry.hidden
    /\ \/ entry.schema # {}
       \/ \E doc \in entry.markdown : doc.mentionsContract

Active == {name \in Names : IsActive(tree[name])}

CountOf(severity, findings) == Len(SelectSeq(findings, LAMBDA f : f.severity = severity))

Summarize(skills, findings) ==
    LET total(counted(_)) == MapThenSumSet(LAMBDA s : Cardinality(counted(s)), skills)
        told(severity) ==
            MapThenSumSet(LAMBDA id : CountOf(severity, findings[id]), DOMAIN findings)
    IN  [active |-> Cardinality(skills), actions |-> total(LAMBDA s : s.actions),
         auth |-> Cardinality({s \in skills : s.auth.declared}),
         bins |-> total(LAMBDA s : s.bins), env |-> total(LAMBDA s : s.env),
         injected |-> total(LAMBDA s : s.implementation.injected),
         adapters |-> total(LAMBDA s : s.adapters), selectors |-> total(LAMBDA s : s.selectors),
         errors |-> told("Error"), warnings |-> told("Warning")]

(* What a scan of the tree would return.                                    *)
Observed ==
    LET of == [name \in Active |-> ScanSkill(name, tree[name])]
        skills == UNION {of[name].skill : name \in Active}
        findings == [name \in Active |-> of[name].findings]
    IN  [skills |-> skills, findings |-> findings, summary |-> Summarize(skills, findings)]

Scan ==
    /\ result = "none" /\ Cardinality(Active) <= MaxActiveSkills
    /\ result' = "scanned"
    /\ inventory' = {Observed} /\ source' = tree
    /\ UNCHANGED <<tree, replay>>

(* More active skills than the limit: the scan fails and reports nothing.   *)
ScanRefused ==
    /\ result = "none" /\ Cardinality(Active) > MaxActiveSkills
    /\ result' = "refused"
    /\ UNCHANGED <<tree, source, inventory, replay>>

-----------------------------------------------------------------------------
(* The sources of a replay.                                                 *)

(* The anchors whose blocks a line at this indent is still inside.          *)
Inside(open, anchor, indent) ==
    LET within == {i \in DOMAIN open : anchor[open[i]].indent < indent}
    IN  IF within = {} THEN <<>> ELSE SubSeq(open, 1, Max(within))

Charge(anchor, open, bytes) ==
    [name \in DOMAIN anchor |->
        IF name \in Range(open) THEN [anchor[name] EXCEPT !.bytes = @ + bytes] ELSE anchor[name]]

(* The names a line anchors and the names it refers to.                     *)
Refer(acc, line) ==
    LET known == DOMAIN acc.anchor
        fits == /\ acc.references + Len(line.anchors) + Len(line.aliases) <= MaxReferences
                /\ line.aliases # <<>> => acc.open = <<>> /\ line.anchors = <<>>
                /\ Range(line.aliases) \subseteq known
                /\ Range(line.anchors) \cap known = {} /\ IsInjective(line.anchors)
        uses(name) == Cardinality({i \in DOMAIN line.aliases : line.aliases[i] = name})
        new == [indent |-> line.indent, bytes |-> line.bytes, aliases |-> 0]
    IN  IF ~fits THEN [acc EXCEPT !.fits = FALSE]
        ELSE [acc EXCEPT
                !.references = @ + Len(line.anchors) + Len(line.aliases),
                !.open = @ \o line.anchors,
                !.anchor = [name \in known \cup Range(line.anchors) |->
                    IF name \in known THEN [@[name] EXCEPT !.aliases = @ + uses(name)] ELSE new]]

(* The text of a block scalar is charged to its anchors and not read.       *)
Line(acc, line) ==
    LET within == \A indent \in acc.block : line.indent > indent
        literal == acc.block # {} /\ within
        open == IF literal THEN acc.open ELSE Inside(acc.open, acc.anchor, line.indent)
        charged == [acc EXCEPT !.bytes = @ + line.bytes, !.open = open,
                               !.anchor = Charge(@, open, line.bytes)]
    IN  IF ~acc.fits \/ literal THEN charged
        ELSE IF line.block THEN [charged EXCEPT !.block = {line.indent}]
        ELSE Refer([charged EXCEPT !.block = {}], line)

Read(lines) ==
    FoldLeft(Line, [fits |-> TRUE, block |-> {}, open |-> <<>>, references |-> 0, bytes |-> 0,
                    anchor |-> [name \in {} |-> {}]], lines)

(* What the document may become: every alias costs its whole anchor.        *)
AliasSafe(lines) ==
    LET read == Read(lines)
        expanded == MapThenSumSet(LAMBDA name : read.anchor[name].bytes * read.anchor[name].aliases,
                                  DOMAIN read.anchor)
    IN  read.fits /\ read.bytes + expanded <= MaxExpandedBytes

(* Checked before anything is read again: a faultless inventory, the        *)
(* classification of the same skills, and limits on both.                   *)
ReplayInputsFit(scan, classification) ==
    LET ids == {skill.id : skill \in scan.skills}
    IN  /\ scan.summary.errors = 0 /\ classification.current
        /\ ids = {c.id : c \in classification.skills}
        /\ Cardinality(classification.skills) = Cardinality(ids)
        /\ Cardinality(ids) <= MaxActiveSkills

IsLegacy(entry) == entry.kind = "directory" /\ entry.schema # {}

(* The sources of the inventory are readable, and small enough together.    *)
SourcesFit(scan) ==
    LET ids == {skill.id : skill \in scan.skills}
        lines(id) == IF IsLegacy(tree[id]) THEN (CHOOSE s \in tree[id].schema : TRUE).lines
                     ELSE (CHOOSE d \in tree[id].markdown : TRUE).lines
        readable(id) ==
            IF IsLegacy(tree[id])
            THEN \A schema \in tree[id].schema : schema.parses /\ AliasSafe(schema.lines)
            ELSE /\ tree[id].markdown # {}
                 /\ \A doc \in tree[id].markdown : doc.parses /\ doc.package # {}
    IN  /\ \A id \in ids : readable(id)
        /\ MapThenSumSet(LAMBDA id : Read(lines(id)).bytes, ids) <= MaxSourceBytes

(* compile: the tree is scanned again and the classification compiled       *)
(* again; both must come out as they were handed in.                        *)
BeginReplay(classification) ==
    /\ result = "scanned" /\ replay.stage = "none"
    /\ \E scan \in inventory :
          IF /\ ReplayInputsFit(scan, classification) /\ SourcesFit(scan)
             /\ Cardinality(Active) <= MaxActiveSkills /\ Observed = scan
             /\ ~classification.stale /\ scan.summary.actions <= MaxFixtures
          THEN replay' = [stage |-> "compiling", owner |-> classification.skills, clean |-> TRUE,
                          left |-> {skill.id : skill \in scan.skills}, fixtures |-> {}, records |-> 0]
          ELSE replay' = [stage |-> "refused", fixtures |-> {}]
    /\ UNCHANGED <<tree, source, result, inventory>>

-----------------------------------------------------------------------------
(* The fixtures of one skill.                                               *)

Items(option) == IF option = {} THEN <<>> ELSE CHOOSE items \in option : TRUE
Present(mapping, field) ==
    IF field \in {"command", "fixed", "env"} THEN mapping[field].shape # "absent"
    ELSE mapping[field] # {}

ValueKinds == {"string", "integer", "number", "boolean", "array", "object"}
RootsFit(roots) ==
    /\ \A i, j \in DOMAIN roots : roots[i].name = roots[j].name => i = j
    /\ \A p \in Range(roots) : p.name \in SafeNames /\ p.kind \in ValueKinds

KindsOf(roots, recipe, name) ==
    IF name \in DOMAIN recipe.overrides THEN {recipe.overrides[name]}
    ELSE {p.kind : p \in {q \in Range(roots) : q.name = name}}
ParametersFit(roots, recipe) ==
    /\ IsInjective(recipe.parameters) /\ IsInjective(recipe.required)
    /\ Range(recipe.required) \subseteq Range(recipe.parameters)
    /\ \A name \in Range(recipe.parameters) :
          /\ name \in SafeNames
          /\ KindsOf(roots, recipe, name) \in {{kind} : kind \in ValueKinds}
Parameters(roots, recipe) ==
    {[name |-> name, required |-> name \in Range(recipe.required),
      kind |-> CHOOSE kind \in KindsOf(roots, recipe, name) : TRUE] :
        name \in Range(recipe.parameters)}

ParameterMappings == {"positional", "flag", "bool_flag", "split_positional", "passthrough"}
MappingsFit(mappings, names) ==
    \A m \in Range(mappings) :
        \/ m.type \in ParameterMappings /\ m.param \in names
        \/ m.type = "env_flag" /\ m.param \in SafeEnvs
        \/ m.type = "fixed_args"

(* The reserved skill is the browser's whether it says so or not.           *)
IsReserved(id, impl) == id = "browser" /\ impl.kind = {"primitive"}
ProviderOf(id, impl) == IF IsReserved(id, impl) THEN {"browser"} ELSE impl.provider
ProviderFits(id, impl, owner) ==
    /\ impl.provider \subseteq SafeNames
    /\ impl.provider # {} => impl.kind = {"primitive"}
    /\ IsReserved(id, impl) => impl.provider \subseteq {"browser"}
    /\ ProviderOf(id, impl) # {} <=> owner = "CompiledProvider"

Bounded(schema) == schema.nodes <= MaxNodes /\ schema.depth <= MaxDepth

(* Strings, sequences and numbers where they are expected, and safe tokens. *)
Formed(schema) ==
    /\ schema.formed /\ schema.implementation.shape = "mapping"
    /\ schema.execution.shape \in {"absent", "mapping"}
    /\ schema.implementation.env.shape \in {"absent", "mapping"}
    /\ schema.implementation.env.items \subseteq SafeEnvs
    /\ schema.implementation.command.shape \in {"absent", "sequence"}
    /\ schema.implementation.fixed.shape \in {"absent", "sequence"}

(* How the action is run, by the kind of its implementation.                *)
CompiledDispatch(provider) ==
    [kind |-> "CompiledProvider", program |-> provider, prefix |-> <<>>, action |-> <<>>,
     mappings |-> <<>>, suffix |-> <<>>, rules |-> 0]
PrimitiveDispatch(id, name, recipe, impl) ==
    LET base == IF impl.command.shape = "absent" THEN <<id>> ELSE impl.command.items
        named == IF recipe.skip = {TRUE} THEN <<>> ELSE <<name>>
    IN  [kind |-> "PrimitiveProcess", program |-> {base[1]}, prefix |-> Tail(base),
         action |-> IF Items(recipe.argv) # <<>> THEN Items(recipe.argv) ELSE named,
         mappings |-> Items(recipe.mappings),
         suffix |-> Items(recipe.suffix) \o Items(impl.suffix), rules |-> 0]
CommandDispatch(impl) ==
    [kind |-> "CommandProcess", program |-> impl.program, prefix |-> impl.fixed.items,
     action |-> <<>>, mappings |-> Items(impl.mappings), suffix |-> Items(impl.suffix), rules |-> 0]
Dispatch(id, name, recipe, impl) ==
    IF ProviderOf(id, impl) # {} THEN CompiledDispatch(ProviderOf(id, impl))
    ELSE IF impl.kind = {"primitive"} THEN PrimitiveDispatch(id, name, recipe, impl)
    ELSE CommandDispatch(impl)
DispatchFits(id, recipe, impl) ==
    LET names == Range(recipe.parameters)
    IN  \/ ProviderOf(id, impl) # {}
        \/ /\ impl.kind = {"primitive"} /\ MappingsFit(Items(recipe.mappings), names)
           /\ impl.command.shape = "absent" \/ impl.command.items # <<>>
        \/ /\ impl.kind = {"command"} /\ MappingsFit(Items(impl.mappings), names)
           /\ impl.program # {}

(* Where the default timeout comes from; a command ignores its own.         *)
TimeoutSource(kind, recipe, schema) ==
    IF kind # "CommandProcess" /\ recipe.timeout # {} THEN "Action"
    ELSE IF kind = "PrimitiveProcess" /\ schema.implementation.timeout # {} THEN "Implementation"
    ELSE IF schema.execution.timeout # {} THEN "Execution" ELSE "Default"

IgnoredFields(kind, recipe, impl) ==
    LET action == {"argv", "skip", "mappings", "suffix", "timeout"}
        primitive == {"program", "fixed", "mappings", "content"}
        compiled == {"command", "cwd", "env", "suffix", "timeout"}
        fields == IF kind = "CompiledProvider" THEN primitive \cup compiled ELSE primitive
    IN  IF kind = "CommandProcess" THEN {f \in action : Present(recipe, f)}
        ELSE {f \in fields : Present(impl, f)}

LegacyFits(skill, schema, owner) ==
    LET impl == schema.implementation
        recipe(name) == schema.recipes[name]
    IN  /\ schema.parses /\ Bounded(schema) /\ schema.name = {skill.id}
        /\ schema.actions.shape = "mapping" /\ schema.actions.items = skill.actions
        /\ Formed(schema) /\ RootsFit(schema.parameters) /\ ProviderFits(skill.id, impl, owner)
        /\ \A name \in skill.actions :
              ParametersFit(schema.parameters, recipe(name)) /\ DispatchFits(skill.id, recipe(name), impl)

LegacyFixture(skill, schema, owner, name) ==
    LET impl == schema.implementation
        recipe == schema.recipes[name]
        dispatch == Dispatch(skill.id, name, recipe, impl)
    IN  [skill |-> skill.id, action |-> name, owner |-> owner, dispatch |-> dispatch,
         parameters |-> Parameters(schema.parameters, recipe), required |-> skill.env,
         bindings |-> IF dispatch.kind = "CompiledProvider" THEN {} ELSE impl.env.items,
         stdin |-> dispatch.kind = "PrimitiveProcess",
         timeout |-> TimeoutSource(dispatch.kind, recipe, schema),
         ignored |-> IgnoredFields(dispatch.kind, recipe, impl)]

(* A governed package: its variables are bound to the directory of the      *)
(* profile, when that is where it keeps its credentials.                    *)
GovernedBindings(package) == IF package.storage = "scoped" THEN package.roots ELSE {}
BindingsFit(package) ==
    package.storage = "scoped" =>
        package.selection \in {"fixed", "selectable"} /\ package.roots \subseteq SafeEnvs
(* A control of the runtime is no argument; a repeated flag is not replayed.*)
GovernedMappings(recipe) == SelectSeq(recipe.mappings, LAMBDA m : m.type # "runtime_control")

GovernedFits(skill, package, owner) ==
    /\ package.valid /\ package.compiles /\ package.actions = skill.actions
    /\ \A name \in skill.actions :
          \A p \in package.recipes[name].parameters : p.kind \in ValueKinds
    /\ \/ package.kind = "mcp" /\ owner = "OfficialMcpSdk"
       \/ /\ package.kind = "primitive" /\ BindingsFit(package)
          /\ \A name \in skill.actions :
                \A m \in Range(package.recipes[name].mappings) : m.type # "repeated_flag"

McpFixture(skill, package, owner, name) ==
    [skill |-> skill.id, action |-> name, owner |-> owner,
     dispatch |-> [CompiledDispatch({}) EXCEPT !.kind = "OfficialMcpSdk"],
     parameters |-> package.recipes[name].parameters, required |-> skill.env, bindings |-> {},
     stdin |-> FALSE, timeout |-> "Default", ignored |-> {}]

(* The profile, under the name it is shown by, and the exposed controls are *)
(* parameters like any other.                                               *)
GovernedFixture(skill, package, owner, name) ==
    LET recipe == package.recipes[name]
        shown(n) == IF n = "profile" THEN (CHOOSE s \in package.selector : TRUE).parameter ELSE n
        added == (IF package.selectable THEN {"profile"} ELSE {}) \cup recipe.controls
    IN  [skill |-> skill.id, action |-> name, owner |-> owner,
         dispatch |-> [kind |-> "PrimitiveProcess", program |-> {package.program},
                       prefix |-> package.words, action |-> recipe.argv,
                       mappings |-> GovernedMappings(recipe), suffix |-> recipe.suffix,
                       rules |-> recipe.rules],
         parameters |-> recipe.parameters \cup
             {[name |-> shown(n), kind |-> "string", required |-> n \in recipe.required] : n \in added},
         required |-> skill.env, bindings |-> GovernedBindings(package),
         stdin |-> recipe.delivery = "stdin" \/ "stdin" \in added,
         timeout |-> IF recipe.timeout # {} THEN "Action"
                     ELSE IF package.timeout # {} THEN "Implementation" ELSE "Default",
         ignored |-> {}]

(* The records a fixture takes of those that are left for all of them.      *)
Cost(f) ==
    LET words(m) == IF m.type = "fixed_args" THEN m.words ELSE 0
        mapped(i) == 1 + words(f.dispatch.mappings[i])
    IN  1 + Cardinality(f.parameters) + Cardinality(f.bindings) + Cardinality(f.required)
          + MapThenSumSet(mapped, DOMAIN f.dispatch.mappings)
          + Len(f.dispatch.prefix) + Len(f.dispatch.action) + Len(f.dispatch.suffix)
          + f.dispatch.rules

(* The fixtures of the source that is there now, if it is still fit.        *)
Fixtures(skill, entry, owner) ==
    LET package == CHOOSE p \in (CHOOSE d \in entry.markdown : TRUE).package : TRUE
        schema == CHOOSE s \in entry.schema : TRUE
    IN  IF IsLegacy(entry)
        THEN IF ~LegacyFits(skill, schema, owner) THEN {}
             ELSE {{LegacyFixture(skill, schema, owner, name) : name \in skill.actions}}
        ELSE IF \/ entry.markdown = {} \/ ~(CHOOSE d \in entry.markdown : TRUE).parses
                \/ (CHOOSE d \in entry.markdown : TRUE).package = {}
                \/ ~GovernedFits(skill, package, owner) THEN {}
        ELSE IF package.kind = "mcp"
             THEN {{McpFixture(skill, package, owner, name) : name \in skill.actions}}
             ELSE {{GovernedFixture(skill, package, owner, name) : name \in skill.actions}}

(* One skill after the other, here in any order; one that fails does not    *)
(* end the compilation.                                                     *)
CompileSkill(name) ==
    /\ replay.stage = "compiling" /\ name \in replay.left
    /\ \E scan \in inventory : \E skill \in scan.skills : \E c \in replay.owner :
          /\ skill.id = name /\ c.id = name
          /\ LET made == Fixtures(skill, tree[name], c.owner)
                 cost == MapThenSumSet(Cost, UNION made)
             IN  replay' = [replay EXCEPT
                     !.left = @ \ {name}, !.fixtures = @ \cup UNION made, !.records = @ + cost,
                     !.clean = @ /\ made # {} /\ replay.records + cost <= MaxRecords]
    /\ UNCHANGED <<tree, source, result, inventory>>

(* Part of the family, or another number of its actions, is refused.        *)
FamilyCovered(scan, fixtures) ==
    LET present == Family \cap {skill.id : skill \in scan.skills}
    IN  present # {} =>
            /\ present = Family
            /\ Cardinality({f \in fixtures : f.skill \in Family}) = FamilyActions

FinishReplay ==
    /\ replay.stage = "compiling" /\ replay.left = {}
    /\ \E scan \in inventory :
          replay' = IF /\ replay.clean /\ Cardinality(replay.fixtures) = scan.summary.actions
                       /\ FamilyCovered(scan, replay.fixtures)
                    THEN [replay EXCEPT !.stage = "compiled"]
                    ELSE [stage |-> "refused", fixtures |-> {}]
    /\ UNCHANGED <<tree, source, result, inventory>>

-----------------------------------------------------------------------------
(* Someone edits a skill before the scan, and once between it and the end   *)
(* of the replay.                                                           *)
Edit(name) ==
    /\ \/ /\ result = "none"
          /\ \E content \in Contents : tree' = [tree EXCEPT ![name] = content]
       \/ /\ result = "scanned" /\ replay.stage \in {"none", "compiling"} /\ tree = source
          /\ \E content \in Revisions : tree' = [tree EXCEPT ![name] = content]
    /\ UNCHANGED <<source, result, inventory, replay>>

Init ==
    /\ \E content \in Contents : tree = [name \in Names |-> content]
    /\ result = "none" /\ inventory = {} /\ source = [name \in {} |-> {}]
    /\ replay = [stage |-> "none", fixtures |-> {}]

Next ==
    \/ Scan
    \/ ScanRefused
    \/ \E classification \in Classifications : BeginReplay(classification)
    \/ \E name \in Names : CompileSkill(name) \/ Edit(name)
    \/ FinishReplay

Spec == Init /\ [][Next]_vars

-----------------------------------------------------------------------------
Faultless(scan, name) == CountOf("Error", scan.findings[name]) = 0
EntriesOf(scan, name) == {skill \in scan.skills : skill.id = name}
Declared(value) == value.items

(* What one entry of a legacy skill would have to show.                     *)
ShowsAll(skill, doc, schema, files) ==
    /\ doc.name = {skill.id} /\ schema.name = {skill.id}
    /\ skill.bins = Declared(doc.bins) /\ skill.env = Declared(doc.env)
    /\ skill.actions = Declared(schema.actions)
    /\ schema.implementation.shape = "mapping" =>
          skill.implementation.injected = Declared(schema.implementation.env)
    /\ schema.auth.shape # "absent" => skill.auth.declared
    /\ skill.adapters = {f.path : f \in Range(SelectSeq(Walked(files.list), IsAdapterCandidate))}

(* SourceInventoryScanner::scan: what is left out is reported.  Every       *)
(* active directory has one entry or an error finding of its own, though    *)
(* the scan goes on past the skills that fail; no other directory has       *)
(* either; and an entry without an error finding shows everything its       *)
(* documents declare: every binary, variable, action, injected variable and *)
(* adapter file, under the name both documents agree on.                    *)
WhatIsLeftOutIsReported ==
    \A scan \in inventory :
        /\ DOMAIN scan.findings = {name \in Names : IsActive(source[name])}
        /\ \A skill \in scan.skills : skill.id \in DOMAIN scan.findings
        /\ \A name \in DOMAIN scan.findings :
              /\ Cardinality(EntriesOf(scan, name)) <= 1
              /\ Faultless(scan, name) => EntriesOf(scan, name) # {}
              /\ Faultless(scan, name) =>
                    \A skill \in EntriesOf(scan, name) :
                        \A doc \in source[name].markdown : \A schema \in source[name].schema :
                            ShowsAll(skill, doc, schema, source[name].files)
        /\ scan.summary.active = Cardinality(scan.skills)

(* ReplayCompiler::compile: a catalog of fixtures answers for the inventory *)
(* it was compiled from, whatever is edited while it is compiled.  Every    *)
(* action that was inventoried has exactly one fixture and nothing else     *)
(* has; the skill of each is run by the owner that was classified: a        *)
(* legacy one by a compiled provider exactly when it is classified so, an   *)
(* official protocol client only when it is; no argument is taken from a    *)
(* parameter that the fixture does not declare; and all fixtures together   *)
(* fit the limit on their records.                                          *)
FixturesAnswerForTheInventory ==
    replay.stage = "compiled" =>
        \A scan \in inventory :
            /\ scan.summary.errors = 0
            /\ \A skill \in scan.skills : \A name \in skill.actions :
                  Cardinality({f \in replay.fixtures : f.skill = skill.id /\ f.action = name}) = 1
            /\ \A f \in replay.fixtures :
                  /\ \E skill \in scan.skills : f.skill = skill.id /\ f.action \in skill.actions
                  /\ [id |-> f.skill, owner |-> f.owner] \in replay.owner
                  /\ f.dispatch.kind = "CompiledProvider" => f.owner = "CompiledProvider"
                  /\ f.dispatch.kind = "OfficialMcpSdk" => f.owner = "OfficialMcpSdk"
                  /\ f.dispatch.kind = "CommandProcess" => f.owner # "CompiledProvider"
                  /\ {m.param : m \in {n \in Range(f.dispatch.mappings) : n.type \in ParameterMappings}}
                        \subseteq {p.name : p \in f.parameters}
            /\ MapThenSumSet(Cost, replay.fixtures) <= MaxRecords

=============================================================================
