--------------------------- MODULE Classification ---------------------------
(***************************************************************************)
(* The classification compiler: a manifest written by hand decides, for    *)
(* every skill, adapter file and finding of a source inventory, how it is  *)
(* authenticated, who owns it and what becomes of it.  The manifest is     *)
(* written group by group; compile joins it with the inventory and accepts *)
(* it only when nothing in either is left over.  Errors are collected and  *)
(* only whether there are any decides, so a check is a predicate here.     *)
(***************************************************************************)
EXTENDS Naturals, Sequences, FiniteSets, SequencesExt

CONSTANTS
    Identifiers,      \* the names that pass validate_identifier
    Inventories,      \* the source inventories a manifest may be compiled against
    Versions,         \* <<manifest schema, inventory schema>> a manifest states
    SkillGroups,      \* the skill groups its author may write
    AdapterGroups,    \* the adapter groups
    Dispositions,     \* the finding dispositions
    Remarks,          \* the exceptions and the unknowns
    MaxGroups         \* bound on each list of the manifest

VARIABLES
    inventory, manifest, report

vars == <<inventory, manifest, report>>

-----------------------------------------------------------------------------
(* The vocabulary of the manifest.                                          *)

AuthStrategies == {"None", "Secrets", "CliProfile", "OAuthSession", "BrowserProfile",
                   "NativePermission", "DelegatedCredential"}
AuthRequirements == {"None", "Optional", "Required", "Conditional", "AtLeastOne"}
ProfilePolicies == {"None", "Selectable", "Fixed", "Implicit"}
ProfileSources == {"None", "SchemaSelector", "RuntimeNamed", "FixedBinding",
                   "CliActiveIdentity", "SessionIdentity"}
SessionOwners == {"None", "Runtime", "Cli", "BrowserController", "OperatingSystem",
                  "DelegatedExecutor", "LegacyProtocolWrapper", "OfficialSdk"}
SessionStores == {"None", "ScopedSecretStore", "ScopedCliDirectory", "CliOwnedStore",
                  "ScopedSkillCache", "BrowserProfile", "OsPermissionStore", "EphemeralGrant"}
SetupPaths == {"None", "OperatorSecretBinding", "ExternalCliLogin", "SchemaAuthHook",
               "BrowserLogin", "OsSettings", "DelegatedGrant", "AuthBrokerBrowserOauth",
               "ExternalCliQrLogin"}
IdentityVerifications == {"None", "ProviderRequest", "CliStatus", "SchemaCheckHook",
                          "BrowserSessionEvidence", "OsPermissionCheck", "GrantBinding",
                          "SdkCredentialStatus", "CliSession"}
RuntimeOwners == {"ExternalCli", "SkillAdapter", "CompiledProvider", "HostGateway",
                  "LegacyMcpWrapper", "OfficialMcpSdk"}
AdapterRoles == {"RuntimeEntrypoint", "ProtocolImplementation", "PolicyImplementation",
                 "ArtifactBridge", "Installer", "Verifier", "Test", "Support"}
WrapperOwnerships == {"ProtocolAdapter", "PolicyAdapter", "ArtifactAdapter",
                      "RemovablePlumbing", "NotWrapper"}
DispositionKinds == {"AcceptBaseline", "FixBeforePhase1", "SeparateInPhase0d"}

(* An Option is a set of at most one.                                       *)
IsProfile(p) ==
    /\ p.policy \in ProfilePolicies /\ p.source \in ProfileSources
    /\ Cardinality(p.selector) <= 1 /\ Cardinality(p.alias) <= 1
IsSkillGroup(g) ==
    /\ Range(g.strategies) \subseteq AuthStrategies /\ g.requirement \in AuthRequirements
    /\ Cardinality(g.provider) <= 1 /\ IsProfile(g.profile)
    /\ g.owner \in SessionOwners /\ g.store \in SessionStores
    /\ g.setup \in SetupPaths /\ g.identity \in IdentityVerifications
    /\ g.runtime \in RuntimeOwners
IsAdapterGroup(g) ==
    g.role \in AdapterRoles /\ Range(g.ownership) \subseteq WrapperOwnerships
IsDisposition(d) == d.kind \in DispositionKinds

ClassificationAssumption ==
    /\ MaxGroups \in Nat
    /\ \A g \in SkillGroups : IsSkillGroup(g)
    /\ \A g \in AdapterGroups : IsAdapterGroup(g)
    /\ \A d \in Dispositions : IsDisposition(d)

-----------------------------------------------------------------------------
(* What one skill's decision must agree with.                               *)

HasNone(g) == "None" \in Range(g.strategies)
Repeats(s) == ~IsInjective(s)

StrategiesFit(source, g) ==
    /\ g.strategies # <<>> /\ ~Repeats(g.strategies)
    /\ HasNone(g) => Len(g.strategies) = 1
    /\ g.requirement = "None" <=> HasNone(g)
    /\ source.env # {} => "Secrets" \in Range(g.strategies)
    /\ source.auth => ~HasNone(g)

ProviderFits(g) ==
    /\ g.provider \subseteq Identifiers
    /\ HasNone(g) <=> g.provider = {}

PolicyFits(source, p) ==
    \/ p.policy = "None" /\ p.source = "None" /\ p.selector = {} /\ p.alias = {}
    \/ /\ p.policy = "Selectable" /\ p.alias = {}
       /\ \/ p.source = "SchemaSelector" /\ p.selector # {} /\ p.selector \subseteq source.selectors
          \/ p.source = "RuntimeNamed" /\ p.selector = {}
    \/ p.policy = "Fixed" /\ p.source = "FixedBinding" /\ p.selector = {} /\ p.alias # {}
    \/ /\ p.policy = "Implicit" /\ p.source \in {"CliActiveIdentity", "SessionIdentity"}
       /\ p.selector = {} /\ p.alias = {}

ProfileFits(source, p) ==
    /\ p.selector \cup p.alias \subseteq Identifiers
    /\ PolicyFits(source, p)
    /\ source.selectors # {} => p.policy = "Selectable" /\ p.source = "SchemaSelector"

SessionPairs ==
    {<<"None", "None">>, <<"Runtime", "ScopedSecretStore">>, <<"Cli", "ScopedCliDirectory">>,
     <<"Cli", "CliOwnedStore">>, <<"BrowserController", "BrowserProfile">>,
     <<"OperatingSystem", "OsPermissionStore">>, <<"DelegatedExecutor", "EphemeralGrant">>,
     <<"LegacyProtocolWrapper", "ScopedSkillCache">>, <<"OfficialSdk", "ScopedSecretStore">>}

SessionFits(g) ==
    /\ HasNone(g) <=> (g.owner = "None" /\ g.store = "None")
    /\ g.setup = "None" <=> HasNone(g)
    /\ g.identity = "None" <=> HasNone(g)
    /\ <<g.owner, g.store>> \in SessionPairs

(* Who may own the session of a strategy; secrets are bound to the runtime  *)
(* only where they are the whole of the authentication.                     *)
OwnersOf(strategy) ==
    CASE strategy = "CliProfile" -> {"Cli"}
      [] strategy = "OAuthSession" -> {"Cli", "LegacyProtocolWrapper", "OfficialSdk"}
      [] strategy = "BrowserProfile" -> {"BrowserController"}
      [] strategy = "NativePermission" -> {"OperatingSystem"}
      [] strategy = "DelegatedCredential" -> {"BrowserController", "DelegatedExecutor"}
      [] OTHER -> SessionOwners

OwnerFits(g) ==
    /\ \A strategy \in Range(g.strategies) : g.owner \in OwnersOf(strategy)
    /\ g.strategies = <<"Secrets">> => g.owner = "Runtime"

SkillGroupFits(source, g) ==
    /\ StrategiesFit(source, g) /\ ProviderFits(g) /\ ProfileFits(source, g.profile)
    /\ SessionFits(g) /\ OwnerFits(g)

-----------------------------------------------------------------------------
(* The ownership of adapter files.                                          *)

RequiredOwnership(role) ==
    CASE role = "RuntimeEntrypoint" -> {"RemovablePlumbing"}
      [] role = "ProtocolImplementation" -> {"ProtocolAdapter"}
      [] role = "PolicyImplementation" -> {"PolicyAdapter"}
      [] role = "ArtifactBridge" -> {"ArtifactAdapter"}
      [] OTHER -> {}

AdapterGroupFits(g) ==
    LET owned == Range(g.ownership)
    IN  /\ g.files # <<>> /\ g.ownership # <<>> /\ ~Repeats(g.ownership)
        /\ "NotWrapper" \in owned => Len(g.ownership) = 1
        /\ g.role \in {"Installer", "Verifier", "Test", "Support"} <=> "NotWrapper" \in owned
        /\ RequiredOwnership(g.role) \subseteq owned

-----------------------------------------------------------------------------
(* The join.  A table keeps the first decision of each subject and whether  *)
(* anything was complained about.                                           *)

Table == [of |-> [subject \in {} |-> {}], clean |-> TRUE]
Complain(table) == [table EXCEPT !.clean = FALSE]
(* Mutant of Decide: a later decision replaces an earlier one.              *)
DecideAgain(table, known, subject, decision, fits) ==
    IF subject \notin known
    THEN Complain(table)
    ELSE [of |-> [s \in DOMAIN table.of \cup {subject} |->
                      IF s = subject THEN decision ELSE table.of[s]],
          clean |-> table.clean /\ fits]
(* The branch the code takes for one named subject.                         *)
Decide(table, known, subject, decision, fits) ==
    IF subject \notin known \/ subject \in DOMAIN table.of
    THEN Complain(table)
    ELSE [of |-> [s \in DOMAIN table.of \cup {subject} |->
                      IF s = subject THEN decision ELSE table.of[s]],
          clean |-> table.clean /\ fits]

SkillIds(inv) == {skill.id : skill \in inv.skills}
SourceOf(inv, id) == CHOOSE skill \in inv.skills : skill.id = id
SkillDecision(g) == [field \in DOMAIN g \ {"skills"} |-> g[field]]

ClassifySkills(inv, groups) ==
    LET One(g, table, id) ==
            Decide(table, SkillIds(inv), id, SkillDecision(g),
                   id \in SkillIds(inv) /\ id \in Identifiers
                       /\ SkillGroupFits(SourceOf(inv, id), g))
        Group(table, g) ==
            IF g.skills = <<>> THEN Complain(table)
            ELSE FoldLeft(LAMBDA t, id : One(g, t, id), table, g.skills)
    IN  FoldLeft(Group, Table, groups)

AdapterFiles(inv) ==
    UNION {{<<skill.id, path>> : path \in skill.adapters} : skill \in inv.skills}
AdapterDecision(g) == [role |-> g.role, ownership |-> g.ownership]

ClassifyAdapters(inv, groups) ==
    LET Group(table, g) ==
            FoldLeft(LAMBDA t, file :
                         Decide(t, AdapterFiles(inv), file, AdapterDecision(g), TRUE),
                     IF AdapterGroupFits(g) THEN table ELSE Complain(table), g.files)
    IN  FoldLeft(Group, Table, groups)

(* Source and decision must agree on who runs the skill.                    *)
RuntimeFits(source, entry) ==
    LET official == entry.runtime = "OfficialMcpSdk"
    IN  /\ entry.runtime \in {"SkillAdapter", "LegacyMcpWrapper"} => source.adapters # {}
        /\ source.officialMcp <=> official
        /\ official => source.adapters = {}

(* A finding without a skill has the empty name.                            *)
Key(finding) == <<finding.skill, finding.code, finding.source>>
FindingKeys(inv) == {Key(finding) : finding \in inv.findings}
(* Several findings may share a key; one error among them is enough.        *)
AnyIsError(inv, key) ==
    \E finding \in inv.findings : Key(finding) = key /\ finding.severity = "Error"

(* A second disposition of one finding replaces the first, and is an error. *)
Dispose(inv, dispositions) ==
    LET One(table, d) ==
            IF \/ Key(d) \notin FindingKeys(inv)
               \/ d.kind = "AcceptBaseline" /\ AnyIsError(inv, Key(d))
            THEN Complain(table)
            ELSE [of |-> [k \in DOMAIN table.of \cup {Key(d)} |->
                              IF k = Key(d) THEN d.kind ELSE table.of[k]],
                  clean |-> table.clean /\ Key(d) \notin DOMAIN table.of]
    IN  FoldLeft(One, Table, dispositions)

(* Exceptions and unknowns share one space of names.                        *)
RemarksFit(inv, remarks) ==
    /\ \A i, j \in DOMAIN remarks : remarks[i].id = remarks[j].id => i = j
    /\ \A i \in DOMAIN remarks :
          /\ remarks[i].id \in Identifiers /\ remarks[i].skills # <<>>
          /\ ~Repeats(remarks[i].skills)
          /\ Range(remarks[i].skills) \subseteq SkillIds(inv)

-----------------------------------------------------------------------------
(* compile: an accepted manifest's report, or nothing.                      *)

CurrentManifest == "current"

VersionsFit(inv, m) == m.versions = <<CurrentManifest, inv.version>>

Summary(skills, adapters, findings, remarks) ==
    LET authenticated == {id \in DOMAIN skills : skills[id].requirement # "None"}
    IN  [skills |-> Cardinality(DOMAIN skills), adapters |-> Cardinality(DOMAIN adapters),
         authenticated |-> Cardinality(authenticated),
         unauthenticated |-> Cardinality(DOMAIN skills) - Cardinality(authenticated),
         findings |-> Cardinality(DOMAIN findings), remarks |-> Len(remarks)]

Compiled(inv, m) ==
    LET skills == ClassifySkills(inv, m.skills)
        adapters == ClassifyAdapters(inv, m.adapters)
        findings == Dispose(inv, m.findings)
        accepted ==
            /\ VersionsFit(inv, m)
            /\ skills.clean /\ SkillIds(inv) \subseteq DOMAIN skills.of
            /\ adapters.clean /\ AdapterFiles(inv) \subseteq DOMAIN adapters.of
            /\ \A id \in DOMAIN skills.of : RuntimeFits(SourceOf(inv, id), skills.of[id])
            /\ findings.clean /\ FindingKeys(inv) \subseteq DOMAIN findings.of
            /\ RemarksFit(inv, m.remarks)
    IN  IF ~accepted THEN {}
        ELSE {[skills |-> skills.of, adapters |-> adapters.of, findings |-> findings.of,
               remarks |-> Range(m.remarks),
               summary |-> Summary(skills.of, adapters.of, findings.of, m.remarks)]}

-----------------------------------------------------------------------------
Init ==
    /\ inventory \in Inventories
    /\ manifest \in [versions : Versions, skills : {<<>>}, adapters : {<<>>},
                     findings : {<<>>}, remarks : {<<>>}]
    /\ report = {}

(* The author writes one more entry of a list; compile takes the manifest   *)
(* by value, so one that was accepted is not written further.               *)
Write(list, entries) ==
    /\ report = {} /\ Len(manifest[list]) < MaxGroups
    /\ \E entry \in entries : manifest' = [manifest EXCEPT ![list] = Append(@, entry)]
    /\ UNCHANGED <<inventory, report>>

WriteSkills == Write("skills", SkillGroups)
WriteAdapters == Write("adapters", AdapterGroups)
WriteDisposition == Write("findings", Dispositions)
WriteRemark == Write("remarks", Remarks)

Compile ==
    /\ report = {}
    /\ report' = Compiled(inventory, manifest)
    /\ report' # {}
    /\ UNCHANGED <<inventory, manifest>>

Next == WriteSkills \/ WriteAdapters \/ WriteDisposition \/ WriteRemark \/ Compile

Spec == Init /\ [][Next]_vars

-----------------------------------------------------------------------------
(* How often the manifest names a subject.                                  *)
SkillMentions(id) ==
    {<<i, j>> \in (1 .. MaxGroups) \X (1 .. 2 * MaxGroups) :
        /\ i \in DOMAIN manifest.skills /\ j \in DOMAIN manifest.skills[i].skills
        /\ manifest.skills[i].skills[j] = id}
FileMentions(file) ==
    {<<i, j>> \in (1 .. MaxGroups) \X (1 .. 2 * MaxGroups) :
        /\ i \in DOMAIN manifest.adapters /\ j \in DOMAIN manifest.adapters[i].files
        /\ manifest.adapters[i].files[j] = file}
FindingMentions(key) == {i \in DOMAIN manifest.findings : Key(manifest.findings[i]) = key}

(* ClassificationCompiler::compile: the report answers for the inventory,   *)
(* no more and no less.  Every skill, adapter file and finding has exactly  *)
(* one decision in the manifest, it is the one reported, nothing that was   *)
(* not inventoried is reported, and no finding that is an error, alone or   *)
(* under a key it shares with warnings, was accepted as the baseline.       *)
OneDecisionEach ==
    \A r \in report :
        /\ DOMAIN r.skills = SkillIds(inventory)
        /\ \A id \in DOMAIN r.skills :
              \E mention \in SkillMentions(id) :
                  /\ SkillMentions(id) = {mention}
                  /\ r.skills[id] = SkillDecision(manifest.skills[mention[1]])
        /\ DOMAIN r.adapters = AdapterFiles(inventory)
        /\ \A file \in DOMAIN r.adapters : Cardinality(FileMentions(file)) = 1
        /\ DOMAIN r.findings = FindingKeys(inventory)
        /\ \A key \in DOMAIN r.findings : Cardinality(FindingMentions(key)) = 1
        /\ \A finding \in inventory.findings :
              finding.severity = "Error" => r.findings[Key(finding)] # "AcceptBaseline"

(* validate_skill_group: what the report calls authenticated really has a   *)
(* provider, a session with an owner and a store, a way to set it up and a  *)
(* way to verify it, under an owner all its strategies admit; what it calls *)
(* unauthenticated has none of them, and no source that asks for secrets or *)
(* declares authentication is among these.                                  *)
AuthenticationIsWhole ==
    \A r \in report : \A id \in DOMAIN r.skills :
        LET entry == r.skills[id]
            source == SourceOf(inventory, id)
        IN  IF entry.requirement = "None"
            THEN /\ entry.strategies = <<"None">> /\ entry.provider = {}
                 /\ entry.owner = "None" /\ entry.store = "None"
                 /\ entry.setup = "None" /\ entry.identity = "None"
                 /\ source.env = {} /\ ~source.auth
            ELSE /\ entry.provider # {} /\ entry.owner # "None" /\ entry.store # "None"
                 /\ entry.setup # "None" /\ entry.identity # "None"
                 /\ \A s \in Range(entry.strategies) : entry.owner \in OwnersOf(s)

=============================================================================
