----------------------------- MODULE SkillPackage -----------------------------
(***************************************************************************)
(* The executable package in a skill's SKILL.md, and the readers of that   *)
(* file (src/tool-runtime-core/src/manifest_parser.rs, with the            *)
(* frontmatter scanners of inventory.rs).                                  *)
(*                                                                         *)
(* A file is a sequence of lines.  A line says how long it is, whether it  *)
(* reads --- once line ends are removed, and what the scanners look for:   *)
(* its indentation, the sequences it opens in place, how far it raises and *)
(* then lowers the depth of flow collections outside quotes and comments,  *)
(* an anchor or alias, and whether a block scalar follows.  The YAML       *)
(* behind the lines is what the library would return: its shape, the       *)
(* mappings on the way to metadata.magician and the members of that one.   *)
(***************************************************************************)
EXTENDS Integers, Sequences, FiniteSets, SequencesExt

CONSTANTS
    Sources,
    MaxSource, MaxFrontmatter, \* MAX_SKILL_MARKDOWN_BYTES, MAX_SKILL_FRONTMATTER_BYTES
    MaxIndent, MaxFlow,        \* MAX_YAML_INDENT_BYTES, MAX_YAML_FLOW_DEPTH
    MaxDepth, MaxNodes,        \* MAX_PARSED_YAML_DEPTH, MAX_PARSED_YAML_NODES
    MaxEntries,                \* MAX_CATEGORIES, MAX_PROFILE_ENUM_VALUES
    Portable,                  \* names that the catalog's predicates accept
    Reserved                   \* control -> names its parameter may not take

\* What is read of an expose map, and the names that a directory's parameter may
\* not take.
PackageAssumption ==
    /\ \A s \in Sources : s.yaml.expose \in {"absent", "valid", "invalid"}
    /\ {"profile", "stdin", "timeout_secs"} \subseteq Reserved["directory"]

VARIABLES
    source, package, exposed

vars == <<source, package, exposed>>

Refused(reason) == [result |-> "refused", reason |-> reason]
Absent == [result |-> "absent", reason |-> "none"]
Unread == [result |-> "unread", reason |-> "none"]
Read == [result |-> "read", reason |-> "none"]

-----------------------------------------------------------------------------
(* The frontmatter: the lines between two of ---.                          *)

Closes(line) == line.text = "---"
Bytes(lines) == FoldLeft(LAMBDA sum, line : sum + line.length, 0, lines)
Between(lines, end) == SubSeq(lines, 2, end - 1)
Fences(lines) == {i \in 2..Len(lines) : Closes(lines[i])}
FirstFence(lines) == CHOOSE i \in Fences(lines) : \A j \in Fences(lines) : i <= j

\* The bound on the frontmatter ends the search for its end.
GrowsTooLarge(lines) ==
    LET end == IF Fences(lines) = {} THEN Len(lines) + 1 ELSE FirstFence(lines)
    IN  Bytes(Between(lines, end)) > MaxFrontmatter

\* Trailing carriage returns are removed, and a byte order mark; only a line
\* that ends can be the first.
Opens(line) == Closes(line) /\ line.ended

Extraction(lines) ==
    CASE lines = <<>> -> Refused("missing_frontmatter")
      [] ~lines[1].ended -> Refused(IF Closes(lines[1]) THEN "unterminated_frontmatter" ELSE "missing_frontmatter")
      [] lines[1].ended /\ ~Opens(lines[1]) -> Refused("missing_frontmatter")
      [] Opens(lines[1]) /\ GrowsTooLarge(lines) -> Refused("frontmatter_too_large")
      [] Opens(lines[1]) /\ ~GrowsTooLarge(lines) ->
            IF Fences(lines) = {} THEN Refused("unterminated_frontmatter") ELSE Read

Frontmatter(lines) == Between(lines, FirstFence(lines))

\* The scanner of the source inventory, which knows no bound.
InventoryReads(lines) == lines # <<>> /\ Closes(lines[1]) /\ Fences(lines) # {}

-----------------------------------------------------------------------------
(* What is refused before the YAML library sees the text.                  *)

\* Lines deeper than the line that announced a block scalar are its text.
NoScalar == -1
InScalar(scalar, line) == scalar # NoScalar /\ line.indent > scalar
ScalarAfter(line) == IF line.scalar THEN line.indent ELSE NoScalar

FlowStep(state, line) ==
    IF InScalar(state.scalar, line) \/ line.blank THEN [state EXCEPT !.ok = @ /\ line.indent <= MaxIndent]
    ELSE LET deepest == IF line.scalar THEN 0 ELSE state.flow + line.opens
         IN  [scalar |-> ScalarAfter(line),
              flow |-> IF line.scalar THEN state.flow
                       ELSE IF line.closes > deepest THEN 0 ELSE deepest - line.closes,
              ok |-> state.ok /\ line.indent <= MaxIndent /\ deepest <= MaxFlow]

FlowIsShallow(lines) == FoldLeft(FlowStep, [scalar |-> NoScalar, flow |-> 0, ok |-> TRUE], lines).ok

\* The lines that enclose a line are the earlier ones that are indented less.
BlockStep(state, line) ==
    IF InScalar(state.scalar, line) THEN state
    ELSE IF line.blank \/ line.comment THEN [state EXCEPT !.scalar = NoScalar]
    ELSE LET enclosing == Append(SelectSeq(state.open, LAMBDA indent : indent < line.indent), line.indent)
         IN  [scalar |-> ScalarAfter(line), open |-> enclosing,
              ok |-> state.ok /\ Len(enclosing) + line.compact <= MaxDepth]

BlocksAreShallow(lines) == FoldLeft(BlockStep, [scalar |-> NoScalar, open |-> <<>>, ok |-> TRUE], lines).ok

\* The line that announces a block scalar is not searched.
ReferenceStep(state, line) ==
    IF InScalar(state.scalar, line) THEN state
    ELSE [scalar |-> ScalarAfter(line), ok |-> state.ok /\ (line.anchor => line.scalar)]

NoReferences(lines) == FoldLeft(ReferenceStep, [scalar |-> NoScalar, ok |-> TRUE], lines).ok

ParsedFits(yaml) == yaml.nodes <= MaxNodes /\ yaml.depth <= MaxDepth

Document(s) ==
    LET found == Extraction(s.lines)
        lines == Frontmatter(s.lines)
    IN  CASE s.bytes > MaxSource -> Refused("source_too_large")
          [] s.bytes <= MaxSource /\ found # Read -> found
          [] s.bytes <= MaxSource /\ found = Read ->
                CASE ~FlowIsShallow(lines) \/ ~BlocksAreShallow(lines) -> Refused("unsafe_yaml_shape")
                  [] FlowIsShallow(lines) /\ BlocksAreShallow(lines) /\ ~NoReferences(lines) ->
                        Refused("yaml_references_unsupported")
                  [] OTHER ->
                        IF ~s.yaml.parses THEN Refused("invalid_yaml")
                        ELSE IF ~ParsedFits(s.yaml) THEN Refused("parsed_yaml_too_large")
                        ELSE IF s.yaml.tagged THEN Refused("yaml_tags_unsupported") ELSE Read

-----------------------------------------------------------------------------
(* The way to metadata.magician: the root, metadata and magician are each  *)
(* a mapping, another value or absent; the root is never absent.           *)

Envelope(s) ==
    LET stops == {i \in 1..3 : s.yaml.path[i] # "mapping"}
        first == CHOOSE i \in stops : \A j \in stops : i <= j
    IN  IF Document(s) # Read THEN Document(s)
        ELSE IF stops = {} THEN Read
        ELSE IF s.yaml.path[first] = "absent" THEN Absent ELSE Refused("invalid_envelope")

\* One extension of magician, here the audience in expose.
Extension(s) ==
    IF Envelope(s) # Read THEN Envelope(s)
    ELSE CASE s.yaml.expose = "absent" -> Absent
           [] s.yaml.expose = "valid" -> Read
           [] s.yaml.expose = "invalid" -> Refused("invalid_magician_extension")

-----------------------------------------------------------------------------
(* The contract, the actions and the catalog.                              *)

ContractFault(contract) ==
    CASE contract.kind # "mapping" -> Refused("invalid_envelope")
      [] contract.kind = "mapping" /\ contract.version = "absent" -> Refused("missing_schema_version")
      [] contract.kind = "mapping" /\ contract.version \in {"number", "malformed"} -> Refused("invalid_schema_version")
      [] contract.kind = "mapping" /\ contract.version = "other" -> Refused("unsupported_schema_version")
      [] contract.kind = "mapping" /\ contract.version = "v1" ->
            IF contract.fits THEN Read ELSE Refused("invalid_runtime_contract")

Offered(catalog, control) == control \in DOMAIN catalog.names
NameFits(catalog, control) ==
    Offered(catalog, control) =>
        catalog.names[control] \in Portable /\ catalog.names[control] \notin Reserved[control]

TimeoutFits(contract, catalog) ==
    "timeout" \in DOMAIN catalog.defaults =>
        /\ catalog.defaults.timeout # 0 /\ contract.protocol = "cli"
        /\ "timeout" \in DOMAIN contract.limits => catalog.defaults.timeout <= contract.limits.timeout

EndpointFits(contract, catalog) ==
    Offered(catalog, "endpoint") => contract.protocol = "mcp" /\ contract.endpoints # {}

DirectoryFits(contract, catalog) ==
    /\ catalog.exposes_directory => contract.protocol = "cli" /\ contract.directory = "workspace"
    /\ Offered(catalog, "directory") \/ "directory" \in DOMAIN catalog.defaults => catalog.exposes_directory
    /\ "directory" \in DOMAIN catalog.defaults => catalog.defaults.directory \in Portable \cup {"."}

\* Suggestions, if there are any, hold the alias that is chosen by default.
ProfileFits(contract, catalog) ==
    Offered(catalog, "profile") =>
        /\ contract.selectable
        /\ Cardinality(catalog.aliases) <= MaxEntries /\ catalog.aliases \subseteq Portable
        /\ contract.default # "none" /\ catalog.aliases # {} => contract.default \in catalog.aliases

CatalogFits(contract, catalog) ==
    /\ Len(catalog.categories) <= MaxEntries /\ ToSet(catalog.categories) \subseteq Portable
    /\ \A control \in {"endpoint", "directory", "profile"} : NameFits(catalog, control)
    /\ TimeoutFits(contract, catalog) /\ EndpointFits(contract, catalog)
    /\ DirectoryFits(contract, catalog) /\ catalog.spend_fits
    /\ ProfileFits(contract, catalog)

Package(s) ==
    LET yaml == s.yaml
    IN  IF Envelope(s) # Read THEN Envelope(s)
        ELSE IF yaml.contract.kind = "absent"
             THEN IF yaml.actions = "absent" THEN Absent ELSE Refused("actions_without_runtime_contract")
        ELSE IF ContractFault(yaml.contract) # Read THEN ContractFault(yaml.contract)
        ELSE IF yaml.actions = "invalid" THEN Refused("invalid_runtime_actions")
        ELSE IF ~yaml.catalog.parses \/ ~CatalogFits(yaml.contract, yaml.catalog)
             THEN Refused("invalid_runtime_catalog") ELSE Read

\* The one selector of a profile that a model sees, and its suggestions.
ProfileParameter(s) ==
    IF ~s.yaml.contract.selectable THEN {}
    ELSE IF Offered(s.yaml.catalog, "profile") THEN {s.yaml.catalog.names.profile} ELSE {"profile"}

DirectoryParameter(s) ==
    IF ~s.yaml.catalog.exposes_directory THEN {}
    ELSE IF Offered(s.yaml.catalog, "directory") THEN {s.yaml.catalog.names.directory} ELSE {"working_dir"}

-----------------------------------------------------------------------------
Init == source \in Sources /\ package = Unread /\ exposed = Unread

ReadPackage == package = Unread /\ package' = Package(source) /\ UNCHANGED <<source, exposed>>
ReadAudience == exposed = Unread /\ exposed' = Extension(source) /\ UNCHANGED <<source, package>>

Next == ReadPackage \/ ReadAudience
Spec == Init /\ [][Next]_vars

-----------------------------------------------------------------------------
(* The readers of a SKILL.md agree.  The parser finds a frontmatter in a   *)
(* file that ends its first line exactly where the inventory does, unless  *)
(* it is too large; a skill whose package is read has an audience that is  *)
(* read or left to its default, unless the expose map itself is wrong; and *)
(* the controls its catalog offers are ones the contract has: a directory  *)
(* only in a workspace, and a profile by a name of its own, with the       *)
(* default alias among the suggestions.                                    *)
ReadersAgree ==
    /\ source.lines # <<>> /\ source.lines[1].ended =>
         (InventoryReads(source.lines) <=>
            \/ Extraction(source.lines) = Read
            \/ Closes(source.lines[1]) /\ Fences(source.lines) # {} /\ GrowsTooLarge(source.lines))
    /\ package = Read /\ exposed # Unread =>
         exposed \in {Read, Absent, Refused("invalid_magician_extension")}
    /\ package = Read =>
         /\ Cardinality(ProfileParameter(source)) <= 1
         /\ DirectoryParameter(source) # {} => source.yaml.contract.directory = "workspace"
         /\ DirectoryParameter(source) \cap {"profile", "stdin", "timeout_secs"} = {}
=============================================================================
