------------------------------ MODULE Decisions ------------------------------
(***************************************************************************)
(* The decisions outside of a call that are proved about, each on          *)
(* constants and variables of its own, whose names begin with its          *)
(* initials.  "subject" says which of them a behaviour is about.           *)
(***************************************************************************)
EXTENDS Integers, Sequences, FiniteSets

VARIABLE subject  \* the decisions that are taken

-----------------------------------------------------------------------------
(* Host-owned sessions and what is delegated to their owners.              *)

CONSTANTS
    sa_Contracts, sa_Selections, sa_Owners, sa_Classes, sa_MaxRevision,
    sa_MaxInFlight, sa_MaxRetries

VARIABLES
    sa_contract, sa_adapter, sa_owner, sa_observation, sa_flight, sa_status,
    sa_invalidation, sa_prepared, sa_authority, sa_call

sa == <<sa_contract, sa_adapter, sa_owner, sa_observation, sa_flight,
        sa_status, sa_invalidation, sa_prepared, sa_authority, sa_call>>

Strategy == INSTANCE StrategyAdapter WITH
    Contracts <- sa_Contracts, Selections <- sa_Selections,
    Owners <- sa_Owners, Classes <- sa_Classes,
    MaxRevision <- sa_MaxRevision, MaxInFlight <- sa_MaxInFlight,
    MaxRetries <- sa_MaxRetries, contract <- sa_contract,
    adapter <- sa_adapter, owner <- sa_owner,
    observation <- sa_observation, flight <- sa_flight, status <- sa_status,
    invalidation <- sa_invalidation, prepared <- sa_prepared,
    authority <- sa_authority, call <- sa_call

-----------------------------------------------------------------------------
(* The registry of profiles as it is written, read and selected from.      *)

CONSTANTS
    pr_Scope, pr_Foreign, pr_Asked, pr_Keys, pr_Identities, pr_NoIdentity,
    pr_Projections, pr_Policies, pr_Aliases, pr_Bindings, pr_Providers,
    pr_MaxIdentifier, pr_MaxUrl, pr_MaxProfiles, pr_MaxBytes, pr_MaxNesting,
    pr_MaxRevision, pr_Nobody

VARIABLES
    pr_legacy, pr_usable, pr_stored, pr_condition, pr_outcome

pr == <<pr_legacy, pr_usable, pr_stored, pr_condition, pr_outcome>>

Registry == INSTANCE ProfileRegistry WITH
    Scope <- pr_Scope, Foreign <- pr_Foreign, Asked <- pr_Asked,
    Keys <- pr_Keys, Identities <- pr_Identities,
    NoIdentity <- pr_NoIdentity, Projections <- pr_Projections,
    Policies <- pr_Policies, Aliases <- pr_Aliases, Bindings <- pr_Bindings,
    Providers <- pr_Providers, MaxIdentifier <- pr_MaxIdentifier,
    MaxUrl <- pr_MaxUrl, MaxProfiles <- pr_MaxProfiles,
    MaxBytes <- pr_MaxBytes, MaxNesting <- pr_MaxNesting,
    MaxRevision <- pr_MaxRevision, Nobody <- pr_Nobody,
    legacy <- pr_legacy, usable <- pr_usable, stored <- pr_stored,
    condition <- pr_condition, outcome <- pr_outcome

-----------------------------------------------------------------------------
(* Opening a directory that was issued, while its path changes.            *)

CONSTANTS
    sp_Profiles, sp_Used, sp_Names, sp_Inodes, sp_User, sp_Device,
    sp_MaxComponent, sp_MaxEntries, sp_MaxChanges, sp_Statuses

VARIABLES
    sp_tree, sp_aliases, sp_crowd, sp_changes, sp_container, sp_handles,
    sp_walk, sp_descriptor, sp_pinned, sp_refused

sp == <<sp_tree, sp_aliases, sp_crowd, sp_changes, sp_container, sp_handles,
        sp_walk, sp_descriptor, sp_pinned, sp_refused>>

Scoped == INSTANCE ScopedPaths WITH
    Profiles <- sp_Profiles, Used <- sp_Used, Names <- sp_Names,
    Inodes <- sp_Inodes, User <- sp_User, Device <- sp_Device,
    MaxComponent <- sp_MaxComponent, MaxEntries <- sp_MaxEntries,
    MaxChanges <- sp_MaxChanges, Statuses <- sp_Statuses, tree <- sp_tree,
    aliases <- sp_aliases, crowd <- sp_crowd, changes <- sp_changes,
    container <- sp_container, handles <- sp_handles, walk <- sp_walk,
    descriptor <- sp_descriptor, pinned <- sp_pinned, refused <- sp_refused

-----------------------------------------------------------------------------
(* Readers of one SKILL.md.                                                *)

CONSTANTS
    sk_Sources, sk_MaxSource, sk_MaxFrontmatter, sk_MaxIndent, sk_MaxFlow,
    sk_MaxDepth, sk_MaxNodes, sk_MaxEntries, sk_Portable, sk_Reserved

VARIABLES
    sk_source, sk_package, sk_exposed

sk == <<sk_source, sk_package, sk_exposed>>

SkillFile == INSTANCE SkillPackage WITH
    Sources <- sk_Sources, MaxSource <- sk_MaxSource,
    MaxFrontmatter <- sk_MaxFrontmatter, MaxIndent <- sk_MaxIndent,
    MaxFlow <- sk_MaxFlow, MaxDepth <- sk_MaxDepth,
    MaxNodes <- sk_MaxNodes, MaxEntries <- sk_MaxEntries,
    Portable <- sk_Portable, Reserved <- sk_Reserved, source <- sk_source,
    package <- sk_package, exposed <- sk_exposed

-----------------------------------------------------------------------------
(* The reviewed tools of an MCP server.                                    *)

CONSTANTS
    mc_Skills, mc_Offers, mc_Malformed, mc_Unportable, mc_MaxName, mc_MaxTool,
    mc_MaxTools, mc_MaxRules, mc_MaxEntries, mc_MaxReferences,
    mc_MaxDescription, mc_MaxDescriptions

VARIABLES
    mc_skill, mc_contract, mc_offered, mc_catalog, mc_surface

mc == <<mc_skill, mc_contract, mc_offered, mc_catalog, mc_surface>>

Mcp == INSTANCE McpCatalog WITH
    Skills <- mc_Skills, Offers <- mc_Offers, Malformed <- mc_Malformed,
    Unportable <- mc_Unportable, MaxName <- mc_MaxName,
    MaxTool <- mc_MaxTool, MaxTools <- mc_MaxTools, MaxRules <- mc_MaxRules,
    MaxEntries <- mc_MaxEntries, MaxReferences <- mc_MaxReferences,
    MaxDescription <- mc_MaxDescription,
    MaxDescriptions <- mc_MaxDescriptions, skill <- mc_skill,
    contract <- mc_contract, offered <- mc_offered, catalog <- mc_catalog,
    surface <- mc_surface

-----------------------------------------------------------------------------
(* The assumptions of the parts, and their properties.                     *)

ASSUME DecisionAssumption ==
    /\ Strategy!StrategyAssumption
    /\ Registry!RegistryAssumption
    /\ Scoped!ScopedAssumption
    /\ SkillFile!PackageAssumption
    /\ Mcp!CatalogAssumption

\* What is published of a skill is what was reviewed: the readers of its file
\* agree on it, and neither a discovered tool nor a parameter slips past the
\* policy (parse_skill_runtime_package, McpCatalogPolicyContract).
CatalogIsAsReviewed ==
    /\ subject = "package" => SkillFile!ReadersAgree
    /\ subject = "mcp" => Mcp!CatalogIsAsReviewed /\ Mcp!ParametersDiffer

\* A dispatch is delegated for the session its owner has at that moment, a late
\* status is not acted upon, and nothing is sent twice without a decision of
\* the host (StrategyAdapter, BrowserProfileAdapter).
DelegationIsCurrent ==
    subject = "strategy" =>
        /\ Strategy!DelegationIsCurrent
        /\ Strategy!LateStatusIsDropped
        /\ Strategy!AutomaticRetrySendsOnce

\* No accepted write leaves a registry that its own readers refuse, and the
\* profile a call gets by default does not change in one step
\* (validate_candidate, select_credential_profile_from_snapshot).
RegistryStaysReadable ==
    [][subject = "profiles" /\ Registry!registry' # Registry!registry =>
         Registry!AcceptedWritesStayReadable' /\ Registry!DefaultMovesInTwoSteps]_pr

\* A directory that is handed out is the one that was issued, and one that
\* nobody touched is never refused (open_revalidated_directory).
IssuedDirectoryIsOpened ==
    subject = "scoped" => Scoped!PinsWhatWasIssued /\ Scoped!UntouchedIsAccepted
=============================================================================
