\* Logins against the cache of readiness, beside the decisions outside of a call.
CONSTANTS
    t1 = t1
    d1 = d1
    Coordinators = {c1, c2}
    Epochs = {e1, e2}
    Targets <- OneTarget
    LoginTimeouts = {1}
    IdleTimeout = 1
    MaxLeases = 1
    MaxEpochs = 2
    MaxRevision = 2
    MaxSequence = 2
    MaxInstance = 3
    MaxClock = 1
    NoLease = NoLease
    NoEpoch = NoEpoch
    Callers = {u1}
    Contracts = {k1, k2}
    Policies = {p1}
    Directories <- OneDirectory
    DirectoryOf <- ItsDirectory
    Inodes = {i1}
    Ttls = {1}
    MaxEntries = 1
    MaxGeneration = 3
    MaxReplacements = 0
    NoEntry = NoEntry
    NoCall = NoCall
    sa_Contracts <- StrategyContracts
    sa_Selections <- StrategySelections
    sa_Owners <- StrategyOwners
    sa_Classes = {"user", "isolated"}
    sa_MaxRevision = 3
    sa_MaxInFlight = 1
    sa_MaxRetries = 1
    pr_Scope = "workspace"
    pr_Foreign = "elsewhere"
    pr_Asked <- AskedKeys
    pr_Keys <- ProfileKeys
    pr_Identities = {"me"}
    pr_NoIdentity = "anybody"
    pr_Projections <- Configurations
    pr_Policies <- SelectionPolicies
    pr_Aliases = {"nobody", "home", "malformed"}
    pr_Bindings <- RequestBindings
    pr_Providers = {"nobody", "malformed", "mail"}
    pr_MaxIdentifier = 3
    pr_MaxUrl = 9
    pr_MaxProfiles = 4
    pr_MaxBytes = 2
    pr_MaxNesting = 2
    pr_MaxRevision = 2
    pr_Nobody = "nobody"
    sp_Profiles = {"home", "other", "odd"}
    sp_Used = {"home", "odd"}
    sp_Names <- ComponentNames
    sp_Inodes <- PositionInodes
    sp_User = 1
    sp_Device = 1
    sp_MaxComponent = 3
    sp_MaxEntries = 2
    sp_MaxChanges = 2
    sp_Statuses <- ProfileStatuses
    sk_Sources <- SkillFiles
    sk_MaxSource = 9
    sk_MaxFrontmatter = 4
    sk_MaxIndent = 3
    sk_MaxFlow = 1
    sk_MaxDepth = 2
    sk_MaxNodes = 3
    sk_MaxEntries = 1
    sk_Portable <- SkillFileNames
    sk_Reserved <- ReservedNames
    mc_Skills <- McpSkills
    mc_Offers <- ListedTools
    mc_Malformed = {"?"}
    mc_Unportable <- UnportableNames
    mc_MaxName = 5
    mc_MaxTool = 3
    mc_MaxTools = 3
    mc_MaxRules = 3
    mc_MaxEntries = 2
    mc_MaxReferences = 6
    mc_MaxDescription = 2
    mc_MaxDescriptions = 3
SPECIFICATION PartSpec
SYMMETRY Interchangeable
CHECK_DEADLOCK FALSE
INVARIANTS
    ReadinessPostdatesLogin
    TypedActionsKeepTheContract
    CatalogIsAsReviewed
    DelegationIsCurrent
    IssuedDirectoryIsOpened
    ReportsAnswerForTheSource
PROPERTIES
    RegistryStaysReadable
