CONSTANTS
    ps_Threads <- Writers
    ps_Registries <- Objects
    ps_Assigned <- OnOneOrTwo
    ps_Keys <- ProfileKeys
    ps_GroupOf <- OneGroup
    ps_Legacy <- Configured
    ps_Metadata <- References
    ps_MaxReplacements = 1
    ps_MaxCrashes = 1
    ps_NoProfile <- NoReference
    ps_Nobody = "nobody"
    cs_Processes = {"p1", "p2"}
    cs_Threads <- Callers
    cs_Recoverers = {"a", "c"}
    cs_Names = {"n1", "n2"}
    cs_MaxSessions = 2
    cs_MaxFaults = 2
    cs_MaxCrashes = 1
    ef_Clients = {"a", "b"}
    ef_MaxBytes <- Talk
    ef_Buffer = 1
    ef_Capacity = 1
    je_MaxForged = 2
    ea_Bytes = {"x", "y"}
    ea_Installed <- TwoVersions
    ea_Named <- TwoNames
    ea_Entry = "p"
    ea_Directories = {"d", "e", "f"}
    ea_Laid <- TwoLevels
    ea_MaxChanges = 3
    ea_BirthTimes = TRUE
    ei_Contracts <- IntentContracts
    ei_Policies <- IntentPolicies
    ei_Requests <- IntentRequests
    ei_Modes <- IntentModes
    ei_Materials = {0, 1, 3, 4}
    ei_MaxTimeout = 3
    ei_MaxStream = 3
    ei_MaxArguments = 2
    ei_MaxArgument = 1
    ei_MaxArgumentBytes = 3
    ei_MaxPath = 4
    ei_MaxComponents = 2
    ei_MaxComponent = 2
    ei_MaxEdits = 1
    jm_Pids = {1, 2}
    jm_MaxStarts = 4
    jm_MaxHops = 2
    jm_MaxUnknown = 2
    jm_QuietScans = 3
    cc_Family <- NoInterpreter
    cc_Flags = {}
    cc_Malformed = {}
    cc_Fold <- UpperCase
    cc_Loaders = {}
    cc_NeverFixed = {"LANG"}
    cc_NeverInjected = {}
    cc_Permitted <- Allowed
    cc_MaxEntries = 3
    cc_Minimax = "minimax"
    cc_Contracts <- Skills
    cc_Baseline = {"LANG"}
    cc_Alias = "personal"
    cc_Directories = {1, 2}
    cc_MaxRevision = 2
    cc_MaxReplacements = 2
    cc_MaxFaults = 1
    cr_MaxByte = 2
    cr_Preferred = 2
    cr_Secrets <- SecretSets
    cr_MaxChunk = 2
    cr_MaxInput = 4
    rs_Files = {"f1", "f2"}
    rs_MaxFile = 2
    rs_MaxTotal = 3
    rs_MaxLength = 2
    rs_MaxWrites = 3
    lc_Contracts <- Clis
    lc_Aliases = {"personal"}
    lc_Identities = {"ann", "ANN"}
    lc_Fold <- LowerCase
    lc_Searches <- PathLists
    lc_MaxSearch = 2
    lc_Endings <- Endings
    lc_Outputs <- Outputs
    lc_Directories = {1, 2}
    lc_MaxWork = 9
    lc_MaxChanges = 1
    lc_MaxReplacements = 2
    ac_Invocations <- ComparedCalls
    ac_Floor <- CallFloor
    ac_Evidence <- OfferedEvidence
    ac_MaxItems = 1
    pj_MaxTree = 4
    pj_MaxLinks = 2
    pj_Version <- JailVersion
    pj_Hosts <- JailHosts
    pj_Installed <- HostFiles
    pj_Changes <- HostChanges
    pj_MaxChanges = 1
    pj_HardLimits = {2}
    pj_Limits <- JailLimits
    pj_Ceilings <- Most
    pj_MinBrokered = 4
    pj_Brokers <- JailBrokers
    pj_Forbidden <- JailForbidden
    pj_Declarations <- JailDeclarations
    pj_Stagers = {"a", "b"}
    pj_Inputs <- JailInputs
    pj_Helpers <- JailHelpers
    pj_LauncherPaths <- JailLaunchers
    pj_Candidates <- JailCandidates
    pj_Needed <- JailNeeded
    pj_Bundles <- JailBundles
    pj_System <- JailSystem
    pj_Programs <- JailPrograms
    pj_Contract = {"HTTP_PROXY", "LD_PRELOAD", "LANG", "SSL_CERT_FILE"}
    pj_Work <- JailWork
    pj_Snapshot <- JailSnapshot
    cp_Bytes = {0, 1, 2}
    cp_Marker = 9
    cp_Secrets <- PersistedSecrets
    cp_Drafts <- PersistedDrafts
    cp_MaxOffered = 3
    cp_MaxRecords = 2
    cp_MaxInput = 3
    cp_MaxTotal = 5
    cp_Used = {"tool_output", "log"}
    cp_Plans <- ReceiptPlans
SPECIFICATION PartSpec
CHECK_DEADLOCK FALSE
INVARIANTS
    AdmissionPrecedesCredentials
    DispatchIsCertain
    ReceiptMatchesAnswer
    SuccessIsClean
    OneCallPerThread
    AcknowledgedSurvives
    SessionsKeepTheirFiles
    ChannelsTellTheTruth
    OutputIsExact
    CredentialsAreAsSelected
    LaunchIsWhatWasBound
    ReadyIsEarned
    JailKeepsItsAudit
    SurvivorsKeepTheirSentinel
    ProcessFitsItsContract
    ApprovalCoversTheCall
    RecordsAreSafe
PROPERTIES
    NoLostUpdate
