----------------------------- MODULE Components -----------------------------
(***************************************************************************)
(* The components of a governed call that are proved about, each on        *)
(* constants and variables of its own, whose names begin with its          *)
(* initials, so that one module can speak of them all.  "part" says which  *)
(* of them a behaviour is about.                                           *)
(***************************************************************************)
EXTENDS Integers, Sequences, FiniteSets

VARIABLE part  \* the component that runs

-----------------------------------------------------------------------------
(* Writers of one registry of profiles, crashes and a replaced lock.       *)

CONSTANTS
    ps_Threads, ps_Registries, ps_Assigned, ps_Keys, ps_GroupOf,
    ps_Legacy, ps_Metadata, ps_MaxReplacements, ps_MaxCrashes,
    ps_NoProfile, ps_Nobody

VARIABLES
    ps_file, ps_survivors, ps_lock_file, ps_holder, ps_object,
    ps_local_write, ps_pc, ps_held, ps_view, ps_changed, ps_crashes,
    ps_acked, ps_usurped, ps_contested, ps_outrun

ps == <<ps_file, ps_survivors, ps_lock_file, ps_holder, ps_object,
        ps_local_write, ps_pc, ps_held, ps_view, ps_changed, ps_crashes,
        ps_acked, ps_usurped, ps_contested, ps_outrun>>

Store == INSTANCE ProfileStore WITH
    Threads <- ps_Threads, Registries <- ps_Registries,
    Assigned <- ps_Assigned, Keys <- ps_Keys, GroupOf <- ps_GroupOf,
    Legacy <- ps_Legacy, Metadata <- ps_Metadata,
    MaxReplacements <- ps_MaxReplacements, MaxCrashes <- ps_MaxCrashes,
    NoProfile <- ps_NoProfile, Nobody <- ps_Nobody, file <- ps_file,
    survivors <- ps_survivors, lock_file <- ps_lock_file,
    holder <- ps_holder, object <- ps_object,
    local_write <- ps_local_write, pc <- ps_pc, held <- ps_held,
    view <- ps_view, changed <- ps_changed, crashes <- ps_crashes,
    acked <- ps_acked, usurped <- ps_usurped, contested <- ps_contested,
    outrun <- ps_outrun

-----------------------------------------------------------------------------
(* Directories of sessions in two processes, one of which recovers.        *)

CONSTANTS
    cs_Processes, cs_Threads, cs_Recoverers, cs_Names, cs_MaxSessions,
    cs_MaxFaults, cs_MaxCrashes

VARIABLES
    cs_lease, cs_active, cs_dirs, cs_pc, cs_name, cs_todo, cs_faults,
    cs_crashes

cs == <<cs_lease, cs_active, cs_dirs, cs_pc, cs_name, cs_todo, cs_faults,
        cs_crashes>>

Scratch == INSTANCE CredentialScratch WITH
    Processes <- cs_Processes, Threads <- cs_Threads,
    Recoverers <- cs_Recoverers, Names <- cs_Names,
    MaxSessions <- cs_MaxSessions, MaxFaults <- cs_MaxFaults,
    MaxCrashes <- cs_MaxCrashes, lease <- cs_lease, active <- cs_active,
    dirs <- cs_dirs, pc <- cs_pc, name <- cs_name, todo <- cs_todo,
    faults <- cs_faults, crashes <- cs_crashes

-----------------------------------------------------------------------------
(* The relay of a brokered jail.                                           *)

CONSTANTS
    ef_Clients, ef_MaxBytes, ef_Buffer, ef_Capacity

VARIABLES
    ef_child, ef_pc, ef_overdue, ef_conn, ef_peer, ef_pipe, ef_gone,
    ef_failed

ef == <<ef_child, ef_pc, ef_overdue, ef_conn, ef_peer, ef_pipe, ef_gone,
        ef_failed>>

Forwarder == INSTANCE EgressForwarder WITH
    Clients <- ef_Clients, MaxBytes <- ef_MaxBytes, Buffer <- ef_Buffer,
    Capacity <- ef_Capacity, child <- ef_child, pc <- ef_pc,
    overdue <- ef_overdue, conn <- ef_conn, peer <- ef_peer,
    pipe <- ef_pipe, gone <- ef_gone, failed <- ef_failed

-----------------------------------------------------------------------------
(* The channel on which a jail reports a refusal.                          *)

CONSTANTS
    je_MaxForged

VARIABLES
    je_shim, je_ran, je_command, je_lent, je_channel, je_runner

je == <<je_shim, je_ran, je_command, je_lent, je_channel, je_runner>>

Status == INSTANCE JailExecStatus WITH
    MaxForged <- je_MaxForged, shim <- je_shim, ran <- je_ran,
    command <- je_command, lent <- je_lent, channel <- je_channel,
    runner <- je_runner

-----------------------------------------------------------------------------
(* From the entry in PATH to the file that is launched.                    *)

CONSTANTS
    ea_Bytes, ea_Installed, ea_Named, ea_Entry, ea_Directories, ea_Laid,
    ea_MaxChanges, ea_BirthTimes

VARIABLES
    ea_content, ea_changed, ea_name, ea_link, ea_chain, ea_born, ea_changes,
    ea_pc, ea_expected, ea_path, ea_identity, ea_digest, ea_copy, ea_bound,
    ea_handle, ea_contents

ea == <<ea_content, ea_changed, ea_name, ea_link, ea_chain, ea_born,
        ea_changes, ea_pc, ea_expected, ea_path, ea_identity, ea_digest,
        ea_copy, ea_bound, ea_handle, ea_contents>>

Authority == INSTANCE ExecutionAuthority WITH
    Bytes <- ea_Bytes, Installed <- ea_Installed, Named <- ea_Named,
    Entry <- ea_Entry, Directories <- ea_Directories, Laid <- ea_Laid,
    MaxChanges <- ea_MaxChanges, BirthTimes <- ea_BirthTimes,
    content <- ea_content, changed <- ea_changed, name <- ea_name,
    link <- ea_link, chain <- ea_chain, born <- ea_born,
    changes <- ea_changes, pc <- ea_pc, expected <- ea_expected,
    path <- ea_path, identity <- ea_identity, digest <- ea_digest,
    copy <- ea_copy, bound <- ea_bound, handle <- ea_handle,
    contents <- ea_contents

-----------------------------------------------------------------------------
(* The intent of an execution against contract and policy.                 *)

CONSTANTS
    ei_Contracts, ei_Policies, ei_Requests, ei_Modes, ei_Materials,
    ei_MaxTimeout, ei_MaxStream, ei_MaxArguments, ei_MaxArgument,
    ei_MaxArgumentBytes, ei_MaxPath, ei_MaxComponents, ei_MaxComponent,
    ei_MaxEdits

VARIABLES
    ei_skill, ei_edits, ei_compiled, ei_intent, ei_call, ei_process

ei == <<ei_skill, ei_edits, ei_compiled, ei_intent, ei_call, ei_process>>

Intent == INSTANCE ExecutionIntent WITH
    Contracts <- ei_Contracts, Policies <- ei_Policies,
    Requests <- ei_Requests, Modes <- ei_Modes, Materials <- ei_Materials,
    MaxTimeout <- ei_MaxTimeout, MaxStream <- ei_MaxStream,
    MaxArguments <- ei_MaxArguments, MaxArgument <- ei_MaxArgument,
    MaxArgumentBytes <- ei_MaxArgumentBytes, MaxPath <- ei_MaxPath,
    MaxComponents <- ei_MaxComponents, MaxComponent <- ei_MaxComponent,
    MaxEdits <- ei_MaxEdits, skill <- ei_skill, edits <- ei_edits,
    compiled <- ei_compiled, intent <- ei_intent, call <- ei_call,
    process <- ei_process

-----------------------------------------------------------------------------
(* The processes of a jail, listed and killed while they fork.             *)

CONSTANTS
    jm_Pids, jm_MaxStarts, jm_MaxHops, jm_MaxUnknown, jm_QuietScans

VARIABLES
    jm_started, jm_proc, jm_stopped, jm_owner, jm_sentinel, jm_aged, jm_jail,
    jm_sweeping, jm_scan, jm_survived, jm_hops, jm_unknown

jm == <<jm_started, jm_proc, jm_stopped, jm_owner, jm_sentinel, jm_aged,
        jm_jail, jm_sweeping, jm_scan, jm_survived, jm_hops, jm_unknown>>

Members == INSTANCE JailMembers WITH
    Pids <- jm_Pids, MaxStarts <- jm_MaxStarts, MaxHops <- jm_MaxHops,
    MaxUnknown <- jm_MaxUnknown, QuietScans <- jm_QuietScans,
    started <- jm_started, proc <- jm_proc, stopped <- jm_stopped,
    owner <- jm_owner, sentinel <- jm_sentinel, aged <- jm_aged,
    jail <- jm_jail, sweeping <- jm_sweeping, scan <- jm_scan,
    survived <- jm_survived, hops <- jm_hops, unknown <- jm_unknown

-----------------------------------------------------------------------------
(* The credentials of one call, from the contract to the command.          *)

CONSTANTS
    cc_Family, cc_Flags, cc_Malformed, cc_Fold, cc_Loaders, cc_NeverFixed,
    cc_NeverInjected, cc_Permitted, cc_MaxEntries, cc_Minimax, cc_Contracts,
    cc_Baseline, cc_Alias, cc_Directories, cc_MaxRevision, cc_MaxReplacements,
    cc_MaxFaults

VARIABLES
    cc_contract, cc_registry, cc_directory, cc_faults, cc_pc, cc_cause,
    cc_selection, cc_plan, cc_authority, cc_material, cc_todo,
    cc_environment, cc_io, cc_patterns, cc_session, cc_seen

cc == <<cc_contract, cc_registry, cc_directory, cc_faults, cc_pc, cc_cause,
        cc_selection, cc_plan, cc_authority, cc_material, cc_todo,
        cc_environment, cc_io, cc_patterns, cc_session, cc_seen>>

Credentials == INSTANCE CredentialCall WITH
    Family <- cc_Family, Flags <- cc_Flags, Malformed <- cc_Malformed,
    Fold <- cc_Fold, Loaders <- cc_Loaders, NeverFixed <- cc_NeverFixed,
    NeverInjected <- cc_NeverInjected, Permitted <- cc_Permitted,
    MaxEntries <- cc_MaxEntries, Minimax <- cc_Minimax,
    Contracts <- cc_Contracts, Baseline <- cc_Baseline, Alias <- cc_Alias,
    Directories <- cc_Directories,
    MaxRevision <- cc_MaxRevision, MaxReplacements <- cc_MaxReplacements,
    MaxFaults <- cc_MaxFaults, contract <- cc_contract,
    registry <- cc_registry, directory <- cc_directory, faults <- cc_faults,
    pc <- cc_pc, cause <- cc_cause, selection <- cc_selection,
    plan <- cc_plan, authority <- cc_authority, material <- cc_material,
    todo <- cc_todo, environment <- cc_environment, io <- cc_io,
    patterns <- cc_patterns, session <- cc_session, seen <- cc_seen

-----------------------------------------------------------------------------
(* Redaction of a terminal and of what is sealed.                        *)

CONSTANTS
    cr_MaxByte, cr_Preferred, cr_Secrets, cr_MaxChunk, cr_MaxInput

VARIABLES
    cr_patterns, cr_fed, cr_pending, cr_stable, cr_phase, cr_text,
    cr_offsets, cr_position, cr_matched

cr == <<cr_patterns, cr_fed, cr_pending, cr_stable, cr_phase, cr_text,
        cr_offsets, cr_position, cr_matched>>

Redactor == INSTANCE CredentialRedactor WITH
    MaxByte <- cr_MaxByte, Preferred <- cr_Preferred, Secrets <- cr_Secrets,
    MaxChunk <- cr_MaxChunk, MaxInput <- cr_MaxInput,
    patterns <- cr_patterns, fed <- cr_fed, pending <- cr_pending,
    stable <- cr_stable, phase <- cr_phase, text <- cr_text,
    offsets <- cr_offsets, position <- cr_position, matched <- cr_matched

-----------------------------------------------------------------------------
(* Collecting and sealing the declared files.                            *)

CONSTANTS
    rs_Files, rs_MaxFile, rs_MaxTotal, rs_MaxLength, rs_MaxWrites

VARIABLES
    rs_disk, rs_writes, rs_phase, rs_terminal, rs_reading, rs_collected,
    rs_missing, rs_rejection, rs_reserved, rs_result

rs == <<rs_disk, rs_writes, rs_phase, rs_terminal, rs_reading, rs_collected,
        rs_missing, rs_rejection, rs_reserved, rs_result>>

Sealing == INSTANCE ResultSealing WITH
    Files <- rs_Files, MaxFile <- rs_MaxFile, MaxTotal <- rs_MaxTotal,
    MaxLength <- rs_MaxLength, MaxWrites <- rs_MaxWrites, disk <- rs_disk,
    writes <- rs_writes, phase <- rs_phase, terminal <- rs_terminal,
    reading <- rs_reading, collected <- rs_collected, missing <- rs_missing,
    rejection <- rs_rejection, reserved <- rs_reserved, result <- rs_result

-----------------------------------------------------------------------------
(* A lifecycle command, and what its output says.                        *)

CONSTANTS
    lc_Contracts, lc_Aliases, lc_Identities, lc_Fold, lc_Searches,
    lc_MaxSearch, lc_Endings, lc_Outputs, lc_Directories, lc_MaxWork,
    lc_MaxChanges, lc_MaxReplacements

VARIABLES
    lc_profiles, lc_revision, lc_directory, lc_executable, lc_changes, lc_pc,
    lc_plan, lc_path, lc_bound, lc_result, lc_ran, lc_shown, lc_past

lc == <<lc_profiles, lc_revision, lc_directory, lc_executable, lc_changes,
        lc_pc, lc_plan, lc_path, lc_bound, lc_result, lc_ran, lc_shown,
        lc_past>>

Lifecycle == INSTANCE LifecycleCommand WITH
    Contracts <- lc_Contracts, Aliases <- lc_Aliases,
    Identities <- lc_Identities, Fold <- lc_Fold, Searches <- lc_Searches,
    MaxSearch <- lc_MaxSearch, Endings <- lc_Endings, Outputs <- lc_Outputs,
    Directories <- lc_Directories, MaxWork <- lc_MaxWork,
    MaxChanges <- lc_MaxChanges, MaxReplacements <- lc_MaxReplacements,
    profiles <- lc_profiles, revision <- lc_revision,
    directory <- lc_directory, executable <- lc_executable,
    changes <- lc_changes, pc <- lc_pc, plan <- lc_plan, path <- lc_path,
    bound <- lc_bound, result <- lc_result, ran <- lc_ran,
    shown <- lc_shown, past <- lc_past

-----------------------------------------------------------------------------
(* What is asked, approved and recorded of one call.                     *)

CONSTANTS
    ac_Invocations, ac_Floor, ac_Evidence, ac_MaxItems

VARIABLES
    ac_invocation, ac_issued, ac_accepted, ac_phase, ac_receipt, ac_answer

ac == <<ac_invocation, ac_issued, ac_accepted, ac_phase, ac_receipt,
        ac_answer>>

Authorized == INSTANCE AuthorizedCall WITH
    Invocations <- ac_Invocations, Floor <- ac_Floor,
    Evidence <- ac_Evidence, MaxItems <- ac_MaxItems,
    invocation <- ac_invocation, issued <- ac_issued,
    accepted <- ac_accepted, phase <- ac_phase, receipt <- ac_receipt,
    answer <- ac_answer

-----------------------------------------------------------------------------
(* Records that are kept of a call.                                      *)

CONSTANTS
    cp_Bytes, cp_Marker, cp_Secrets, cp_Drafts, cp_MaxOffered,
    cp_MaxRecords, cp_MaxInput, cp_MaxTotal, cp_Used, cp_Plans

VARIABLES
    cp_patterns, cp_plan, cp_drafts, cp_shown, cp_batch, cp_receipt,
    cp_failure, cp_phase

cp == <<cp_patterns, cp_plan, cp_drafts, cp_shown, cp_batch, cp_receipt,
        cp_failure, cp_phase>>

Persisted == INSTANCE CallPersistence WITH
    Bytes <- cp_Bytes, Marker <- cp_Marker, Secrets <- cp_Secrets,
    Drafts <- cp_Drafts, MaxOffered <- cp_MaxOffered,
    MaxRecords <- cp_MaxRecords, MaxInput <- cp_MaxInput,
    MaxTotal <- cp_MaxTotal, Used <- cp_Used, Plans <- cp_Plans,
    patterns <- cp_patterns, plan <- cp_plan, drafts <- cp_drafts,
    shown <- cp_shown, batch <- cp_batch, receipt <- cp_receipt,
    failure <- cp_failure, phase <- cp_phase

-----------------------------------------------------------------------------
(* A jail is built, audited, staged and launched while files change.       *)

CONSTANTS
    pj_MaxTree, pj_MaxLinks, pj_Version, pj_Hosts, pj_Installed,
    pj_Changes, pj_MaxChanges, pj_HardLimits, pj_Limits, pj_Ceilings,
    pj_MinBrokered, pj_Brokers, pj_Forbidden, pj_Declarations, pj_Stagers,
    pj_Inputs, pj_Helpers, pj_LauncherPaths, pj_Candidates, pj_Needed,
    pj_Bundles, pj_System, pj_Programs, pj_Contract, pj_Work, pj_Snapshot

VARIABLES
    pj_platform, pj_facts, pj_changed, pj_hard, pj_reading, pj_jail,
    pj_found, pj_declared, pj_work, pj_folder, pj_stage, pj_launched

pj == <<pj_platform, pj_facts, pj_changed, pj_hard, pj_reading, pj_jail,
        pj_found, pj_declared, pj_work, pj_folder, pj_stage, pj_launched>>

Jail == INSTANCE ProcessJail WITH
    MaxTree <- pj_MaxTree, MaxLinks <- pj_MaxLinks, Version <- pj_Version,
    Hosts <- pj_Hosts, Installed <- pj_Installed, Changes <- pj_Changes,
    MaxChanges <- pj_MaxChanges, HardLimits <- pj_HardLimits,
    Limits <- pj_Limits, Ceilings <- pj_Ceilings,
    MinBrokered <- pj_MinBrokered, Brokers <- pj_Brokers,
    Forbidden <- pj_Forbidden, Declarations <- pj_Declarations,
    Stagers <- pj_Stagers, Inputs <- pj_Inputs, Helpers <- pj_Helpers,
    LauncherPaths <- pj_LauncherPaths, Candidates <- pj_Candidates,
    Needed <- pj_Needed, Bundles <- pj_Bundles, System <- pj_System,
    Programs <- pj_Programs, Contract <- pj_Contract, Work <- pj_Work,
    Snapshot <- pj_Snapshot, platform <- pj_platform, facts <- pj_facts,
    changed <- pj_changed, hard <- pj_hard, reading <- pj_reading,
    jail <- pj_jail, found <- pj_found, declared <- pj_declared,
    work <- pj_work, folder <- pj_folder, stage <- pj_stage,
    launched <- pj_launched

-----------------------------------------------------------------------------
(* The assumptions of the parts, and their properties.                     *)

ASSUME ComponentAssumption ==
    /\ Store!StoreAssumption
    /\ Scratch!ScratchAssumption
    /\ Scratch!OneRecoverer
    /\ Forwarder!ForwarderAssumption
    /\ Status!ChannelAssumption
    /\ Authority!AuthorityAssumption
    /\ Intent!IntentAssumption
    /\ Members!MembersAssumption
    /\ Members!HopsAreFew
    /\ Credentials!ContractAssumption
    /\ Credentials!CallAssumption
    /\ Redactor!RedactorAssumption
    /\ Sealing!SealingAssumption
    /\ Lifecycle!CommandAssumption
    /\ Authorized!CallsAssumption
    /\ Persisted!PersistenceAssumption
    /\ Jail!JailAssumption

\* What a caller was told is in the profile registry is still there after a
\* crash or a loss of power, or was changed by a later success (mutate).
AcknowledgedSurvives == part = "store" => Store!AcknowledgedSurvives

\* No writer of the profile registry publishes over a change it has not read,
\* unless its lock was replaced after its last look at it (mutate).
NoLostUpdate == [][part = "store" => Store!ReplacesWhatItRead]_ps

\* No session, recovery or other process removes the credential files of a
\* running call (recover_stale_sessions, cleanup).
SessionsKeepTheirFiles == part = "scratch" => Scratch!SessionsKeepTheirFiles

\* The channels of a jail tell the truth: the relay passes on the end of a stream
\* behind all its bytes and the drain delivers what the command had sent (pump,
\* drain_outbound), and a reported refusal means that the command never ran,
\* whatever it wrote to the channel itself (JailExecStatus).
ChannelsTellTheTruth ==
    /\ part = "forwarder" => Forwarder!RelayLosesNothing
    /\ part = "status" => Status!RefusalMeansNothingRan

\* The file and the directory that are launched are those that were bound
\* (snapshot, open_handle).
LaunchIsWhatWasBound == part = "authority" => Authority!LaunchIsWhatWasBound

\* A member of a jail that is still alive can still be found (exec_roots, and
\* the scans that end a jail).
SurvivorsKeepTheirSentinel == part = "members" => Members!SurvivorsKeepTheirSentinel

\* The process that starts is the one its contract describes, within the host's
\* policy and the jail (GovernedExecutionIntent, with_authority).
ProcessFitsItsContract == part = "intent" => Intent!ProcessFitsItsContract

\* The command is given the directory of the profile that was selected, at the
\* revision it was selected with (resolve, materialize_credential_io_inner);
\* whatever is delivered to it is a pattern of the redactor; and a contract the
\* validator accepted is one the injection compiler accepts.
CredentialsAreAsSelected ==
    part = "credentials" =>
        /\ Credentials!OneProfileThroughout
        /\ Credentials!DeliveredIsRedacted
        /\ Credentials!AcceptedContractsCompile

\* What is let out or sealed shows no credential and loses nothing else
\* (redact_governed_segments_owned, drain_stable), and a sealed artifact is one
\* content the file had at one moment, paid for from the budget for results
\* (collect_raw, seal_batch).
OutputIsExact ==
    /\ part = "redactor" => Redactor!RedactionIsExact
    /\ part = "sealing" => Sealing!ArtifactsAreSnapshots

\* A profile is called ready only on the word of the command that was bound
\* (with_bound_process, evaluate_lifecycle_status).
ReadyIsEarned == part = "lifecycle" => Lifecycle!ReadyIsEarned

\* An approval covers the request it was given for and no other, and the
\* receipt of a call tells one story (authorization_matches,
\* audit_execution_error).
ApprovalCoversTheCall ==
    part = "authorized" => Authorized!ApprovalIsForThisCall /\ Authorized!ReceiptTellsOneStory

\* No credential is in what is kept or shown of a call, and nothing else is
\* lost from it (seal_credential_persistence, redact).
RecordsAreSafe ==
    part = "persisted" => Persisted!RecordsAreSafeAndWhole /\ Persisted!ShownIsSafe

\* What is launched is what the jail says of itself and what its locked identity
\* binds, and what was staged for it is within the limits it will be held to
\* (GovernedProcessJail::build, command, profile_identity, stage_input_file).
JailKeepsItsAudit ==
    part = "jail" => Jail!LaunchKeepsTheAudit /\ Jail!LaunchIsAsLocked /\ Jail!StagedInputsFit
=============================================================================
