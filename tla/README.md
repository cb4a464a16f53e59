# A specification of MagicRun's governed runtime

`tool-runtime-core` is the library that runs external tools for a host: it
reads what a skill declares, admits one command at a time, gives it scoped
credentials, runs it in a process group or a jail of its own, and settles what
happened with an audit receipt. Beside the commands stand the *logins* that make
credentials usable (at most one per target), a *registry* of profiles on disk,
and a *cache* of what probes found out about readiness. All of it is called from
many threads of one process, and it works with children, pipes, files and clocks
that nobody controls.

This directory holds TLA+ modules of that library, configurations that check
them with TLC on small instances, and proofs that TLAPS checks for every value
of the constants. Source paths below are relative to `src/tool-runtime-core/src/`.

- [Inventory](#inventory)
- [Modules and how they correspond to the code](#modules-and-how-they-correspond-to-the-code)
- [Runs, bounds and fairness](#runs-bounds-and-fairness)
- [Where the code and its documentation disagree](#where-the-code-and-its-documentation-disagree)
- [Observations without a run](#observations-without-a-run)
- [Proofs](#proofs)
- [Assumptions](#assumptions)
- [What is not modelled](#what-is-not-modelled)
- [Plan](#plan)

## Inventory

| Component | State it keeps | Operations | Talks to |
|---|---|---|---|
| Login leases, `credential_lifecycle_coordinator.rs` | process-wide set of epochs and an instance counter; per coordinator a map target -> lease (state, revision, deadlines) and a sequence counter | `new`, `begin_login`, `publish_pending`, `resume`, `heartbeat`, `request_cancel`, `complete`, `stale_recovery_tickets`, `finish_stale_recovery`, `Drop` | invalidates the status cache inside `begin_login`, lock within lock |
| Status cache, `credential_status_cache.rs` | one map target -> readiness under an epoch, a policy revision and a mutation generation | `begin_observation`, `store_ready`, `lookup`, four invalidations, `replace_process_epoch`, `replace_policy_revision` | revalidates scoped paths, outside its lock |
| Scoped paths, `scoped_paths.rs` | the identity a capability was issued for | open the container, issue, `revalidate`, open a revalidated directory | file system, cache, lifecycle commands |
| Profile registry and selection, `credential_profiles.rs`, `credential_profile_store.rs`, `profile_selection.rs` | a JSON file with revisions, its mutex and its file lock | load, put, update, default, disable, remove, select | other processes, power |
| Process admission, `governed_batch_process.rs`, `governed_execution_result.rs` | four process-wide atomics: active runs, output, results, memory | `acquire`, drop, `into_output_retention`, shrink, artifact retention | batch and PTY execution, result sealing |
| Batch execution, `governed_batch_process.rs` | a child and its group, two reader threads, a stdin writer, a bounded channel, the retained output | `execute_until`: admit, spawn, collect, terminate, reap, join | kernel, caller's cancellation, jail |
| PTY execution, `governed_pty_process.rs` | the same on one terminal, two bounded queues, a host bridge on the collecting thread | `execute_until` | host bridge |
| Execution contract and coordinator, `governed_execution.rs`, `governed_execution_coordinator.rs` | a compiled intent; per call admission, observed dispatch and terminal; per thread a reentry flag | compile, admit, `execute` | authorizer, resolver, process owner and audit sink, all of them callbacks of the host |
| Credentials of a call, `credential_preparation.rs`, `credential_injection.rs`, `credential_materialization.rs`, `credential_filesystem.rs`, `credential_persistence.rs` | plan, material, redaction patterns; the scratch directory of a call and the lease on its container | prepare, resolve, inject, redact, persist, clean up, recover at bootstrap | coordinator, file system |
| Result sealing, `governed_execution_result.rs` | retained bytes | collect, redact, seal | process admission |
| Execution authority, `governed_execution_authority.rs` | identities of executable and directories | resolve, bind, revalidate, snapshot, open | batch, PTY |
| Process jail, `governed_process_jail*` | what was found on the host, staged inputs, sentinel and members; the relay's connections; a report channel | build, discover an interpreter, declare exec roots, stage, launch, sweep, teardown, relay | kernel, batch |
| Lifecycle commands, `credential_lifecycle*.rs` | a bound process and what it may report | plan, bind, `with_bound_process`, evaluate | leases, cache, scoped paths |
| Skill packages, `manifest*.rs`, `action_overrides.rs`, `mcp_catalog_*.rs` | none after loading | parse, validate, compile, lower, discover, project | everything above takes a contract from here |
| Strategies, `strategy_adapter.rs`, `browser_profile_adapter.rs`, `native_permission_adapter.rs` | a revision, the last observation, a prepared dispatch | bind, observe, dispatch, retry, invalidate | owner of the session, outside |
| Migration instruments, `inventory.rs`, `classification.rs`, `replay.rs`, ... | reports | scan, compile, compare | source tree |

What is hard here, and what makes each component correct:

- *Leases.* Several threads hold clones of one coordinator, each with a clock
  reading taken before it got the lock. Owner, canceller and recovery sweep race;
  handles and tickets outlive the lease they name; counters end. Correct means:
  one login per epoch and target whatever happens to coordinator objects, no late
  success, identities that are never reused, revisions that name one state.
- *Cache.* A probe runs for seconds between two critical sections. Correct means
  that no probe brings back readiness that was invalidated meanwhile, and that a
  login never runs beside readiness found before it.
- *Registry.* A crash between staging, rename and sync; two processes; a lock
  taken on a path that may be replaced. Correct means that what was acknowledged
  survives, that no update is lost, and that the store stays readable.
- *Admission.* Four atomics taken one after the other with rollback, a
  permit that turns into another guard. Correct means that nothing leaks, nothing
  is given back twice, and that the four look like one.
- *Batch and PTY.* Exit, end of file, the last chunk, cancellation, the deadline,
  callbacks and failures of threads come in any order. Correct means that an exit is
  reported with all its output, that nothing survives the call, and that it returns.
- *Coordinator.* Every step is somebody else's callback, which may fail, panic, be
  slow or call back. Correct means that nobody is told "not dispatched" when the
  command ran, that an approval covers the request it was given for, and that
  success includes the removal of credentials.
- *Credentials.* A secret may be cut by chunks and record boundaries, the profile
  may be edited or its directory replaced, cleanup may fail or never happen.
  Correct means that the command gets the profile that was selected, that
  what it prints shows no credential and loses nothing else, and that recovery
  removes what is left behind and nothing of a running call.
- *Authority and jail.* The host's files change between every look and the use.
  Correct means that what is launched is what was bound, audited and staged, and
  that a member still alive can still be found.
- *Packages and strategies.* Several readers and compilers look at one text, and
  owners of sessions report late. Correct means that they agree, that refinement
  only narrows, and that nothing is delegated to a session that was replaced.

## Modules and how they correspond to the code

`PROJECT.json` maps every definition to its lines. A definition named like its
Rust function is that function; where a call gives up its lock in the middle, or
does several atomic accesses, or reads a file system that others write, it is
several actions in a row.

### Logins and readiness

**`LifecycleCoordinator`** (abstract: **`ExclusiveLogin`**). `phase`, `instance`,
`next_sequence` and `leases` are the fields of a coordinator object,
`active_epochs` and `next_instance` the two statics behind `new`. Construction is
two steps (`RegisterEpoch`, `TakeInstance`), because the code releases the first
lock before it takes an instance; a construction that fails there gives its epoch
back (`InstanceExhausted`). `handles` and `tickets` are all that were
handed out, any of which a caller may present at any time, also to another
coordinator; a consumed ticket is moved, so it leaves the set. `now` is the
caller's: any reading up to the clock. `ticketed`, `cancelled`, `succeeded` are
history variables. Clones of one coordinator share its object and are not told
apart. `ExclusiveLogin` says what the host relies on without coordinators,
revisions or clocks.

**`StatusCache`**. A call is a thread's `stage` and `call`: `begin_observation`
revalidates (`StartObservation`), takes its ticket under the lock (`TakeTicket`),
the probe runs, `store_ready` revalidates (`RevalidateStore`) and stores under the
lock (`StoreReady`); `lookup` is `StartLookup`, `Lookup`, and, when the directory
fails, a second critical section (`InvalidateRejected`). A directory is the
sequence of inodes it has had, a handle its position in that sequence, and
`revalidate` compares inode numbers, not incarnations, as the code does. The
generation wraps and skips zero. `outdated` (probes overtaken by an
invalidation) and `lapped` (probes that outlived every generation) are history.

**`AuthStatus`** puts both together. `begin_login` and the cache's invalidation
are one action, since the coordinator calls the cache under its own lock;
`LoginIdExhausted` is the same call failing after the invalidation. Everything
else is an action of one module with the other unchanged. `seen` and `witness`
record the logins a probe, and the entry made from it, knew about.

**`LifecycleCommand`** is one status, login, refresh or logout command: planned
for a profile or an implicit account (`PlanProfile`, `PlanImplicit`), bound
(`Bind`), its executable searched in the PATH and digested, everything looked at
again before and after the run. The environment edits profiles, replaces the
directory and the executable. A directory is its identity (device, inode and owner), which
may be one that was there before; the identity of an executable has its change time in it.
`ran` lists the directories that were at the path from the look before the command to the
look after it, and the property is about those two looks. JSON output is what the rules ask of it.

**`ScopedPaths`** walks below the container one component at a time, each looked
at by its name and by what the path so far resolves to (`walk`), while `Swap`,
`Alter` and `Crowd` rename, replace and change modes; `handles` are what was issued,
`pinned` what was opened.

### Profiles

**`ProfileStore`** has the steps of one mutation: mutex (`local_write`), lock
file (`lock_file` is the inode its name stands for, `holder` who locked which),
read, check, stage, sync, rename, sync of the directory. `survivors` is what a
loss of power may leave. Processes crash, power fails, and somebody may replace
the lock file. `acked`, `usurped`, `contested` and `outrun` are history: what
callers were told, and who wrote after its lock had been replaced.
**`ProfileRegistry`** has every operation of the registry and the selection of a
profile as one step each, with the validation that a write and a read go through.

### A call

**`ExecutionIntent`** compiles a contract and a host policy, admits requests,
matches the intent with the mode of the invocation and gives the process its
limits, while the skill's file may be edited between any two of these.

**`GovernedExecution`** is one `execute`: admission (`BuildRequest` to
`CheckAuthority`), preparation (`Resolve`, `Resolved`), materialization, `Bind`
and `Execute` of the process owner, sealing, cleanup, `Record`. The host's
callbacks answer in every way their type allows, including panics where the code
catches them. `CallBack` is a callback that calls `execute` on the same thread.
`ran` is what really happened to the command; `dispatch_observed` and
`terminal_observed` are the cells the code remembers it in; `receipt`, `answer`
and `returned` are what the sink and the caller are told.
**`AuthorizedCall`** has the data that one leaves out: the digest (the sequence of
what is hashed), the evidence, the policy floor, every field of the receipt.

**`CredentialCall`** follows the credentials from the contract (accepted by
**`RuntimeContract`** and **`InlineCode`**, the validator, out of those a file can
declare, `Declarable`) over selection, plan,
authority and material to environment, stdin and files of the command, and what
the redactor is told of them, while the profile is revised and its directory
replaced, also by one with the same identity, or put back; `seen` lists the identities behind
its name between the look before the command and the one after it. **`CredentialScratch`** is the container of the scratch
directories of two processes with the lease on it, sessions, cleanup
that fails, `Drop`, recovery, and crashes. **`CredentialRedactor`** lets
output out chunk by chunk and redacts what it held back in place;
**`CallPersistence`** redacts a batch of records as one text and seals the receipt.
**`ResultSealing`** reads the declared files in halves while survivors write them,
each write numbered, and pays for them from the retention.

**`ProcessPermit`** (abstract: **`ProcessBudget`**). `step` says how far a run has
come in `acquire`, in a drop or in a conversion; every step accesses one counter
once. `Owes` says which counters a run at that step still has to give back. The
artifact retention of the result collector draws on the same counter and is part
of the module. `ProcessBudget` grants a request at once or not at all.

**`BatchProcess`**. `pc` is the collecting thread in `execute_until`, `spawn` and
`collect`; `reader[s]` the two reader threads, `writer` the stdin writer, `queue`
the `sync_channel`, `receiver` whether its receiving end exists. The process tree
moves by itself: members are started and end, one may leave the group with the
streams in `EscapedTo`, output is written in chunks and may be closed early, the
leader exits by itself or by a signal. `group` says whom the group id names.
Failures of thread starts, reads, descriptor clones, of the memory sample and of the wait
for the leader (`WaitFails`) are disjuncts; the last returns at once and drops the threads' handles (`Abandons`). Two rules of the kernel are built in: a pipe ends when its last writer
closed it, and an id is not reused while its leader is unreaped or a member lives.
**`PtyProcess`** is the interactive counterpart, with one terminal, the input and
output queues and the bridge, which types, resizes, cancels, fails or panics.

**`ExecutionAuthority`**: files are sequences of blocks with a change time,
`name` and `link` say what paths resolve to, `chain` is the directory and its
ancestors; `Resolve` to `Bound` bind, `Snapshot` to `OpenHandle` look again, copy
and open, `Launch` runs. Meanwhile files are written, renamed over and
directories remade, also with the inode number of the old one (`born`).

### The jail

**`ProcessJail`**: the files of a host as a jail looks at them, reading and building a jail, discovering an
interpreter, declaring exec roots, staging inputs by several threads against one
quota, and the launch as the list of rules (macOS, last applicable decides) or of
mounts (Linux, last hides the others) it consists of, on a host whose files
change; `ProfileIdentity` is what a reviewer locks of it without a host. **`JailMembers`**: a scan lists processes and looks at them one by one
later, while they fork, exit and give their ids to others; `QuietScans` scans must
find none. `owner` and `sentinel` are what a sweep by another host finds.
**`JailExecStatus`**: the shim's report (`channel`), what the command itself forges
onto it, and what the runner concludes. **`EgressForwarder`**: `pc` is the loop
of the relay (loop, pump, sweep, drain), `conn`, `peer` and `pipe` its connections
and the two ends.

### Packages, catalogs and strategies

**`SkillPackage`** has the scanners and the parser of `SKILL.md` look at the same lines
and the YAML behind them. **`TypedActions`** compiles a typed action
against its contract and lowers one invocation of it. **`McpCatalog`** compiles a discovery
policy, decides on discovered tools and projects the five actions.
**`StrategyAdapter`** binds a session that somebody else owns: `owner` is what
there is, `observation`, `flight` and `status` what the host believes of it,
late. **`Classification`** and **`SourceInventory`** are the reports on
a tree of skills: `source` is what the files say, `inventory` what a scan made of them, `Edit`
an author at work. On the second stands the replay: `BeginReplay` scans again and joins that with a
classification, `CompileSkill` reads one skill once more and makes its fixtures, `FinishReplay`
publishes the catalog or refuses it. Of the configuration types, only what these read is there.

### Composites

**`Components`** declares constants and variables for fourteen modules at once (store, scratch,
forwarder, status, authority, intent, members, credentials, redactor, sealing, lifecycle, authorized,
persisted and jail), instantiates each, and names their properties, so that runs and proofs mean the
same formulas; **`Decisions`** does so for five outside of a call (strategies, profiles, scoped
paths, packages, catalogs). **`MCComponents`** extends the first and `GovernedExecution`, gives the
constants values; **`MCDecisions`** extends `Decisions` and `AuthStatus`
and instantiates three more. The variable `part` (`subject` in the second) picks one of them in the initial state; its
steps run and the others stand still. The parts of a composite do not interact through it: they
share a run because each is an instance that ends by itself. Interaction is where the
code has it: cache and coordinator in `AuthStatus`, permit and retention in
`ProcessPermit`, contract, registry, directory and scratch in `CredentialCall`,
process and reading in `ResultSealing`, skill, policy and mode in `ExecutionIntent`.

Definitions such as `AdmitsAny` next to `Admits` are slips of that definition
which each property is tried against.

## Runs, bounds and fairness

| Run | Expect | What it shows | Bounds, and why they are enough |
|---|---|---|---|
| `lifecycle_leases` | pass | leases, revisions, tickets and recovery; refinement of `ExclusiveLogin` | two coordinators over one epoch and one target: all conflicts are about a pair on one slot; three instances and sequences let each object be made again and each counter end; a clock of 3 with idle limit 2 and deadline 3 reaches both kinds of staleness and readings from before them |
| `lifecycle_ticket` | violation | a second ticket for one login | one coordinator; revision 5 admits the four steps |
| `status_cache` | pass | no resurrection, entries under the authority in force | two threads, two targets sharing a directory, room for one entry, two epochs and policies, one replacement of the directory, three generations so that they wrap |
| `scoped_path_reuse` | violation | inode reuse goes unnoticed | as above, one epoch |
| `process_permit` | pass | counters exact; refinement of `ProcessBudget` | three runs: one holds, one is refused and undoes, one looks in between; requests with and without memory, limits any two runs can reach |
| `batch_process` | pass | nothing survives, exit with all output, exit beats cancellation, the call returns | channel depth 1 (the code's is 32) so that readers block; stdout writes one chunk more than is retained, stderr none; stdin and a watched ceiling on; any wait may fail (`WaitsFail`, off in the next two) |
| `batch_signal` | violation | a signal after reaping | no escape |
| `batch_drain` | violation | no deadline after reaping | a descendant that keeps stdout |
| `pty_process` | pass | an answer for the process there was, and the call returns | two writes against one retained, queues of depth 1, one input, one idle period: both queues fill, and the idle timer races everything once |
| `components` | pass | the components of a call | see below |
| `decisions` | pass | readiness after login, and what is decided outside of a call | see below |
| `executable_search` | violation | the search of the PATH ends early | the commands of `MCComponents` alone; a PATH of two entries, the CLI in the second |

The parts of `components`:

- *call* — one call: calls share no state but the thread's flag; a panic, a refusal
  and an expiry may all happen in it.
- *store* — two writers, on one registry object or on two, one crash or loss of power,
  one replacement of the lock file: a lost update takes two, and history shows
  whose lock was replaced.
- *scratch* — two processes, one with two threads, two names, two failed removals, one crash.
- *forwarder* — two clients, room for one, a buffer of one byte, one client sends:
  a connection waits while another is drained.
- *status* — two forged bytes: one more than a report.
- *redactor*, *persisted* — an alphabet of three bytes, one of them preferred as the
  replacement, secrets of up to three bytes that overlap, repeat and contain each other or the
  marker; input of four in chunks of two, or up to three drafts where two may be kept.
- *sealing* — two files of two bytes against a total of three, three writes.
- *credentials* — every contract of one secret, two secrets, a profile, or both, over every
  target, with one revision, one failed write, two identities of directories and two replacements: one
  moved away and back, and one made anew under the same inode, both happen while the command runs.
- *authority* — two files of two blocks, two names, a directory and its parent with three
  inodes, three changes, which is what a swap and its undoing take.
- *lifecycle* — five contracts, PATHs of up to three entries of which two are
  looked at, two spellings of an identity, one edit of profile or executable at any moment, two identities of
  directories and two replacements, as above.
- *intent* — thirteen contracts, four policies, each request field at its limit and one
  beyond, one edit.
- *authorized* — pairs of requests that differ in every field, and where words move
  from one list to the next.
- *jail* — a macOS and two Linux hosts (with user namespaces and without; where there are some the limit of
  tasks may be lowered), one change among nine, two threads staging two inputs; trees of four entries, and
  paths through two links.
- *members* — two process ids for four processes, so that ids are reused; two
  members that hide between list and look, and two looks that fail, against three confirming scans.

The parts of `decisions`:

- *logins* — two coordinators, which are only compared for equality (symmetry), one target, two
  epochs, one probing thread against two contracts; the generation does not wrap here (`BelowWrap`), it does in `status_cache`.
- *typed* — families of packages that vary one thing each (paths, parameters, controls,
  rules), the source's `MAX_...` constants replaced by small ones (`Limits`) that values reach and pass.
- *package* — every file of up to four lines of ten kinds, and every tree of the
  metadata with one entry changed.
- *mcp* — every subset of five tools with nested, equal and unportable names.
- *strategy* — three contracts, three revisions, one status in flight, one retry.
- *profiles* — four keys, two revisions, a configured reference beside stored ones.
- *scoped* — three directories of which two are asked for, two changes: a change
  and its undoing between two looks.
- *classified*, *inventory* — up to two groups of each list; three entries, one of
  them with a name that is not safe. A replay sees one edit at any moment, classifications that fit
  and that do not, and limits that two fixtures or three aliases reach.

Two targets and one entry are enough for the cache because an operation concerns
one target or all of them; three runs for admission because a counter is
changed by one run at a time and the proof below removes the bound. The counters
that bound the environment (`MaxChanges`, `MaxCrashes`, `MaxFaults`, `MaxWrites`,
`StdoutWrites`, ...) limit how often something happens, never when.

Deadlock is checked in `status_cache` and `process_permit`, which go on for
ever. `Tick` and the counters stop at their bounds in the lifecycle runs, a call ends
in `BatchProcess` and `PtyProcess`, and the parts of the composites end with their
story; those configurations turn the check off.

*Fairness* is stated in two modules. In `BatchProcess` the collector and each
reader are weakly fair (they are threads that poll every few milliseconds and block in
nothing that is not modelled), and the writer once it was told to stop or nobody is left to read
from it (a broken pipe). In
`PtyProcess` the collector, the reader and the writer are, and the bridge, whose hooks
are given the deadline to apply it to what they wait for. Nothing is assumed of the process tree, of the caller,
of the idle timer or of the clock. Under that `CallReturns` holds: once cancelled, expired or
ended the batch call returns, unless a process took the output out of the group;
and `PtyReturns`: once cancelled or expired the interactive call returns.

## Where the code and its documentation disagree

Five runs state a sentence of the repository as a property, and TLC finds the
behaviour of the code that violates it (`PROJECT.json`, "findings", quotes each).

1. `lifecycle_ticket`: "a ticket is issued once", but `request_cancel` has no
   check for `RecoveryRequired`, and with a clock reading from before the sweep it
   moves the lease back to `Cancelling`; the next sweep issues another ticket. The
   first one is refused for its revision afterwards, so the recovery is finished
   once, by either.
2. `scoped_path_reuse`: `revalidate` is said to reject replacement, and compares
   device, inode and owner, which a new directory may share with the old one.
3. `batch_signal`: `terminate_and_reap` signals the remembered group id also when
   the leader has been reaped, after an output overflow or a failed read.
4. `batch_drain`: cancellation and deadline are looked at only while the leader is
   unreaped; a descendant outside the group that holds stdout open keeps the
   call waiting past its deadline.
5. `executable_search`: the search of the clean PATH is meant to go on past an
   entry that lacks the CLI (it continues on `NotFound`), but `canonicalize` fails
   first there and ends it as an unsafe executable.

## Observations without a run

Met while modelling. They are modelled as the code behaves, or lie outside a
model, and are written down for whoever changes this code next.

- *Scratch recovery.* It is said to refuse to run while the process owns a session
  (`credential_filesystem.rs:298`), and it looks once: the lock is dropped at :328, before
  anything is removed. Sessions that start then keep their files (`SessionsKeepTheirFiles`)
  as long as one recovery runs at a time in a process (`OneRecoverer`). With two, one may have listed
  a name which the other removes and a new session then takes, and remove that session's directory.
  The function is "Bootstrap-only" (:298), and nothing keeps a second caller out. This came out of the
  proof: the invariant was not inductive without that assumption.
- *Injection.* The comment at `credential_injection.rs:339-342` says that fixed names cannot
  shadow anything, since the validator refuses those that are also injection targets;
  `manifest_validation.rs:484-489` compares environment targets only, and the variable of a
  config-directory target may have a fixed name.
- *Batch wait.* A `try_wait` that fails in the loop returns past the end of `collect`
  (`governed_batch_process.rs:825`, :865, :881): the guard ends the group and the leader, but the readers and the
  writer are neither told to stop nor joined. They end when their pipes do or a send finds no receiver, so a process
  that left the group with the output open keeps a reader alive after the call. `NothingSurvives` says of threads only
  what holds: they have ended, or the call has nothing to answer with for that reason.
- *Profile directories.* They are compared by device, inode and owner (`scoped_paths.rs:455-463`,
  `credential_filesystem.rs:595-616`) at the looks before and after a command
  (`credential_materialization.rs:1421-1423`, `credential_lifecycle_execution.rs:373-376`). One that is moved away while
  the command runs and put back, or made anew under the same inode, is not noticed, although `revalidate` is to "reject
  replacement since issuance" (see `scoped_path_reuse`): a successful call, or a "ready", may come from another
  directory. Both happen in the runs; `OneProfileThroughout` and `ReadyIsEarned` claim the two looks and nothing in between.
- *Jail staging.* Files are counted against `max_files` before the directory `in/` is made
  (`governed_process_jail.rs:1077-1081`, :1095), so that with exec roots the first input may
  take one entry more than the limit, although an input "counts against the jail's file ceilings exactly as the
  child's own files do" (:1049-1050). `StagedInputsFit` says so: `folder` is outside of the count.
- *Jail helper.* The helper's bytes are digested (2133-2155) before its identity is taken (:751).
  One replaced in between runs under the digest of the other, although "the helper whose digest the
  audit reports is the one that runs" (:1469-1471). The audit of the model has that digest, and `seen` which file it
  was made of: `LaunchKeepsTheAudit` says that the helper which runs has the digest that is told, unless it was
  replaced just then.
- *Jail members.* A chain of forks and exits longer than the confirming scans is not
  seen; a sentinel whose owner record cannot be read is judged by its age, also when its owner runs.
- *Typed actions.* The projection of a mapping leaves out fixed and suffix
  arguments (`action_overrides.rs:2155-2208` against `:1445`), so that a compiled action
  may be refused at its declared maximum; routed authentication actions compare
  fixed arguments without the command prefix (`:1755-1773`).
- *Entrypoint.* `contract.compile` takes the first of `bins`, the synthesis the
  entrypoint if there is one.
- *Catalog defaults.* `timeout_default_secs` is not held against
  `MAX_RUNTIME_TIMEOUT_SECS` when the contract declares no limit
  (`manifest_parser.rs:432-440`, documentation `:127-130`); a default directory of "." is
  accepted by the catalog and refused by `validate_working_directory`.
- *Scanners.* A blank line ends a block scalar for `validate_block_depth` and
  `reject_yaml_references`, and not for `validate_yaml_shape`.
- *Names.* The parameter for a profile may be called like another control outside the MCP
  projection; local names of MCP tools are unique within one namespace only (`manifest_synthesis.rs:190`).
- *Strategies.* "Any profile/session replacement or readiness change" is said to
  invalidate a prepared dispatch (`browser_profile_adapter.rs:302`); a change of readiness that is undone
  within one revision of the session does not.
- *Registry.* Registries with different configured references may publish a store the
  other refuses, and a configured revision may coincide with a created one.
- *Approval.* The digest of a request does not bind the jail, the root of the working
  directory, the expected digest of the executable, baseline values or the artifact authority.
- *Receipts.* Failure receipts from before the execution name no jail; a cancelled
  command whose cleanup fails is recorded as failed execution with a cancelled terminal;
  `prepared_binding_count` counts planned bindings, provided or not.
- *Inventory.* A skill is active if its text contains `runtime_contract:`
  (`inventory.rs:263-266`); adapter files more than four levels down, profile parameters that are no
  strings and malformed timeouts are left out without a finding; several
  findings may share the key of one disposition.
- *Replay.* The sources are read again after the scan, skill by skill (`replay.rs:404`); what protects the
  join is that each fixture is held against the inventory. A governed command is not held
  against the provider it was classified for, and its program may be the skill's name where the
  inventory names `program`. Whether a profile is required is looked up under the name `profile`, whatever
  the parameter is called.
- *Locked jails.* The identity of a profile (`governed_process_jail.rs:2281-2460`) binds neither the process ceiling nor
  whether a trust bundle was found: it always has one.

## Proofs

TLAPS checks these for every number of coordinators, threads, targets, processes and
runs, and for every limit that satisfies the named assumptions (one in each module,
listed under [Assumptions](#assumptions)), which TLC evaluates in the runs.

- **`LifecycleCoordinator_proofs`**. Type correctness is inductive with one
  addition, that a coordinator holding leases is live. The safety properties are
  not: that two coordinators never run a login on one slot follows from the
  epoch registry only if one knows that no two coordinators with leases
  share an epoch, also after `Drop` (`OwnershipInv`); that identities are
  fresh, only if every instance given out is below `next_instance`, distinct, and
  every sequence used is below `next_sequence` (`IdentityInv`); that aborted
  logins never succeed, only if each is either gone or still marked
  (`HistoryInv`). `IInv` conjoins these; `Invariant` proves it, and `OneLogin`,
  `AbortIsFinal`, `IdentitiesAreFresh`, `RevisionsNameStates` and
  `TicketsFreeTheirLogin` follow. `Implementation` maps each step to a step of `ExclusiveLogin` or a stutter:
  a slot is an epoch and a target, its owner the lease that some coordinator of that epoch holds,
  at most one by `OwnershipInv`; construction, heartbeats, revisions and the clock are invisible.
- **`StatusCache_proofs`**. `AuthorityMatches` is inductive by itself.
  `ReadinessStaysDown` needs `GenerationInv`: a probe that was overtaken and not
  lapped holds a generation strictly less far behind the present one than a
  whole turn, counted with the wrap, so that the comparison in `store_ready` fails.
  `TypeCorrect` holds the bound of the cache.
- **`AuthStatus_proofs`**. `KeepsCoordinator` and `KeepsCache`: what is proved of
  either module holds of both together. `ReadinessIsFresh` relates their histories: a probe
  whose ticket is current has seen every login that occupies its target (`ProbesSeeLogins`), because
  a login that begins moves the generation on; no ticket is of a generation to come (`TicketsBehind`);
  so what `store_ready` lets pass is no older than any login. This holds while the generation does not wrap
  (`BelowWrap`); the wrap is the business of `StatusCache_proofs`.
  The module also has the five parts of `Decisions`, one invariant each.
  *Strategy*: an adapter is of the contract (`OwnerInv`), what was prepared is of a browser profile that
  has one (`PreparedInv`), every report under way is of the contract (`ReportsInv`), and an invocation that
  is said not to have been dispatched was not sent (`InvocationInv`). `DelegationStaysCurrent` follows.
  *Scoped*: a walk stands at a component of its path, begun for a directory that is issued or is not, as
  its purpose says (`WalkInv`); what was pinned stays what was issued (`IssuedInv`); and until the first
  change everything that was looked at is of the first tree (`Untouched`). `IssuedIsOpened` follows.
  *Profiles*: what file and configuration hold together is a snapshot, and the file is short enough to be
  read whole (`RegistryInv`); a write is published only when that stays so. One that changes a single key
  leaves a group which had a default and has one with the same, since there is one default at most in both.
  `RegistryKeepsReadable` follows.
  *Packages*: what was read of a file is what its text says (`SkillFileInv`), and parser and inventory scan the same
  fence. *Catalogs*: a catalog is what the contract compiled of a checked skill publishes of the last offer (`McpInv`); an
  effective policy only ever adds to what the skill asks for, so that a limit on it which the compiler checked for all
  tools is never met at discovery. `CatalogStaysReviewed` follows from both.
- **`ProcessPermit_proofs`**. `CountersAreExact` by counting units as elements of
  a set; from it that no counter underflows and that limits hold (`TypeCorrect`).
  `BudgetImplemented` maps each step to a step of `ProcessBudget` or a stutter: an
  acquire grants at its last reservation, undoing is invisible.
- **`GovernedExecution_proofs`**. `IInv` says for every point of the call what
  admission, the observed cells and `ran` have to do with each other
  (`AdmissionState`, `DispatchState`), that nothing is settled before `Record`, and
  that the audited receipt and answer agree (`SettledState`). Five properties follow. The module also has the three
  parts of `Components` that what a call prints and leaves behind passes through, one invariant each.
  *Redactor*: what was let out agrees with what was read but for bytes inside of secrets, which are the replacement, and
  what is pending is the rest (`LetOutAsRead`, `PendingIsTheRest`); nothing is let out that a secret may
  still begin in, and sealing has done the same up to its position (`SealedSoFar`). The replacement is a byte
  that no secret uses, so a secret can occur only among bytes that were not replaced, where none begins. *Sealing*: writes to a file are numbered upwards, so a file that is
  after the second half as it was before the first was so in between (`ReadingFits`), and what is
  reserved is the sum of what is held (`ReservedIsHeld`), counted as the bytes of a set.
  `OutputStaysExact` follows. *Persisted*: the search finds a match wherever a secret begins that no earlier match covers
  (`MatchesAreFound`), in the records strung together as one text, which is cut again at their lengths (`PartsMakeTheText`); a match that
  shrinks to the replacement still parts what moves together (`ShrunkIsSafe`). `RecordsStaySafe` follows.
- **`BatchProcess_proofs`**. `IInv` says what each stage of the collector knows of the process
  and the threads (`PhaseState`), that what was taken from a pipe is kept, in the channel or in its reader's hand
  (`FlowState`), and that a reader which ended left an event behind all its chunks, which is counted or
  still queued (`EndState`). A loop that ends with a status has therefore counted both readers and an empty
  channel (`ExitState`), so nothing is left of either stream. A call that a failed wait made return has no status,
  no override and no failure of a stream, and never told a thread to stop. `NothingIsLeft`, `ExitIsComplete` and `ExitStands`
  follow, for any depth of the channel and any number of writes. The module also has the jail of `Components` that a
  program is launched in.
  *Jail*: of what the jail is made of, each part is of its host (`JailShapes`); of its directory, one thread at a time is between
  check and write, and what that thread has checked still fits (`JailStaged`, over the bytes of the files as a set
  of pairs); of the launch, that the jail allowed it as the host then was (`JailLaunched`); of the helper, that the digest is
  of the file that was looked at (`JailDigested`), and one identity has one content. On macOS what is let through is
  traced to the rule that lets it and to the denials before which that rule stands (`JailAllowed`); on Linux to a mount which no
  later one hides (`JailMounted`). Either way it is of the system, handed to the jail, or of a tree whose every entry is
  root's. A launch and its lock are compared rule by rule and mount by mount: without what was measured or chosen
  for the call, each is the same. `AuditIsKept` follows.
- **`PtyProcess_proofs`**. There is one reader and the writer speaks on the same channel, so the account of the
  output is over the events before the first that is no chunk (`FlowState`): while the collector has seen none,
  what was taken from the terminal is captured, in that prefix, or in the reader's hand. `PhaseState` and
  `ProcessState` say what each stage of the collector knows of the process. `AnswersForItsProcess` follows.
- **`Components_proofs`**, one invariant per part.
  *Store*: who is past the lock holds it on the inode that was opened (`Locked`), the name stood
  for that inode at the last look (`LookedAt`), who was outrun has
  read and not yet published (`OutrunReaders`), and whoever holds the lock builds on the file as it is (`Built`). `AcknowledgedStays` and
  `NothingIsOverwritten` follow.
  *Scratch*: a name is reserved in the process that works on it (`AtWork`, `Reserved`), and what a
  recovery has listed is there and no session's (`Stale`). `SessionsKeep` follows.
  *Forwarder and status*: no byte is written that was not read nor read that was not sent, and a pipe is
  closed and shut only with all of them (`Flowing`); a side that was seen to hang up has (`HungUp`), so
  that what is dropped is delivered (`Dropped`). The first report on the channel is the shim's own.
  `ChannelsAreTrue` follows.
  *Authority*: what was read of a file so far is what the file holds, unless its change
  time has moved since it was identified (`ReadSoFar`). `LaunchIsBound` follows.
  *Intent*: ceilings, intent, call and process each say what the stage before them allowed
  (`ExecutionInv`), and the skill's file, which is edited meanwhile, is read once. `ProcessFits` follows.
  *Members*: while a member lives, every scan that counts as quiet but the first has cost it an escape from a
  look (`Counted`), and escapes are fewer than confirming scans. `SurvivorsAreFound` follows.
  *Credentials*: the plan is of the revision that was selected and the directory that is given of the revision
  of the plan (`RevisionInv`); what the command is given shows nothing, is a pattern, or lies in the session, which is
  one in the end (`DeliveryInv`); from the dispatch to the end of the command, the directories behind the profile's name
  begin with the one that was authorized and end with the one that is there, which the last look compares (`DirectoryInv`); and what the validator accepts compiles (`ValidCompiles`). `CredentialsStayAsSelected`
  follows. The proof made the property say that the baseline is compared with names in upper case, as the
  compiler of injections does.
  *Authorized*: what is digested is a sequence of words, each behind its length and each list behind the number
  of its words, so two digests that are equal are read off from the front, field by field, until every field is found equal
  (`SameRequest`); evidence with the digest of a call is therefore that call's (`AuthorizedInv`).
  `ApprovalStaysWithItsCall` follows, for requests of any length.
  *Lifecycle*: from the look before the command on, the directories at the path begin with the one that was bound and end
  with the one that is there (`Looked`), and the version that runs is the one that was digested (`LifecycleInv`); the states that matching rules
  speak are those the evaluation collects, one at a time, within its limit of work. `ReadyStaysEarned` follows.
The type invariants are proved and are not checked by a run any more. The theorems about
`Components` and `Decisions` are about one part each (`Store!Spec`, `Scoped!Spec`, ...), or two that a property
joins, whose steps are those of the run while it is that part's turn.

Least and greatest numbers of a set (`Least`, `Greatest`), on which every search for a first match and a longest
secret rests, are proved by the well-foundedness of strict inclusion between finite sets
(`WellFoundedInduction` without its operator parameter): no induction theorem is applied.

Model-checked only, and why:

- `TypedActionsKeepTheContract`: its values nest, and what compiles or lowers one is a RECURSIVE operator.
- `ReportsAnswerForTheSource`: what a report says of a tree is a fold over it, which takes induction over data.
- `CallReturns`, `DeadlineBounds`, `PtyReturns`: liveness under fairness, left to TLC for good, as
  is anything that mentions ENABLED.

## Assumptions

The named assumptions say that limits are numbers, positive where the code has a
positive constant, that sets are finite where something is counted, that values which stand for
"none" are none of the others (`NullAssumption`, `Nobody`, `Absent`, `Orphan`), and that a directory of
a profile is called like no fixed one above it. Four of them are more:
`MaxGeneration > 1` (a 64-bit counter), `Keys # {}` (a store of no profiles keeps nothing),
`OneRecoverer` (one bootstrap recovery in a process) and `HopsAreFew` (below).

What the models take as given of the world or of the data:

- The clock of the file system tells two writes of one file apart, so that a file's identity, where its change
  time is part of it, is of one content (executables; the helper of a jail). A directory that is
  replaced gets an identity of its own in `ScopedPaths` alone; `StatusCache`,
  `ExecutionAuthority`, `CredentialCall` and `LifecycleCommand` have identities of directories reused.
- On the host of a jail nothing is below a file or a socket, and somebody else than root may change
  one of the directories that lead to the copy of a program (it is the user's own); members hide less often than there are confirming scans; a running jail is
  younger than the age at which a sentinel is stale.
- Characters in typed values have one byte and numbers are integers. YAML and JSON
  are what their libraries return. Digests do not collide, so that a digest is what it is of.
- Owners of sessions give what they replace a newer revision. A registry has one
  set of configured references in all its processes.

## What is not modelled

- What the kernel makes of the rules and mounts of a jail (Landlock, seccomp,
  sandbox profiles), and the listing of inherited descriptors.
- Canary and qualification: they compare recorded fixtures once, in one thread.
- Configuration, registry and discovery: bounded reads and lookups in tables that do not change.
- Test support, the spawn shim of macOS and repository linters.
- Of result sealing, media types and the projection of the sealed result; of execution
  authority, adjacent libraries, modes and owners; of manifests, text and rendering.
- In `BatchProcess`, durations (waiting for a poll interval is a step that changes nothing).
- Poisoned mutexes: no code under these locks panics.

## Plan

Done: logins, cache and both composed; admission; batch and interactive execution; the
coordinator with its intent, approval and receipt; credentials from contract
to redaction, scratch and records; the registry of profiles; authority, jail, relay and
report; lifecycle commands; packages, catalogs, strategies, and the two
reports. Proofs of leases with their refinement, cache, both composed, admission with its
refinement, coordinator, batch and interactive process, fourteen components and five decisions. In order, what follows:

1. An abstract `GovernedCall` (admitted, dispatched at most once, settled once)
   that `GovernedExecution` implements, and an abstract register (compare and set by
   revision) that `ProfileStore` implements.
2. `CredentialScratch` in place of the `scratch` variable of `GovernedExecution`, and
   the exec-status report in place of the outcome of its spawn.
