--------------------------- MODULE LifecycleCommand ---------------------------
(***************************************************************************)
(* One status, login, refresh or logout command of a skill's CLI: its plan *)
(* (credential_lifecycle.rs), the process it is bound to and runs as       *)
(* (credential_lifecycle_execution.rs) and, for a status command, what its *)
(* output means (credential_lifecycle_observation.rs).  The product that   *)
(* calls these in turn, edits profiles, changes contracts and replaces     *)
(* directories and executables is the environment.                         *)
(*                                                                         *)
(* JSON is a record of what the code asks of it: whether it is well formed *)
(* and within its bounds, and the value at each pointer.  A value has a    *)
(* kind and its content `of'.  An executable is its version, and its       *)
(* identity, which has the time of the last change in it, the number of    *)
(* changes made to it.  The identity of a directory is its device, inode   *)
(* and owner: one that was moved away may come back, and a new one may     *)
(* have the identity of one that is gone.                                  *)
(***************************************************************************)
EXTENDS Integers, Sequences, FiniteSets, SequencesExt

CONSTANTS
    Contracts,      \* validated contracts the product plans and binds with
    Aliases,        \* profiles of the one scope and provider
    Identities,     \* identities a profile may be expected to have
    Fold,           \* identity -> its ASCII lower-case form
    Searches,       \* what the clean PATH may hold: sequences of entries
    MaxSearch,      \* entries of the PATH that are looked at
    Endings,        \* how a process may end
    Outputs,        \* what a status command may print
    Directories,    \* identities that a directory may have
    MaxWork,        \* evaluation budget
    MaxChanges,     \* changes of profiles and executables, at most
    MaxReplacements \* and of the directory

CommandAssumption ==
    /\ Identities = DOMAIN Fold
    /\ \A contract \in Contracts : IsFiniteSet(DOMAIN contract.rules)
    /\ Directories # {} /\ MaxSearch \in Nat /\ MaxWork \in Nat /\ MaxChanges \in Nat /\ MaxReplacements \in Nat

VARIABLES
    profiles,       \* alias -> metadata in the registry, or none
    revision,       \* the last revision the registry gave out
    directory,      \* at the profile's (or scope's) path: its identity; how often it changed
    executable,     \* [version, changes] of the file in the PATH
    changes,
    pc, plan, path, bound,
    result,         \* what the caller is given
    ran,            \* history: the version that ran, and the directories at the path
                    \* from the look before the command to the look after it
    shown,          \* history: how it ended and what it printed, once released
    past            \* history: revision -> the metadata it named

world == <<profiles, revision, directory, executable, changes, past>>
vars == <<world, pc, plan, path, bound, result, ran, shown>>

None == [kind |-> "none"]
Operations == {"status", "login", "logout", "refresh"}

Init ==
    /\ profiles \in [Aliases -> {None} \cup {[kind |-> "profile", revision |-> 1, disabled |-> FALSE,
                                               identity |-> i] : i \in Identities \cup {"none"}}]
    /\ revision = 1 /\ directory = [identity |-> CHOOSE d \in Directories : TRUE, replaced |-> 0]
    /\ executable = [version |-> 1, changes |-> 1]
    /\ changes = 0
    /\ path \in Searches
    /\ pc = "plan" /\ plan = None /\ bound = None /\ result = None
    /\ ran = None /\ shown = None
    /\ past = [a \in Aliases |-> {profiles[a]}]

Refused(why) == [kind |-> "refused", why |-> why]
Refuse(why) == pc' = "done" /\ result' = Refused(why)
Keep(variables) == UNCHANGED <<world, path, shown, variables>>

-----------------------------------------------------------------------------
(* The environment.                                                        *)

Disturbs == pc # "done" /\ changes < MaxChanges /\ changes' = changes + 1
Command == <<pc, plan, path, bound, result, ran, shown>>

EditProfile(alias) ==
    /\ Disturbs /\ profiles[alias] # None
    /\ revision' = revision + 1
    /\ \E i \in Identities \cup {"none"}, d \in BOOLEAN :
          profiles' = [profiles EXCEPT ![alias] =
              [kind |-> "profile", revision |-> revision + 1, disabled |-> d, identity |-> i]]
    /\ past' = [past EXCEPT ![alias] = @ \cup {profiles'[alias]}]
    /\ UNCHANGED <<directory, executable, Command>>

\* Another directory is put in its place: any, or a new one with the same inode.
\* Before one is bound, that makes no difference.
ReplaceDirectory ==
    /\ bound # None /\ pc # "done" /\ directory.replaced < MaxReplacements
    /\ \E d \in Directories :
          /\ directory' = [identity |-> d, replaced |-> directory.replaced + 1]
          /\ ran' = IF ran = None THEN ran ELSE [ran EXCEPT !.directories = Append(@, d)]
    /\ UNCHANGED <<profiles, revision, executable, changes, past, pc, plan, path, bound, result, shown>>

\* Another version, or one that was there before, is written over the file or
\* moved into its place.
ReplaceExecutable ==
    /\ Disturbs
    /\ \E v \in 1..(executable.version + 1) :
          executable' = [version |-> v, changes |-> executable.changes + 1]
    /\ UNCHANGED <<profiles, revision, directory, past, Command>>

-----------------------------------------------------------------------------
(* The plan.                                                               *)

\* lifecycle_executable.
Local(contract) == contract.kind \in {"cli_profile", "oauth_session"} /\ contract.protocol = "cli"

AcceptsKey(selection, alias) ==
    \/ selection.mode = "selectable"
    \/ selection.mode = "fixed" /\ selection.alias = alias

Planned(contract, operation, target) ==
    [kind |-> "plan", contract |-> contract, operation |-> operation, target |-> target,
     rules |-> IF operation = "status" THEN contract.rules ELSE <<>>]

Declares(contract, operation) == operation \in contract.hooks

ExpectsIdentity(contract) == contract.identity \in {"exact", "folded"}

\* for_profile, in the order of its checks.
PlanProfile(contract, operation, alias) ==
    LET profile == profiles[alias] IN
    /\ pc = "plan"
    /\ \/ /\ \/ ~Local(contract) \/ ~AcceptsKey(contract.selection, alias)
             \/ profile = None
             \/ profile # None /\ (\/ profile.disabled /\ operation \in {"login", "refresh"}
                                   \/ ExpectsIdentity(contract) /\ profile.identity = "none")
             \/ ~Declares(contract, operation)
          /\ Refuse("plan") /\ Keep(<<plan, bound, ran>>)
       \/ /\ Local(contract) /\ AcceptsKey(contract.selection, alias) /\ profile # None
          /\ ~(profile.disabled /\ operation \in {"login", "refresh"})
          /\ ~(ExpectsIdentity(contract) /\ profile.identity = "none")
          /\ Declares(contract, operation)
          /\ plan' = Planned(contract, operation,
                [mode |-> "profile", alias |-> alias, revision |-> profile.revision, identity |-> profile.identity])
          /\ pc' = "bind" /\ Keep(<<bound, result, ran>>)

\* for_implicit.
PlanImplicit(contract, operation) ==
    LET accepts == Local(contract) /\ contract.selection.mode = "implicit" /\ Declares(contract, operation) IN
    /\ pc = "plan"
    /\ IF accepts
       THEN /\ plan' = Planned(contract, operation,
                  [mode |-> "implicit", alias |-> "none", revision |-> 0, identity |-> "none"])
            /\ pc' = "bind" /\ Keep(<<bound, result, ran>>)
       ELSE Refuse("plan") /\ Keep(<<plan, bound, ran>>)

-----------------------------------------------------------------------------
(* The process it is bound to.                                             *)

\* ResolvedLifecycleExecutable::resolve: an entry that is not absolute, cannot
\* be canonicalized or is not a safe file ends the search; only a file that
\* vanishes before it is opened lets it go on.
Decides(entry) == entry # "vanishes"
Found(entries) ==
    LET deciding == {i \in DOMAIN entries : Decides(entries[i])}
        first == CHOOSE i \in deciding : \A j \in deciding : i <= j
    IN  IF deciding = {} THEN (IF Len(entries) > MaxSearch THEN "unsafe" ELSE "missing")
        ELSE IF first <= MaxSearch /\ entries[first] = "safe" THEN "found" ELSE "unsafe"

\* The environment entries of one contract; a name that is given twice is refused.
Projects(contract, target) ==
    /\ \A k \in DOMAIN contract.injections :
          LET injection == contract.injections[k] IN
          /\ injection.target = "environment"
          /\ \/ injection.source = "auth_root" /\ (target.mode = "profile" \/ ~injection.nested)
             \/ injection.source = "alias" /\ target.mode = "profile"
             \/ injection.source = "identity" /\ target.identity # "none"
          /\ injection.name \notin contract.baseline
    /\ \A k, l \in DOMAIN contract.injections :
          contract.injections[k].name = contract.injections[l].name => k = l

\* validate_plan_binding and the executable's identity and digest; the product
\* hands in a contract and a directory of the scope, which must be the plan's.
Bind(contract, owner) ==
    /\ pc = "bind"
    /\ IF contract = plan.contract /\ owner = plan.target.alias /\ Found(path) = "found"
       THEN /\ bound' = [kind |-> "bound", directory |-> directory.identity, changes |-> executable.changes,
                         digest |-> 0]
            /\ pc' = "digest" /\ Keep(<<plan, result, ran>>)
       ELSE /\ Refuse(IF contract # plan.contract THEN "plan_mismatch"
                      ELSE IF owner # plan.target.alias THEN "directory_mismatch" ELSE Found(path))
            /\ Keep(<<plan, bound, ran>>)

Digest ==
    /\ pc = "digest"
    /\ bound' = [bound EXCEPT !.digest = executable.version]
    /\ pc' = "resolved" /\ Keep(<<plan, result, ran>>)

ExecutableUnchanged == executable.changes = bound.changes
DirectoryUnchanged == directory.identity = bound.directory

Resolved ==
    /\ pc = "resolved"
    /\ IF ExecutableUnchanged /\ DirectoryUnchanged /\ Projects(plan.contract, plan.target)
       THEN pc' = "before" /\ Keep(<<plan, bound, result, ran>>)
       ELSE Refuse("bind") /\ Keep(<<plan, bound, ran>>)

\* with_bound_process: every authority before and after the callback.
Revalidates == ExecutableUnchanged /\ DirectoryUnchanged

Before ==
    /\ pc = "before"
    /\ IF Revalidates
       THEN /\ ran' = [kind |-> "ran", version |-> 0, directories |-> <<directory.identity>>]
            /\ pc' = "launch" /\ Keep(<<plan, bound, result>>)
       ELSE Refuse("changed") /\ Keep(<<plan, bound, ran>>)

\* launch_handle: a private copy, whose digest must be the one bound.
Launch ==
    /\ pc = "launch"
    /\ IF executable.version = bound.digest
       THEN /\ ran' = [ran EXCEPT !.version = executable.version]
            /\ pc' = "running" /\ Keep(<<plan, bound, result>>)
       ELSE Refuse("changed") /\ Keep(<<plan, bound, ran>>)

\* The command looks its directory up by path, whenever it does.
Run ==
    /\ pc = "running"
    /\ pc' = "after" /\ Keep(<<plan, bound, result, ran>>)

-----------------------------------------------------------------------------
(* What the output means.                                                  *)

\* predicate_matches; without a payload no predicate holds.
Text(value) == value.kind = "string"
Holds(predicate, payload) ==
    /\ payload # None
    /\ LET value == payload.at[predicate.pointer] IN
       CASE predicate.kind = "equals" -> value = predicate.value
         [] predicate.kind = "exists" -> value.kind # "absent"
         [] predicate.kind = "missing" -> value.kind = "absent"
         [] predicate.kind = "contains" -> value.kind = "array" /\ predicate.values \subseteq value.of

Work(predicate, payload) ==
    1 + IF /\ predicate.kind = "contains" /\ payload # None
           /\ payload.at[predicate.pointer].kind = "array"
        THEN payload.at[predicate.pointer].length + Cardinality(predicate.values) ELSE 0

\* The predicates of a rule that are looked at: up to the first that fails.
LookedAt(rule, payload) ==
    {k \in DOMAIN rule.all : \A j \in 1..(k - 1) : Holds(rule.all[j], payload)}

RuleWork(rule, payload) ==
    1 + FoldLeft(LAMBDA sum, k : sum + IF k \in LookedAt(rule, payload) THEN Work(rule.all[k], payload) ELSE 0,
                 0, [k \in DOMAIN rule.all |-> k])

Applies(rule, code) == code \in rule.codes
Matches(rule, payload) == \A k \in DOMAIN rule.all : Holds(rule.all[k], payload)

Speaking(rules, code, payload) ==
    {k \in DOMAIN rules : Applies(rules[k], code) /\ Matches(rules[k], payload)}

FirstMatch(rules, speaking) == {rules[k].state : k \in {j \in speaking : \A i \in speaking : j <= i}}
EveryMatch(rules, speaking) == {rules[k].state : k \in speaking}
Collected(rules, speaking) == EveryMatch(rules, speaking)

\* evaluate_lifecycle_status: every rule for the exit code is tried, within the
\* budget, and the states of those that match are collected.
Evaluation(rules, code, payload) ==
    [work |-> FoldLeft(LAMBDA sum, rule : sum + IF Applies(rule, code) THEN RuleWork(rule, payload) ELSE 0,
                       0, rules),
     states |-> Collected(rules, Speaking(rules, code, payload))]

\* One state, or none: several contradict each other.
Conclusive(states) == Cardinality(states) = 1

Answer(state, verification) == [kind |-> "status", state |-> state, identity |-> verification]

\* verify_identity, for a state that is ready.
SameIdentity(contract, expected, actual) ==
    IF contract.identity = "folded" THEN Fold[expected] = Fold[actual] ELSE expected = actual

Verified(payload) ==
    LET contract == plan.contract
        actual == IF payload = None THEN [kind |-> "absent"] ELSE payload.at[contract.selector]
    IN  CASE contract.identity = "none" -> Answer("ready", "not_declared")
          [] contract.identity = "unverified" -> Answer("ready", "provider_unverified")
          [] OTHER ->
               IF plan.target.identity = "none" \/ ~Text(actual) THEN Refused("identity")
               ELSE IF actual.of \notin Identities THEN Refused("identity")
               ELSE IF SameIdentity(contract, plan.target.identity, actual.of)
               THEN Answer("ready", "matched") ELSE Answer("identity_mismatch", "mismatched")

\* parse_bounded_json: its text, its nesting and its nodes.
Parses(output) == output.readable

Evaluate(ending, output) ==
    LET json == plan.contract.format = "json"
        payload == IF json THEN output ELSE None
        evaluation == Evaluation(plan.rules, ending.code, payload)
    IN  IF plan.operation # "status" THEN Refused("wrong_operation")
        ELSE IF ~output.fits THEN Refused("too_large")
        ELSE IF ending.kind # "exited" THEN Refused(ending.kind)
        ELSE IF json /\ ~Parses(output) THEN Refused("malformed")
        ELSE IF evaluation.work > MaxWork THEN Refused("limit")
        ELSE IF ~Conclusive(evaluation.states)
        THEN Refused(IF evaluation.states = {} THEN "unmapped" ELSE "ambiguous")
        ELSE LET state == CHOOSE s \in evaluation.states : TRUE IN
             IF state # "ready" THEN Answer(state, "not_evaluated") ELSE Verified(payload)

\* The second revalidation releases the observation, which the product then has
\* evaluated; another operation's success calls for a new status command
\* (lifecycle_success_postcondition), or drops what was known.
After(ending, output) ==
    /\ pc = "after"
    /\ IF ~Revalidates THEN Refuse("changed") /\ UNCHANGED shown
       ELSE /\ pc' = "done"
            /\ shown' = [kind |-> "shown", ending |-> ending, output |-> output]
            /\ result' = CASE plan.operation = "status" -> Evaluate(ending, output)
                           [] plan.operation = "logout" -> [kind |-> "next", what |-> "invalidate"]
                           [] OTHER -> [kind |-> "next", what |-> "fresh_status"]
    /\ UNCHANGED <<world, path, plan, bound, ran>>

Next ==
    \/ \E a \in Aliases : EditProfile(a)
    \/ ReplaceDirectory \/ ReplaceExecutable
    \/ \E contract \in Contracts, operation \in Operations :
          PlanImplicit(contract, operation) \/ \E a \in Aliases : PlanProfile(contract, operation, a)
    \/ \E contract \in Contracts, owner \in Aliases \cup {"none"} : Bind(contract, owner)
    \/ Digest \/ Resolved \/ Before \/ Launch \/ Run
    \/ \E ending \in Endings, output \in Outputs : After(ending, output)

Spec == Init /\ [][Next]_vars
-----------------------------------------------------------------------------
(* Properties.                                                             *)

\* A profile is only called ready on the word of the executable that was bound,
\* when some rule for its exit code says so and none says otherwise, under the
\* identity that the profile's metadata had at the revision the result is filed
\* under, and when the directory at the path has the identity that was bound both
\* before the command is launched and after it has ended (with_bound_process,
\* evaluate_lifecycle_status, verify_identity).  Which directories were there in
\* between, and whether one was made anew under the same inode, is not known to the
\* code: the command may have looked into another one.
ReadyIsEarned ==
    result.kind = "status" /\ result.state = "ready" =>
        LET contract == plan.contract
            payload == IF contract.format = "json" THEN shown.output ELSE None
            speaking == {k \in DOMAIN contract.rules :
                            /\ Applies(contract.rules[k], shown.ending.code)
                            /\ Matches(contract.rules[k], payload)}
        IN  /\ ran.version = bound.digest
            /\ ran.directories[1] = bound.directory
            /\ ran.directories[Len(ran.directories)] = bound.directory
            /\ speaking # {} /\ \A k \in speaking : contract.rules[k].state = "ready"
            /\ ExpectsIdentity(contract) =>
                  \E profile \in past[plan.target.alias] :
                     /\ profile # None /\ profile.revision = plan.target.revision
                     /\ SameIdentity(contract, profile.identity, payload.at[contract.selector].of)

\* An executable that is safe in an entry of the PATH is found, when no earlier
\* entry has that name at all: what the branch of the search loop that goes on
\* after a file that is not there is for (resolve).
LaterEntriesAreSearched ==
    result.kind = "refused" /\ result.why = "unsafe" =>
        ~\E i \in DOMAIN path :
            /\ i <= MaxSearch /\ path[i] = "safe"
            /\ \A j \in 1..(i - 1) : path[j] \in {"absent", "vanishes"}
=============================================================================
