--------------------------- MODULE ExecutionIntent ---------------------------
(***************************************************************************)
(* From a validated contract and the host's policy to what a process is    *)
(* given (src/tool-runtime-core/src/governed_execution.rs and the entry of *)
(* governed_execution_coordinator.rs).                                     *)
(*                                                                         *)
(* A compiled contract is kept and admits requests while the skill's file  *)
(* may be edited, so that the contract an invocation is validated with     *)
(* need not be the one its intent was compiled from.                       *)
(*                                                                         *)
(* A limit that a contract leaves out is absent from its limits.  Lengths  *)
(* are numbers; Absent is a value that a request does not carry.           *)
(***************************************************************************)
EXTENDS Integers, Sequences, Functions, FiniteSetsExt

CONSTANTS
    Contracts,   \* what the skill's file may say
    Policies,    \* what hosts pass to GovernedExecutionPolicy::new
    Requests, Modes,
    Materials,   \* lengths of a credential for standard input, or Absent
    MaxTimeout, MaxStream, \* MAX_RUNTIME_TIMEOUT_SECS, MAX_RUNTIME_STREAM_BYTES
    MaxArguments, MaxArgument, MaxArgumentBytes, \* MAX_FIXED_ARGUMENTS, ...
    MaxPath, MaxComponents, MaxComponent,
    MaxEdits

VARIABLES
    skill,       \* the contract in the skill's file
    edits,
    compiled,    \* GovernedExecutionContract, or Nothing
    intent,      \* GovernedExecutionIntent, or Nothing
    call,        \* the contract and the mode of the invocation, or Nothing
    process      \* what the process is given, or Nothing

vars == <<skill, edits, compiled, intent, call, process>>

Nothing == [n \in {} |-> 0]
Absent == MaxStream + 1
Limits == {"timeout", "stdin", "stdout", "stderr"}
Lower(a, b) == Min({a, b})

IntentAssumption ==
    /\ MaxTimeout \in Nat /\ MaxStream \in Nat /\ Materials \subseteq Nat
    /\ \A contract \in Contracts :
          /\ DOMAIN contract.limits \subseteq Limits \cup {"memory"}
          /\ \A limit \in DOMAIN contract.limits : contract.limits[limit] \in Nat
    /\ \A policy \in Policies : \A limit \in Limits \cup {"default"} : policy[limit] \in Nat
    /\ \A request \in Requests : request.stdin \in Nat /\ request.timeout \in Nat
    /\ \A mode \in Modes : mode.wall \in Nat

-----------------------------------------------------------------------------
(* The contract and the policy, compiled into ceilings.                    *)

ValidPolicy(policy) ==
    /\ 0 < policy.default /\ policy.default <= policy.timeout /\ policy.timeout <= MaxTimeout
    /\ \A stream \in Limits \ {"timeout"} : policy[stream] \in 1..MaxStream

Ceiling(limit) == IF limit = "timeout" THEN MaxTimeout ELSE MaxStream
Declared(contract, limit) ==
    IF limit \in DOMAIN contract.limits THEN contract.limits[limit] ELSE Ceiling(limit)

Effective(contract, policy) == [limit \in Limits |-> Lower(Declared(contract, limit), policy[limit])]

\* Standard input carries a credential if an injection has it as its target.
Reserved(contract) == "stdin" \in contract.targets

Memory(contract) == IF "memory" \in DOMAIN contract.limits THEN contract.limits.memory ELSE Absent

\* What of a contract an intent repeats word for word.
Repeated(contract) ==
    [executable |-> contract.bins[1], prefix |-> contract.prefix, interaction |-> contract.interaction,
     stdin_mode |-> contract.stdin, sensitivity |-> contract.sensitivity, cwd_mode |-> contract.cwd,
     reserved |-> Reserved(contract), memory |-> Memory(contract)]

Compile(policy) ==
    /\ intent = Nothing
    /\ ValidPolicy(policy) /\ skill.protocol = "cli" /\ skill.bins # <<>>
    /\ LET limits == Effective(skill, policy)
       IN  compiled' = [fixed |-> Repeated(skill), limits |-> limits, policy |-> policy,
                        default |-> Lower(policy.default, limits.timeout)]
    /\ UNCHANGED <<skill, edits, intent, call, process>>

-----------------------------------------------------------------------------
(* One request.                                                            *)

Refused(reason, when) == IF when THEN {reason} ELSE {}

\* The sum is kept with checked additions, which the limit makes superfluous.
ArgumentFaults(request) ==
    Refused("too_many_arguments", Len(request.arguments) > MaxArguments)
        \cup Refused("invalid_argument", \E i \in DOMAIN request.arguments :
                request.arguments[i].control \/ request.arguments[i].length > request.item_limit)
        \cup Refused("arguments_too_large",
                SumFunction([i \in DOMAIN request.arguments |-> request.arguments[i].length]) > MaxArgumentBytes)

StdinFaults(fixed, limits, stdin) ==
    IF fixed.reserved THEN Refused("stdin_reserved_for_credential", stdin # Absent)
    ELSE Refused("stdin_denied", fixed.stdin_mode = "denied" /\ stdin # Absent)
            \cup Refused("stdin_required", fixed.stdin_mode = "required" /\ stdin = Absent)
            \cup Refused("stdin_too_large", stdin # Absent /\ stdin > limits.stdin)

\* A path is its components; a leading slash or an empty path shows as an
\* empty component, and other characters that are refused as "foreign".
PathFaults(fixed, path) ==
    IF fixed.cwd_mode = "denied" THEN Refused("working_directory_denied", path # <<>>)
    ELSE Refused("invalid_working_directory",
            \/ Len(path) > MaxComponents
            \/ SumFunction([i \in DOMAIN path |-> path[i].length + 1]) > MaxPath + 1
            \/ \E i \in DOMAIN path : path[i].length \notin 1..MaxComponent \/ path[i].kind # "name")

TimeoutFaults(limits, timeout) ==
    Refused("invalid_timeout", timeout # Absent /\ timeout \notin 1..limits.timeout)

Faults(request) ==
    ArgumentFaults(request) \cup StdinFaults(compiled.fixed, compiled.limits, request.stdin)
        \cup PathFaults(compiled.fixed, request.path) \cup TimeoutFaults(compiled.limits, request.timeout)

Admit(request) ==
    /\ compiled # Nothing /\ intent = Nothing
    /\ Faults(request) = {}
    /\ intent' = [fixed |-> compiled.fixed, limits |-> compiled.limits, arguments |-> request.arguments,
                  stdin |-> request.stdin, path |-> request.path,
                  timeout |-> IF request.timeout = Absent THEN compiled.default ELSE request.timeout]
    /\ UNCHANGED <<skill, edits, compiled, call, process>>

-----------------------------------------------------------------------------
(* The invocation, with the contract that is valid by now.                 *)

MatchesTimeout(contract) == intent.timeout <= Declared(contract, "timeout")
MatchesLimits(contract) ==
    /\ MatchesTimeout(contract)
    /\ \A stream \in Limits \ {"timeout"} : intent.limits[stream] <= Declared(contract, stream)

MatchesWhatIsRepeated(contract) == Repeated(contract) = intent.fixed

MatchesContract(contract) ==
    contract.protocol = "cli" /\ contract.bins # <<>> /\ MatchesWhatIsRepeated(contract) /\ MatchesLimits(contract)

\* Interactive commands run in a terminal, others in batch, jailed or not.
ModeFits(mode) == (mode.kind = "pty") <=> (intent.fixed.interaction = "pty")

Invoke(mode) ==
    /\ intent # Nothing /\ call = Nothing
    /\ MatchesContract(skill) /\ ModeFits(mode)
    /\ call' = [contract |-> skill, mode |-> mode,
                seconds |-> IF mode.kind = "jail" THEN Lower(intent.timeout, mode.wall) ELSE intent.timeout]
    /\ UNCHANGED <<skill, edits, compiled, intent, process>>

\* Which contract the invocation does not match shows in its refusal only.
RefuseToInvoke(mode) ==
    /\ intent # Nothing /\ call = Nothing
    /\ ~(MatchesContract(skill) /\ ModeFits(mode))
    /\ intent' = Nothing
    /\ UNCHANGED <<skill, edits, compiled, call, process>>

\* The credential takes the place of standard input, or there is none.
Bindable(material) ==
    IF intent.fixed.reserved THEN material \in 1..intent.limits.stdin ELSE material = Absent

Launch(material) ==
    /\ call # Nothing /\ process = Nothing
    /\ Bindable(material)
    /\ process' = [given |-> intent.fixed, limits |-> intent.limits, arguments |-> intent.arguments,
                   path |-> intent.path, seconds |-> call.seconds, credential |-> intent.fixed.reserved,
                   stdin |-> IF intent.fixed.reserved THEN material ELSE intent.stdin]
    /\ UNCHANGED <<skill, edits, compiled, intent, call>>

\* The skill's file is another one when it is read next.
Edit(contract) ==
    /\ edits < MaxEdits /\ edits' = edits + 1
    /\ skill' = contract
    /\ UNCHANGED <<compiled, intent, call, process>>

Init ==
    /\ skill \in Contracts /\ edits = 0
    /\ compiled = Nothing /\ intent = Nothing /\ call = Nothing /\ process = Nothing

Next ==
    \/ \E policy \in Policies : Compile(policy)
    \/ \E request \in Requests : Admit(request)
    \/ \E mode \in Modes : Invoke(mode) \/ RefuseToInvoke(mode)
    \/ \E material \in Materials : Launch(material)
    \/ \E contract \in Contracts : Edit(contract)

Spec == Init /\ [][Next]_vars

-----------------------------------------------------------------------------
(* A process that is launched is the one which the contract of its         *)
(* invocation describes, whatever the skill's file said when its intent    *)
(* was admitted: same program, prefix, kind of terminal and directory; no  *)
(* stream, second or directory beyond the contract, the host's policy or   *)
(* the jail; and standard input from one source, the credential exactly    *)
(* where the contract injects one, else the caller within the contract's   *)
(* mode and limit.                                                         *)
ProcessFitsItsContract ==
    process # Nothing =>
        LET contract == call.contract
            given == process.given
        IN  /\ given.executable = contract.bins[1] /\ given.prefix = contract.prefix
            /\ given.interaction = contract.interaction /\ given.cwd_mode = contract.cwd
            /\ (call.mode.kind = "pty") <=> (contract.interaction = "pty")
            /\ \A limit \in DOMAIN contract.limits \ {"memory", "timeout", "stdin"} :
                  process.limits[limit] <= contract.limits[limit]
            /\ given.memory = Memory(contract)
            /\ \A stream \in {"stdout", "stderr"} : process.limits[stream] <= compiled.policy[stream]
            /\ process.seconds <= Declared(contract, "timeout") /\ process.seconds <= compiled.policy.timeout
            /\ call.mode.kind = "jail" => process.seconds <= call.mode.wall
            /\ process.path # <<>> => contract.cwd # "denied"
            /\ process.credential <=> Reserved(contract)
            /\ process.stdin # Absent =>
                  process.stdin <= Declared(contract, "stdin") /\ process.stdin <= compiled.policy.stdin
            /\ contract.stdin = "required" => process.stdin # Absent
            /\ contract.stdin = "denied" => (process.stdin # Absent <=> Reserved(contract))
=============================================================================
