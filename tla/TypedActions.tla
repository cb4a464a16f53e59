----------------------------- MODULE TypedActions -----------------------------
(***************************************************************************)
(* The typed actions that may replace the generic command of a skill: what *)
(* compile_typed_action_overrides accepts, and what an invocation of a     *)
(* compiled action becomes (lower_typed_action_invocation), both of        *)
(* src/tool-runtime-core/src/action_overrides.rs, over the schema that     *)
(* manifest_synthesis.rs derives from the contract.                        *)
(*                                                                         *)
(* First the parameters of an action and their way into the arguments of a *)
(* command.  A token is a string of one-byte characters; a value of JSON   *)
(* is a record of its type, its text (booleans have one too), its number,  *)
(* its items and, inside an object, its key.  Numbers are integers.  An    *)
(* option that is left out is absent from the domain of its record.        *)
(*                                                                         *)
(* Then the actions.  A behaviour compiles one package and lowers one      *)
(* invocation of it.  The contract has been validated before               *)
(* (RuntimeContract.tla).                                                  *)
(***************************************************************************)
EXTENDS InlineCode, FiniteSets, SequencesExt

CONSTANTS
    Most,        \* limit -> its value: the constants MAX_... of the source
    Packages,    \* sets of overrides, each with the contract they refine
    Inputs,      \* name of a parameter or a control -> value: what is asked for
    Names        \* identifiers, of actions and parameters, that are portable

Or(record, field, default) == IF field \in DOMAIN record THEN record[field] ELSE default
Given(record, field, Test(_)) == field \in DOMAIN record => Test(record[field])
Elements(seq) == {seq[i] : i \in DOMAIN seq}
Total(numbers) == FoldLeft(LAMBDA sum, n : sum + n, 0, numbers)

-----------------------------------------------------------------------------
(* Tokens.                                                                 *)

Characters(token) == [i \in 1..Len(token) |-> SubSeq(token, i, i)]
Blank == {" ", "\t", "\n"}
ControlCharacters == {"\t", "\n", "\f"}
HasControl(token) == Elements(Characters(token)) \cap ControlCharacters # {}
Bytes(tokens) == Total([i \in DOMAIN tokens |-> Len(tokens[i])])

\* validate_fixed_arguments
FixedArguments(tokens) ==
    /\ \A token \in Elements(tokens) : token # "" /\ Len(token) <= Most.argument /\ ~HasControl(token)
    /\ Bytes(tokens) <= Most.combined

\* A description may break lines.
Described(text) == text # "" /\ Len(text) <= Most.description /\ "\f" \notin Elements(Characters(text))

\* The words of a text.  A quote that is not closed refuses it.
Push(s, c) == [s EXCEPT !.word = @ \o c, !.inside = TRUE]
EndWord(s) == [s EXCEPT !.words = Append(@, s.word), !.word = "", !.inside = FALSE]
Scan(s, c) ==
    CASE s.quote = "'" -> IF c = "'" THEN [s EXCEPT !.quote = ""] ELSE Push(s, c)
      [] s.quote = "\"" /\ s.escaped ->
            [Push(s, IF c \in {"\"", "\\"} THEN c ELSE "\\" \o c) EXCEPT !.escaped = FALSE]
      [] s.quote = "\"" /\ ~s.escaped ->
            IF c = "\"" THEN [s EXCEPT !.quote = ""]
            ELSE IF c = "\\" THEN [s EXCEPT !.escaped = TRUE] ELSE Push(s, c)
      [] s.quote = "" /\ c \in {"'", "\""} -> [s EXCEPT !.quote = c, !.inside = TRUE]
      [] s.quote = "" /\ c \in Blank -> IF s.inside THEN EndWord(s) ELSE s
      [] OTHER -> Push(s, c)
Scanned(source) ==
    FoldLeft(Scan, [words |-> <<>>, word |-> "", inside |-> FALSE, quote |-> "", escaped |-> FALSE],
             Characters(source))
Closed(source) == Scanned(source).quote = ""
Words(source) == LET s == Scanned(source) IN IF s.inside THEN EndWord(s).words ELSE s.words

-----------------------------------------------------------------------------
(* Values.                                                                 *)

Escaped == ControlCharacters \cup {"\"", "\\"}

RECURSIVE Depth(_), Nodes(_), JsonBytes(_)
Depth(v) == 1 + Max({0} \cup {Depth(x) : x \in Elements(v.items)})
Nodes(v) == 1 + Total([i \in DOMAIN v.items |-> Nodes(v.items[i])])
JsonBytes(v) ==
    CASE v.type = "string" ->
            2 + Total([i \in 1..Len(v.text) |-> IF Characters(v.text)[i] \in Escaped THEN 2 ELSE 1])
      [] v.type = "number" -> Len(ToString(v.number))
      [] v.type \in {"boolean", "null"} -> Len(v.text)
      [] v.type \in {"array", "object"} ->
            2 + Total([i \in DOMAIN v.items |->
                  JsonBytes(v.items[i]) + (IF i > 1 THEN 1 ELSE 0)
                    + (IF v.type = "object" THEN 3 + Len(v.items[i].key) ELSE 0)])

-----------------------------------------------------------------------------
(* Parameters: what may be declared, what it is bounded by, what it takes. *)

ParameterTypes ==
    {"string", "workspace_path", "integer", "number", "boolean", "string_array", "json_object", "json_array"}
TextTypes == {"string", "workspace_path"}
JsonTypes == {"json_object", "json_array"}

Bounds(p) ==
    LET perItem == IF Or(p, "item_bytes", 0) > 0 THEN p.item_bytes ELSE 1
        byBudget == Most.combined \div perItem
        items == Or(p, "max", IF byBudget < Most.items THEN byBudget ELSE Most.items)
        share == Most.combined \div (IF items > 1 THEN items ELSE 1)
    IN  [min |-> Or(p, "min", 0), max |-> items,
         bytes |-> Or(p, "item_bytes", IF share < Most.argument THEN share ELSE Most.argument)]

Within(p, n) == Given(p, "min", LAMBDA m : n >= m) /\ Given(p, "max", LAMBDA m : n <= m)
TextWithin(text, min, max) == Len(text) \in min..max /\ ~HasControl(text)

\* An empty default stands for an optional parameter that is left out.
StringDefault(p) ==
    \/ p.enum = {} \/ p.default \in p.enum
    \/ ~p.required /\ p.default.text = ""
EnumDefault(p) == p.enum = {} \/ p.default \in p.enum

DeclarableString(p, limit) ==
    LET min == Or(p, "min", 0)
        max == Or(p, "max", limit)
    IN  /\ Cardinality(p.enum) <= Most.enum /\ min <= max /\ max <= limit
        /\ \A v \in p.enum : TextWithin(v.text, min, max)
        /\ Bytes(SetToSeq({v.text : v \in p.enum})) <= Most.combined
        /\ "default" \in DOMAIN p => TextWithin(p.default.text, min, max) /\ StringDefault(p)

DeclarableNumber(p) ==
    /\ {"min", "max"} \subseteq DOMAIN p => p.min <= p.max
    /\ Given(p, "default", LAMBDA v : Within(p, v.number))
DeclarableInteger(p) ==
    /\ DeclarableNumber(p)
    /\ Cardinality(p.enum) <= Most.enum /\ \A v \in p.enum : Within(p, v.number)
    /\ "default" \in DOMAIN p => EnumDefault(p)

DeclarableArray(p) ==
    LET b == Bounds(p)
    IN  /\ b.min <= b.max /\ b.max <= Most.items
        /\ b.bytes \in 1..Most.argument /\ b.max * b.bytes <= Most.combined
DeclarableJson(p, limit) ==
    /\ Or(p, "bytes", limit) \in 1..limit
    /\ Or(p, "depth", Most.depth) \in 1..Most.depth
    /\ Or(p, "nodes", Most.nodes) \in 1..Most.nodes
    /\ p.type = "json_array" => Or(p, "max", Most.items) <= Most.items

Declarable(p, limit) ==
    CASE p.type = "string" -> DeclarableString(p, limit)
      [] p.type = "workspace_path" -> Or(p, "max", limit) \in 1..limit
      [] p.type = "integer" -> DeclarableInteger(p)
      [] p.type = "number" -> DeclarableNumber(p)
      [] p.type = "boolean" -> TRUE
      [] p.type = "string_array" -> DeclarableArray(p)
      [] p.type \in JsonTypes -> DeclarableJson(p, limit)

\* The sizes that mappings are projected with.
Shape(p, limit) ==
    CASE p.type \in TextTypes -> [kind |-> "scalar", bytes |-> Or(p, "max", limit)]
      [] p.type = "integer" -> [kind |-> "scalar", bytes |-> Most.integer]
      [] p.type = "number" -> [kind |-> "scalar", bytes |-> Most.number]
      [] p.type = "boolean" -> [kind |-> "boolean"]
      [] p.type = "string_array" -> [kind |-> "array", items |-> Bounds(p).max, bytes |-> Bounds(p).bytes]
      [] p.type \in JsonTypes -> [kind |-> "json", bytes |-> Or(p, "bytes", limit)]

\* A compiled parameter keeps the limit it was compiled with.
Completed(p, limit) ==
    CASE p.type \in TextTypes -> p @@ [max |-> limit]
      [] p.type \in JsonTypes -> p @@ [bytes |-> limit]
      [] OTHER -> p

JsonFits(p, v) ==
    /\ Depth(v) <= Or(p, "depth", Most.depth) /\ Nodes(v) <= Or(p, "nodes", Most.nodes)
    /\ JsonBytes(v) <= Or(p, "bytes", Most.argument)

Takes(p, v) ==
    CASE p.type = "string" ->
            /\ v.type = "string" /\ TextWithin(v.text, Or(p, "min", 0), Or(p, "max", Most.argument))
            /\ p.enum = {} \/ v \in p.enum \/ ("default" \in DOMAIN p /\ v = p.default)
      [] p.type = "workspace_path" ->
            v.type = "string" /\ TextWithin(v.text, 1, Or(p, "max", Most.argument))
      [] p.type = "integer" ->
            v.type = "number" /\ Within(p, v.number) /\ (p.enum = {} \/ v \in p.enum)
      [] p.type = "number" -> v.type = "number" /\ Within(p, v.number)
      [] p.type = "boolean" -> v.type = "boolean"
      [] p.type = "string_array" ->
            LET b == Bounds(p)
            IN  /\ v.type = "array" /\ Len(v.items) \in b.min..b.max
                /\ \A x \in Elements(v.items) : x.type = "string" /\ TextWithin(x.text, 0, b.bytes)
      [] p.type = "json_object" -> v.type = "object" /\ JsonFits(p, v)
      [] p.type = "json_array" ->
            v.type = "array" /\ Len(v.items) <= Or(p, "max", Most.items) /\ JsonFits(p, v)

-----------------------------------------------------------------------------
(* Mappings: one parameter each, except a literal.                         *)

MappingKinds ==
    {"positional", "flag", "bool_flag", "repeated_flag", "passthrough", "json_flag", "literal",
     "split_positional", "runtime_control"}
Flagged == {"flag", "bool_flag", "repeated_flag", "json_flag"}
ValidFlag(flag) ==
    /\ flag \notin {"", "-", "--"} /\ Len(flag) <= Most.argument /\ ~HasControl(flag)
    /\ SubSeq(flag, 1, 1) = "-"

\* The kinds of parameter a mapping takes.
Compatible(m, shape) ==
    CASE m.kind = "positional" -> shape.kind = "scalar"
      [] m.kind = "flag" -> shape.kind \in {"scalar", "boolean"}
      [] m.kind = "bool_flag" -> shape.kind = "boolean"
      [] m.kind \in {"repeated_flag", "passthrough"} -> shape.kind = "array"
      [] m.kind = "json_flag" -> shape.kind = "json"
      [] m.kind = "split_positional" ->
            shape.kind = "scalar" /\ m.items > 0 /\ m.item_bytes \in 1..Most.argument
      [] m.kind = "runtime_control" -> TRUE

\* The most arguments and bytes a mapping adds.
Projection(m, shape) ==
    LET flag == IF m.kind \in Flagged THEN Len(m.flag) ELSE 0
    IN  CASE m.kind = "positional" -> [items |-> 1, bytes |-> shape.bytes]
          [] m.kind = "flag" ->
                [items |-> 2, bytes |-> flag + (IF shape.kind = "boolean" THEN 5 ELSE shape.bytes)]
          [] m.kind = "bool_flag" -> [items |-> 1, bytes |-> flag]
          [] m.kind = "repeated_flag" ->
                [items |-> 2 * shape.items, bytes |-> shape.items * (flag + shape.bytes)]
          [] m.kind = "passthrough" -> [items |-> shape.items, bytes |-> shape.items * shape.bytes]
          [] m.kind = "json_flag" -> [items |-> 2, bytes |-> flag + shape.bytes]
          [] m.kind = "split_positional" ->
                [items |-> m.items,
                 bytes |-> IF shape.bytes < m.items * m.item_bytes THEN shape.bytes
                           ELSE m.items * m.item_bytes]
          [] m.kind = "runtime_control" -> [items |-> 0, bytes |-> 0]

\* A text is refused when it has more or longer words than its mapping allows.
Splits(m, v) ==
    /\ Closed(v.text) /\ Len(Words(v.text)) <= m.items
    /\ \A word \in Elements(Words(v.text)) : Len(word) <= m.item_bytes

Scalar(v) == IF v.type = "number" THEN ToString(v.number) ELSE v.text

\* The encoding of an argument in JSON is a token of its size.
Encoded(v) == FoldLeft(LAMBDA token, i : token \o "j", "", [i \in 1..JsonBytes(v) |-> i])

Arguments(m, v) ==
    CASE m.kind = "positional" -> <<Scalar(v)>>
      [] m.kind = "flag" -> IF m.omit_if_empty /\ v.type = "string" /\ v.text = "" THEN <<>>
                            ELSE <<m.flag, Scalar(v)>>
      [] m.kind = "bool_flag" -> IF v.text = "true" THEN <<m.flag>> ELSE <<>>
      [] m.kind = "repeated_flag" ->
            FlattenSeq([i \in DOMAIN v.items |-> <<m.flag, v.items[i].text>>])
      [] m.kind = "passthrough" -> [i \in DOMAIN v.items |-> v.items[i].text]
      [] m.kind = "json_flag" -> <<m.flag, Encoded(v)>>
      [] m.kind = "split_positional" -> Words(v.text)

-----------------------------------------------------------------------------
(* Compiling and lowering an action.                                       *)

VARIABLES
    package,
    stage,       \* "read", "compiled", "refused", "ran", "not lowered"
    catalog,     \* the compiled actions
    input,
    lowered      \* the invocation

vars == <<package, stage, catalog, input, lowered>>

skill == package.skill
overrides == package.overrides
Delivered == overrides.delivery = "canonical_json"
NoText == "none"

Routes == {"execute", "auth_status", "auth_login"}
StdinRefinements == {"inherit", "denied", "optional", "required"}

ActionTyped(a) ==
    /\ a.route \in Routes /\ a.stdin \in StdinRefinements
    /\ \A name \in DOMAIN a.parameters : a.parameters[name].type \in ParameterTypes
    /\ \A m \in Elements(a.mappings) : m.kind \in MappingKinds

TypedAssumption ==
    \A p \in Packages :
        /\ p.overrides.delivery \in {"argv", "canonical_json"}
        /\ \A id \in DOMAIN p.overrides.actions : ActionTyped(p.overrides.actions[id])

-----------------------------------------------------------------------------
(* The controls of the generic command, without its arguments.             *)

BaseTimeout == Or(skill.limits, "timeout", Most.timeout)
StdinBytes == Or(skill.limits, "stdin", Most.stream)

BaseControls ==
    {"timeout_secs"}
        \cup (IF skill.selection = "selectable" THEN {"profile"} ELSE {})
        \cup (IF skill.stdin # "denied" THEN {"stdin"} ELSE {})
        \cup (IF skill.working_directory # "denied" THEN {"working_dir"} ELSE {})
BaseRequired ==
    (IF skill.selection = "selectable" /\ ~skill.default_profile THEN {"profile"} ELSE {})
        \cup (IF skill.stdin = "required" THEN {"stdin"} ELSE {})

\* An action may give up standard input or change whether it is required;
\* canonical JSON takes the place of it.
StdinRefines(a) ==
    IF Delivered
    THEN /\ a.stdin \notin {"optional", "required"}
         /\ skill.stdin = "required" /\ ~skill.injects_stdin
    ELSE a.stdin \in {"optional", "required"} => skill.stdin # "denied"
ControlsOf(a) == BaseControls \ (IF Delivered \/ a.stdin = "denied" THEN {"stdin"} ELSE {})
RequiredControls(a) ==
    CASE Delivered \/ a.stdin \in {"denied", "optional"} -> BaseRequired \ {"stdin"}
      [] ~Delivered /\ a.stdin = "required" -> BaseRequired \cup {"stdin"}
      [] OTHER -> BaseRequired

-----------------------------------------------------------------------------
(* The command an action runs.                                             *)

ExecutableOf(a) == Or(a, "executable", skill.executable)

ValidExecutable(a) ==
    /\ ExecutableOf(a) \in skill.bins
    /\ "executable" \in DOMAIN a => overrides.version = 2

ValidTokens(a, tokens) ==
    /\ Len(tokens) <= Most.items
    /\ FixedArguments(tokens) /\ NoInlineCode(ExecutableOf(a), tokens)
ValidPrefix(a) == ValidTokens(a, skill.prefix \o a.fixed)
ValidSuffix(a) ==
    a.suffix # <<>> => a.fixed # <<>> /\ ValidTokens(a, skill.prefix \o a.fixed \o a.suffix)

\* A model's action and a hook of the lifecycle never share a path.
Overlap(left, right) == IsPrefix(left, right) \/ IsPrefix(right, left)
Reaches(left, right) == IsPrefix(right, left)
PrefixesOverlap(left, right) == Overlap(left, right)

SeparatePaths(a) ==
    CASE ExecutableOf(a) # skill.executable -> a.route = "execute"
      [] ExecutableOf(a) = skill.executable /\ a.route = "execute" ->
            \A hook \in DOMAIN skill.hooks : ~PrefixesOverlap(skill.prefix \o a.fixed, skill.hooks[hook])
      [] OTHER -> /\ a.route \in DOMAIN skill.hooks
                  /\ a.fixed # <<>> /\ IsPrefix(a.fixed, skill.hooks[a.route])

\* Rules over the final arguments: refused prefixes, and prefixes that only
\* some tokens may follow.
RulePrefix(prefix) == Len(prefix) \in 1..Most.prefix /\ FixedArguments(prefix)
RuleTokens(rules) ==
    FlattenSeq(rules.denied) \o FlattenSeq([i \in DOMAIN rules.next |->
        rules.next[i].prefix \o SetToSeq(rules.next[i].allowed)])
ValidRules(rules) ==
    LET prefixes == rules.denied \o [i \in DOMAIN rules.next |-> rules.next[i].prefix]
    IN  /\ Len(rules.denied) <= Most.rules /\ Len(rules.next) <= Most.rules
        /\ \A prefix \in Elements(prefixes) : RulePrefix(prefix)
        /\ Cardinality(Elements(prefixes)) = Len(prefixes)
        /\ \A c \in Elements(rules.next) :
              Cardinality(c.allowed) \in 1..Most.allowed /\ \A t \in c.allowed : FixedArguments(<<t>>)
        /\ Len(RuleTokens(rules)) <= Most.tokens /\ Bytes(RuleTokens(rules)) <= Most.rule_bytes
        /\ \A i, j \in DOMAIN rules.next :
              i # j => ~Overlap(rules.next[i].prefix, rules.next[j].prefix)

Obeys(arguments, rules) ==
    /\ \A prefix \in Elements(rules.denied) : ~IsPrefix(prefix, arguments)
    /\ \A c \in Elements(rules.next) :
          IsPrefix(c.prefix, arguments) =>
              Len(arguments) > Len(c.prefix) /\ arguments[Len(c.prefix) + 1] \in c.allowed

-----------------------------------------------------------------------------
(* Parameters and mappings.                                                *)

RuntimeControls(a) == {m.parameter : m \in {n \in Elements(a.mappings) : n.kind = "runtime_control"}}
ParameterLimit(a, name) ==
    IF name \in RuntimeControls(a) THEN Most.control
    ELSE IF Delivered THEN StdinBytes ELSE Most.argument

ValidParameter(a, name) ==
    /\ name \in Names /\ name \notin {"profile", "stdin", "working_dir", "timeout_secs"}
    /\ name \notin ControlsOf(a)
    /\ Described(a.parameters[name].description)
    /\ Declarable(a.parameters[name], ParameterLimit(a, name))

ShapeOf(a, name) == Shape(a.parameters[name], ParameterLimit(a, name))

\* What a mapping adds at most; the running sums only grow, so that their
\* last value decides.
Projected(a, m) ==
    IF m.kind = "literal" THEN [items |-> Len(m.arguments), bytes |-> Bytes(m.arguments)]
    ELSE Projection(m, ShapeOf(a, m.parameter))
ProjectedItems(a) == Total([i \in DOMAIN a.mappings |-> Projected(a, a.mappings[i]).items])
ProjectedBytes(a) == Total([i \in DOMAIN a.mappings |-> Projected(a, a.mappings[i]).bytes])

ValidMappings(a) ==
    LET mapped == SelectSeq(a.mappings, LAMBDA m : m.kind # "literal")
        names == {m.parameter : m \in Elements(mapped)}
    IN  /\ \A m \in Elements(a.mappings) : m.kind = "literal" => FixedArguments(m.arguments)
        /\ names = DOMAIN a.parameters /\ Len(mapped) = Cardinality(names)
        /\ \A m \in Elements(mapped) :
              Compatible(m, ShapeOf(a, m.parameter)) /\ (m.kind \in Flagged => ValidFlag(m.flag))
        /\ ProjectedItems(a) <= Most.items /\ ProjectedBytes(a) <= Most.combined

\* The policy of an action adds to the one of the contract.
Creates(a) ==
    \E name \in DOMAIN a.parameters :
        a.parameters[name].type = "workspace_path" /\ a.parameters[name].access # "read_file"
UsesPaths(a) == \E name \in DOMAIN a.parameters : a.parameters[name].type = "workspace_path"

Policy(a) ==
    [approvals |-> {skill.floor.approval} \cup a.policy.approvals
                     \cup (IF Creates(a) THEN {"delegated_workspace_write"} ELSE {}),
     grants |-> skill.floor.grants \cup a.policy.grants,
     scopes |-> skill.floor.scopes \cup a.policy.scopes \cup (IF UsesPaths(a) THEN {"workspace"} ELSE {}),
     authorities |-> skill.floor.authorities \cup a.policy.authorities]

ValidPolicy(a) ==
    \A kind \in {"grants", "scopes", "authorities"} :
        /\ a.policy[kind] \subseteq Names
        /\ Cardinality(a.policy[kind]) <= Most.policy /\ Cardinality(Policy(a)[kind]) <= Most.policy

\* The timeout of an action lowers the one of the contract.
TimeoutRefines(timeout, base) == timeout \in 1..base

-----------------------------------------------------------------------------
(* Compiling.                                                              *)

ValidId(id) == id \in Names /\ Len(skill.id) + 1 + Len(id) <= Most.name

ValidAction(id, a) ==
    /\ ValidId(id)
    /\ Described(a.description)
    /\ ValidExecutable(a) /\ ValidPrefix(a) /\ ValidSuffix(a) /\ SeparatePaths(a)
    /\ Cardinality(DOMAIN a.parameters) <= Most.parameters /\ Len(a.mappings) <= Most.mappings
    /\ ValidRules(a.rules)
    /\ Given(a, "timeout", LAMBDA t : TimeoutRefines(t, BaseTimeout))
    /\ StdinRefines(a)
    /\ \A name \in DOMAIN a.parameters : ValidParameter(a, name)
    /\ IF Delivered THEN a.mappings = <<>> /\ a.route = "execute" ELSE ValidMappings(a)
    /\ ValidPolicy(a)

ValidPackage ==
    /\ overrides.version \in {1, 2} /\ (Delivered => overrides.version = 2)
    /\ DOMAIN overrides.actions # {} /\ Cardinality(DOMAIN overrides.actions) <= Most.actions
    /\ \A id \in DOMAIN overrides.actions : ValidAction(id, overrides.actions[id])

CompiledAction(a) ==
    [executable |-> ExecutableOf(a), fixed |-> a.fixed, suffix |-> a.suffix, route |-> a.route,
     mappings |-> a.mappings, rules |-> a.rules, timeout |-> Or(a, "timeout", BaseTimeout),
     parameters |-> [name \in DOMAIN a.parameters |->
                        Completed(a.parameters[name], ParameterLimit(a, name))],
     known |-> ControlsOf(a) \cup DOMAIN a.parameters,
     required |-> RequiredControls(a)
                    \cup {name \in DOMAIN a.parameters : a.parameters[name].required},
     policy |-> Policy(a)]

NotLowered == [action |-> "none", arguments |-> <<>>, mapped |-> <<>>, stdin |-> NoText, timeout |-> 0]

Init ==
    /\ package \in Packages
    /\ stage = "read" /\ catalog = <<>> /\ input = <<>> /\ lowered = NotLowered

Compile ==
    /\ stage = "read" /\ ValidPackage
    /\ stage' = "compiled"
    /\ catalog' = [id \in DOMAIN overrides.actions |-> CompiledAction(overrides.actions[id])]
    /\ UNCHANGED <<package, input, lowered>>

RefuseToCompile ==
    /\ stage = "read" /\ ~ValidPackage
    /\ stage' = "refused"
    /\ UNCHANGED <<package, catalog, input, lowered>>

-----------------------------------------------------------------------------
(* Lowering.                                                               *)

Has(a, in, name) == name \in DOMAIN in \/ "default" \in DOMAIN a.parameters[name]
Value(a, in, name) == IF name \in DOMAIN in THEN in[name] ELSE a.parameters[name].default

\* Every required name is there, or has a default.
Complete(a, in) ==
    \A name \in a.required \ DOMAIN in :
        name \in DOMAIN a.parameters /\ "default" \in DOMAIN a.parameters[name]

Used(a, in) ==
    SelectSeq(a.mappings, LAMBDA m : m.kind = "literal" \/ Has(a, in, m.parameter))
Mapped(a, in) ==
    FlattenSeq([i \in DOMAIN Used(a, in) |->
        LET m == Used(a, in)[i]
        IN  CASE m.kind = "literal" -> m.arguments
              [] m.kind = "runtime_control" -> <<>>
              [] OTHER -> Arguments(m, Value(a, in, m.parameter))])
Final(a, in) == a.fixed \o Mapped(a, in) \o a.suffix

\* Canonical JSON is one object with the parameters that have a value.
Payload(a, in) ==
    [type |-> "object", text |-> "", number |-> 0, key |-> "",
     items |-> SetToSeq({[Value(a, in, name) EXCEPT !.key = name] :
                            name \in {n \in DOMAIN a.parameters : Has(a, in, n)}})]

ValuesTaken(a, in) ==
    IF Delivered
    THEN /\ \A name \in DOMAIN a.parameters :
              Has(a, in, name) => Takes(a.parameters[name], Value(a, in, name))
         /\ JsonBytes(Payload(a, in)) <= StdinBytes
    ELSE \A m \in Elements(a.mappings) :
            m.kind # "literal" /\ Has(a, in, m.parameter) =>
                /\ Takes(a.parameters[m.parameter], Value(a, in, m.parameter))
                /\ m.kind = "split_positional" => Splits(m, Value(a, in, m.parameter))

ArgumentsFit(tokens) ==
    /\ Len(tokens) <= Most.items /\ Bytes(tokens) <= Most.combined
    /\ \A token \in Elements(tokens) : Len(token) <= Most.argument /\ ~HasControl(token)

ControlsTaken(a, in) ==
    /\ \A name \in {"profile", "stdin", "working_dir"} \cap DOMAIN in : in[name].type = "string"
    /\ "timeout_secs" \in DOMAIN in =>
          in["timeout_secs"].type = "number" /\ in["timeout_secs"].number \in 1..a.timeout

Lowerable(a, in) ==
    /\ DOMAIN in \subseteq a.known /\ Complete(a, in)
    /\ ValuesTaken(a, in)
    /\ ArgumentsFit(Final(a, in)) /\ Obeys(Final(a, in), a.rules)
    /\ ControlsTaken(a, in)

Lower ==
    /\ stage = "compiled"
    /\ \E id \in DOMAIN catalog, in \in Inputs :
        LET a == catalog[id]
        IN  /\ Lowerable(a, in)
            /\ input' = in
            /\ lowered' =
                 [action |-> id, arguments |-> Final(a, in), mapped |-> Mapped(a, in),
                  stdin |-> CASE Delivered -> "generated"
                              [] ~Delivered /\ "stdin" \in DOMAIN in -> in["stdin"].text
                              [] OTHER -> NoText,
                  timeout |-> IF "timeout_secs" \in DOMAIN in THEN in["timeout_secs"].number ELSE a.timeout]
    /\ stage' = "ran"
    /\ UNCHANGED <<package, catalog>>

RefuseToLower ==
    /\ stage = "compiled"
    /\ \E id \in DOMAIN catalog, in \in Inputs : ~Lowerable(catalog[id], in) /\ input' = in
    /\ stage' = "not lowered"
    /\ UNCHANGED <<package, catalog, lowered>>

Next == Compile \/ RefuseToCompile \/ Lower \/ RefuseToLower

-----------------------------------------------------------------------------
Ran == stage = "ran"
Authored == overrides.actions[lowered.action]

\* Whatever a model fills in, an action of the package's own executable that
\* is not routed to the broker never runs a hook of the lifecycle: the paths
\* are compared when the action is compiled, before its arguments are known
\* (validate_auth_path_separation, prefixes_overlap).
AuthPathsStaySeparate ==
    Ran /\ Authored.route = "execute" /\ ExecutableOf(Authored) = skill.executable =>
        \A hook \in DOMAIN skill.hooks : ~IsPrefix(skill.hooks[hook], skill.prefix \o lowered.arguments)

\* What the mappings of an accepted invocation add never exceeds what they
\* were projected to add when the action was compiled (mapping_projection,
\* lower_mapping): a projection that fits the limits is a promise.
InvocationsFitTheProjection ==
    Ran => /\ Len(lowered.mapped) <= ProjectedItems(Authored)
           /\ Bytes(lowered.mapped) <= ProjectedBytes(Authored)

\* "Monotonic typed-action composition": an invocation never has a timeout,
\* a standard input or a policy that its contract did not allow, and an
\* action that creates files is approved as one (lines 1-8 of the source).
RefinementIsMonotonic ==
    Ran => /\ lowered.timeout <= BaseTimeout
           /\ lowered.stdin # NoText => skill.stdin # "denied"
           /\ skill.stdin = "required" /\ Authored.stdin \notin {"denied", "optional"}
                => lowered.stdin # NoText
           /\ LET p == catalog[lowered.action].policy
              IN  /\ skill.floor.approval \in p.approvals /\ skill.floor.grants \subseteq p.grants
                  /\ skill.floor.scopes \subseteq p.scopes
                  /\ skill.floor.authorities \subseteq p.authorities
                  /\ Creates(Authored) => "delegated_workspace_write" \in p.approvals
=============================================================================
