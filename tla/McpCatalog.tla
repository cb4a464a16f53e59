------------------------------ MODULE McpCatalog ------------------------------
(***************************************************************************)
(* What a skill may publish of a tool server it does not write: the        *)
(* discovery policy that manifest_validation.rs accepts, the catalog that  *)
(* manifest_synthesis.rs derives, the decision on each discovered tool     *)
(* (mcp_catalog_policy.rs) and the five actions the product offers for     *)
(* every such skill (mcp_catalog_projection.rs), all under                 *)
(* src/tool-runtime-core/src.                                              *)
(*                                                                         *)
(* A dotted name is the sequence of its labels, of one byte each.  The     *)
(* server may offer other tools at each discovery; its schemas and         *)
(* descriptions are not part of the policy.                                *)
(***************************************************************************)
EXTENDS Integers, Sequences, SequencesExt, FiniteSetsExt

CONSTANTS
    Skills,      \* the skills a host may load
    Offers,      \* the sets of tools a server may list
    Malformed,   \* references, aliases and terms that fail their predicate
    Unportable,  \* and dotted names
    MaxName,     \* MAX_SYNTHESIZED_TOOL_NAME_BYTES
    MaxTool,     \* MAX_DISCOVERED_MCP_TOOL_NAME_BYTES
    MaxTools,    \* MAX_DISCOVERED_MCP_TOOLS
    MaxRules, MaxEntries, MaxReferences, \* MAX_DISCOVERY_RULES, MAX_POLICY_ENTRIES, ...
    MaxDescription, MaxDescriptions

\* Names are sequences of labels, and a skill's floor has a set of each kind.
CatalogAssumption ==
    /\ \A s \in Skills :
          /\ s.id \in Seq(STRING) /\ s.discovery.namespace \in Seq(STRING)
          /\ IsFiniteSet(s.discovery.allow)
          /\ DOMAIN s.floor.sets = {"grants", "scopes", "authorities"}
    /\ \A tools \in Offers : tools \subseteq Seq(STRING)

VARIABLES
    skill,
    contract,  \* McpCatalogPolicyContract, or Nothing
    offered,   \* what the server listed last
    catalog,   \* remote name -> what is published for it
    surface    \* action -> its parameters, or Nothing

vars == <<skill, contract, offered, catalog, surface>>

Nothing == [n \in {} |-> 0]
None == "none"
Bytes(name) == 2 * Len(name) - 1
Portable(names) == names \cap Malformed = {}

-----------------------------------------------------------------------------
(* The discovery policy a skill may declare.                               *)

References(p) == p.grants \cup p.scopes \cup p.authorities
Total(measure(_), policies) ==
    FoldLeft(LAMBDA sum, tool : sum + measure(policies[tool]), 0, SetToSeq(DOMAIN policies))
ReferenceCount(p) == Cardinality(p.approvals) + Cardinality(p.grants) + Cardinality(p.scopes) + Cardinality(p.authorities)

CollectionsFit(d) ==
    /\ \A rules \in {d.allow, d.deny, DOMAIN d.policies} : Cardinality(rules) <= MaxRules
    /\ \A tool \in DOMAIN d.policies :
        LET p == d.policies[tool]
        IN  \A part \in {p.grants, p.scopes, p.authorities} : Cardinality(part) <= MaxEntries
    /\ Total(ReferenceCount, d.policies) <= MaxReferences
    /\ Total(LAMBDA p : p.description, d.policies) <= MaxDescriptions

\* Local rules may say more of a tool only if they do not hide it.
Eligible(d, tool) == tool \notin d.deny /\ (d.allow # {} => tool \in d.allow)

RulesFit(d) ==
    /\ ({d.namespace} \cup d.allow \cup d.deny \cup DOMAIN d.policies) \cap Unportable = {}
    /\ \A tool \in DOMAIN d.policies :
        /\ Eligible(d, tool)
        /\ d.policies[tool].description \in 0..MaxDescription
        /\ Portable(References(d.policies[tool]))

\* HTTPS, or HTTP to the machine itself, without credentials or a fragment.
ValidEndpoint(e) == e.bare /\ (e.scheme = "https" \/ (e.scheme = "http" /\ e.loopback))
CanonicalEndpoint(e) == ValidEndpoint(e) /\ ~e.query

EndpointsFit(d, transport) ==
    /\ d.aliases # Nothing => transport.kind = "http" /\ d.default # None
    /\ Portable(DOMAIN d.aliases)
    /\ \A alias \in DOMAIN d.aliases : ValidEndpoint(d.aliases[alias])
    /\ d.default # None => d.default \in DOMAIN d.aliases

OAuthFits(d, transport) ==
    d.oauth # Nothing =>
        /\ transport.kind = "http" /\ Portable(d.oauth.scopes)
        /\ CanonicalEndpoint(d.oauth.issuer) /\ CanonicalEndpoint(transport.endpoint)
        /\ \A alias \in DOMAIN d.aliases : CanonicalEndpoint(d.aliases[alias])

\* A tool that always completes a purchase carries the resource the purchase
\* uses; one that does so under a condition gets it when the condition holds.
Resourced(d, tool) == d.commerce.scope \in d.policies[tool].scopes /\ d.commerce.authority \in d.policies[tool].authorities
Resourceless(d, tool) ==
    d.commerce.scope \notin d.policies[tool].scopes /\ d.commerce.authority \notin d.policies[tool].authorities

IsCommerce(d, tool) == tool \in DOMAIN d.policies /\ d.policies[tool].risk = "commerce"
FinalToolsDeclared(d) == \A tool \in d.commerce.final \cup d.commerce.conditional : IsCommerce(d, tool)
FinalToolsFit(d) ==
    /\ FinalToolsDeclared(d)
    /\ \A tool \in d.commerce.final : Resourced(d, tool)
    /\ \A tool \in d.commerce.conditional : Resourceless(d, tool)

CommerceFits(d) ==
    d.commerce # Nothing =>
        /\ FinalToolsFit(d)
        /\ Portable({d.commerce.scope, d.commerce.authority, d.commerce.amount} \cup d.commerce.terms)
        /\ d.commerce.cart_terms # {} /\ d.commerce.fields # {}
        /\ d.commerce.cartless \subseteq DOMAIN d.aliases
        /\ d.commerce.allow_cartless => d.commerce.cartless = {}
        /\ d.commerce.final \cup d.commerce.conditional # {} \/ d.commerce.terms # {}

ValidDiscovery(s) ==
    /\ CollectionsFit(s.discovery) /\ RulesFit(s.discovery) /\ EndpointsFit(s.discovery, s.transport)
    /\ OAuthFits(s.discovery, s.transport) /\ CommerceFits(s.discovery)
    /\ s.transport.kind = "http" =>
        /\ ValidEndpoint(s.transport.endpoint)
        /\ s.auth \in {"none", "oauth_session", "delegated_credential"}
        /\ (s.auth = "oauth_session") <=> (s.discovery.oauth # Nothing)
    /\ s.transport.kind = "stdio" => s.auth # "browser_profile"
    /\ \A part \in DOMAIN s.floor.sets : Portable(s.floor.sets[part]) /\ Cardinality(s.floor.sets[part]) <= MaxEntries

-----------------------------------------------------------------------------
(* The policy that a contract compiles to, and what it decides.            *)

RiskApproval ==
    [read_only |-> "ordinary", unclassified |-> "external_side_effect", external_side_effect |-> "external_side_effect",
     workspace_write |-> "workspace_write", native_ui_control |-> "native_ui_control", commerce |-> "commerce_checkout"]

Namespace(s) == IF s.discovery.namespace = <<>> THEN s.id ELSE s.id \o s.discovery.namespace

MaxListed(d) == IF d.allow = {} THEN MaxTools ELSE Min({Cardinality(d.allow \ d.deny), MaxTools})

Unreviewed == [risk |-> "unclassified", description |-> 0, approvals |-> {}, grants |-> {}, scopes |-> {}, authorities |-> {}]

Composed(floor, p) ==
    [risk |-> p.risk, description |-> p.description, approvals |-> {floor.approval, RiskApproval[p.risk]} \cup p.approvals,
     grants |-> floor.sets.grants \cup p.grants, scopes |-> floor.sets.scopes \cup p.scopes,
     authorities |-> floor.sets.authorities \cup p.authorities]

\* Policies that fit alone need not fit together with the skill's floor.
FitsTogether(policy) ==
    \A part \in {policy.grants, policy.scopes, policy.authorities} : Cardinality(part) <= MaxEntries

CompiledPoliciesFit(s) == \A tool \in DOMAIN s.discovery.policies : FitsTogether(Composed(s.floor, s.discovery.policies[tool]))
SynthesisFits(s) ==
    /\ s.id \notin Unportable /\ s.protocol = "mcp"
    /\ s.discovery.namespace # <<>> => Bytes(Namespace(s)) <= MaxName
CompileFits(s) == SynthesisFits(s) /\ CompiledPoliciesFit(s)

CompiledContract(s) ==
    [namespace |-> Namespace(s), allow |-> s.discovery.allow, deny |-> s.discovery.deny, max_tools |-> MaxListed(s.discovery),
     floor |-> s.floor, policies |-> s.discovery.policies]

NameFits(c, tool) == tool \notin Unportable /\ Bytes(tool) <= MaxTool /\ Bytes(c.namespace \o tool) <= MaxName
LocalName(c, tool) == c.namespace \o tool

Denied(c, tool) == tool \in c.deny \/ (c.allow # {} /\ tool \notin c.allow)
EffectivePolicy(c, tool) == Composed(c.floor, IF tool \in DOMAIN c.policies THEN c.policies[tool] ELSE Unreviewed)

Published(c, tool) == ~Denied(c, tool) /\ NameFits(c, tool) /\ FitsTogether(EffectivePolicy(c, tool))

-----------------------------------------------------------------------------
(* The actions of the product.                                             *)

Endpoint(s) == IF s.discovery.aliases = Nothing THEN <<>> ELSE <<s.parameters.endpoint>>
Profile(s) == IF s.selectable THEN <<s.parameters.profile>> ELSE <<>>
Common(s) == Endpoint(s) \o Profile(s)
CallParameters(s) ==
    <<"tool_name", "arguments_json", "risk", "intent_summary">>
        \o (IF s.discovery.commerce = Nothing THEN <<>> ELSE <<s.discovery.commerce.amount>>)

Distinct(names) == \A i, j \in DOMAIN names : names[i] = names[j] => i = j
CommonDistinct(s) == Distinct(Common(s))
ProjectionFits(s) == CommonDistinct(s) /\ Distinct(Common(s) \o CallParameters(s))

Actions(s) ==
    [action \in {"status", "auth_start", "list_tools", "clear_auth", "call_tool"} |->
        IF action = "call_tool" THEN Common(s) \o CallParameters(s) ELSE Common(s)]

-----------------------------------------------------------------------------
Init == skill \in Skills /\ contract = Nothing /\ offered = {} /\ catalog = Nothing /\ surface = Nothing

Compile ==
    /\ contract = Nothing /\ ValidDiscovery(skill) /\ CompileFits(skill)
    /\ contract' = CompiledContract(skill)
    /\ UNCHANGED <<skill, offered, catalog, surface>>

\* A tool whose name or policy is refused is not published.
Discover(tools) ==
    /\ contract # Nothing
    /\ offered' = tools
    /\ catalog' =
            [tool \in {t \in tools : Published(contract, t)} |->
                [name |-> LocalName(contract, tool), policy |-> EffectivePolicy(contract, tool)]]
    /\ UNCHANGED <<skill, contract, surface>>

Project ==
    /\ surface = Nothing /\ skill.protocol = "mcp" /\ ~skill.authored /\ ValidDiscovery(skill) /\ ProjectionFits(skill)
    /\ surface' = Actions(skill)
    /\ UNCHANGED <<skill, contract, offered, catalog>>

Next == Compile \/ (\E tools \in Offers : Discover(tools)) \/ Project
Spec == Init /\ [][Next]_vars

-----------------------------------------------------------------------------
(* Whatever the server lists, a published tool asks for at least the        *)
(* skill's floor and what its risk asks for; a tool that completes a        *)
(* purchase asks for its approval and its resource; and no tool the skill   *)
(* admits is lost because its policy, though validated, is refused at       *)
(* discovery (McpCatalogPolicyContract::compile and decision).              *)
CatalogIsAsReviewed ==
    contract # Nothing =>
        /\ \A tool \in DOMAIN catalog :
            LET policy == catalog[tool].policy
            IN  /\ Eligible(skill.discovery, tool)
                /\ skill.floor.approval \in policy.approvals /\ RiskApproval[policy.risk] \in policy.approvals
                /\ skill.floor.sets.grants \subseteq policy.grants
                /\ tool \notin DOMAIN skill.discovery.policies => policy.risk = "unclassified"
                /\ skill.discovery.commerce # Nothing /\ tool \in skill.discovery.commerce.final =>
                    /\ "commerce_checkout" \in policy.approvals
                    /\ skill.discovery.commerce.scope \in policy.scopes
        /\ \A tool \in offered : Eligible(skill.discovery, tool) /\ NameFits(contract, tool) => tool \in DOMAIN catalog
        /\ skill.discovery.allow # {} => Cardinality(DOMAIN catalog) <= Cardinality(skill.discovery.allow)
        /\ \A a, b \in DOMAIN catalog : catalog[a].name = catalog[b].name => a = b

(* The parameter that selects an endpoint, the one that selects a profile   *)
(* and the one that carries the reviewed amount, each named by another part *)
(* of the package, never coincide with one another nor with the parameters  *)
(* the product adds (insert_unique_parameter_name).                         *)
ParametersDiffer ==
    surface # Nothing => \A action \in DOMAIN surface : Distinct(surface[action])
==============================================================================
