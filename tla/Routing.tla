------------------------------- MODULE Routing ------------------------------
(***************************************************************************)
(* How a request finds the keys that may serve it: the access key it       *)
(* carries says which rule groups are allowed, one of them becomes the     *)
(* group of the request, the rules of that group choose target keys, and   *)
(* the router joins them with the endpoints and the model maps.  These are *)
(* pure functions of the rows; Catalog.tla changes the rows.               *)
(*                                                                         *)
(* Left out: what changes while requests run (circuit, limits, agents, the *)
(* order of the candidates), which ProxyFailover.tla, KeyGuards.tla and    *)
(* Serving.tla model, and the provider filter.  Rules of one group have    *)
(* one priority here, so the first of several is the one with least id.    *)
(***************************************************************************)
EXTENDS Integers, Sequences, FiniteSets, FiniteSetsExt, SequencesExt

CONSTANTS
    Default,    \* the rule group "default"
    AnyFormat   \* the entry format "any" of a caller that names none

\* A key is a member of the default group and of the groups its row lists.
RuleGroups(key) == {Default} \cup ToSet(key.groups)

InRuleGroup(key, g) == g \in RuleGroups(key)

Matches(rule, m, x) ==
    m \in rule.pattern /\ (x = AnyFormat \/ x \in rule.config.exposures)

ActiveRules(db, g) ==
    {r \in DOMAIN db.rules : db.rules[r].group = g /\ db.rules[r].active}

Selection(targets, matched, supported) ==
    [targets |-> targets, matched |-> matched, supported |-> supported]

SelectRuleTargets(db, g, m, x) ==
    LET rules == ActiveRules(db, g)
        found == {r \in rules : Matches(db.rules[r], m, x)}
    IN  IF rules = {} /\ g = Default THEN Selection({}, TRUE, TRUE)
        ELSE IF found # {}
        THEN Selection(db.rules[Min(found)].config.targets, TRUE, TRUE)
        ELSE Selection({}, FALSE,
                \E r \in rules : x = AnyFormat \/ x \in db.rules[r].config.exposures)

\* Mutant: every caller may fall back to the default group.
EffectiveSelectionOpen(db, g, m, x, allowDefault) ==
    LET own == SelectRuleTargets(db, g, m, x)
        fallback == SelectRuleTargets(db, Default, m, x)
    IN  IF own.supported /\ own.matched
        THEN {[group |-> g, targets |-> own.targets]}
        ELSE {[group |-> Default, targets |-> fallback.targets]}

\* The selection that stands, with the group it was made for; {} when there
\* is none.
EffectiveSelection(db, g, m, x, allowDefault) ==
    LET own == SelectRuleTargets(db, g, m, x)
        fallback == SelectRuleTargets(db, Default, m, x)
    IN  {s \in {[group |-> g, targets |-> own.targets]} :
            own.supported /\ own.matched}
        \cup
        {s \in {[group |-> Default, targets |-> fallback.targets]} :
            /\ own.supported /\ ~own.matched
            /\ g # Default /\ allowDefault
            /\ fallback.supported /\ fallback.matched}

\* Keys in service that the selection lets in: its targets, whatever groups
\* they are in, or the members of the group when it names no target.
Eligible(db, s) ==
    {k \in DOMAIN db.keys :
        /\ db.keys[k].active
        /\ db.endpoints[db.keys[k].endpoint].active
        /\ IF s.targets # {} THEN k \in s.targets
                             ELSE InRuleGroup(db.keys[k], s.group)}

HasMap(db, k, m) ==
    \E i \in DOMAIN db.maps :
        db.maps[i].endpoint = db.keys[k].endpoint /\ db.maps[i].alias = m

GetCandidates(db, g, m, x, allowDefault, allowUnmapped) ==
    LET standing == {s \in EffectiveSelection(db, g, m, x, allowDefault) :
                        s.group = Default \/ s.targets # {}}
        s == CHOOSE s \in standing : TRUE
        mapped == {k \in Eligible(db, s) : HasMap(db, k, m)}
    IN  IF standing = {} THEN [group |-> g, keys |-> {}]
        ELSE [group |-> s.group,
              keys |-> IF mapped = {} /\ allowUnmapped THEN Eligible(db, s)
                                                       ELSE mapped]

-----------------------------------------------------------------------------
\* The groups an access key allows, in its order; none listed means default.
AllowedGroups(access) ==
    IF access.groups = <<>> THEN <<Default>> ELSE access.groups

\* A group the access key does not allow is replaced by its first group.
ResolveRuleGroup(access, requested) ==
    LET allowed == AllowedGroups(access)
    IN  IF requested \in ToSet(allowed) THEN requested ELSE allowed[1]

\* The rows of the access keys that a presented token matches.
Accepted(db, token) ==
    {i \in DOMAIN db.access : db.access[i].token = token /\ db.access[i].active}

ProxyCandidates(db, access, requested, m, x) ==
    GetCandidates(db, ResolveRuleGroup(access, requested), m, x,
                  Default \in ToSet(AllowedGroups(access)), TRUE)

-----------------------------------------------------------------------------
\* The admin page that runs the router itself.
RouteTest(db, g, m, x) == GetCandidates(db, g, m, x, TRUE, FALSE)

\* The admin page that explains a route, with a selection of its own.
MatchingRouteRule(db, g, m, x) ==
    LET found == {r \in ActiveRules(db, g) : Matches(db.rules[r], m, x)}
    IN  IF found = {} THEN {} ELSE db.rules[Min(found)].config.targets

\* Mutant: the default group is not looked at.
ExplainPolicyOfGroup(db, g, m, x) ==
    [group |-> g, targets |-> MatchingRouteRule(db, g, m, x)]

ExplainPolicy(db, g, m, x) ==
    LET own == MatchingRouteRule(db, g, m, x)
    IN  IF own # {} \/ g = Default
        THEN [group |-> g, targets |-> own]
        ELSE [group |-> Default,
              targets |-> MatchingRouteRule(db, Default, m, x)]

RouteExplain(db, g, m, x) ==
    LET s == ExplainPolicy(db, g, m, x)
    IN  [group |-> s.group,
         keys |-> {k \in Eligible(db, s) : HasMap(db, k, m)}]
=============================================================================
