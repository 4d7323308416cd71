------------------------------- MODULE Catalog ------------------------------
(***************************************************************************)
(* The admin API: the handlers that create, change and delete endpoints,   *)
(* their keys, routing rules, access keys and model maps, and the probe    *)
(* that rewrites the model maps of an endpoint.                            *)
(*                                                                         *)
(* Who may serve a rule group is written down twice, in the groups of the  *)
(* keys and in the targets of the rules, and the handlers keep the two in  *)
(* step by hand.  A handler is two steps here: it reads the rows and works *)
(* out its writes (the action named after it), and later its session       *)
(* commits them (Commit), fails, or is rolled back.  Other handlers may    *)
(* commit in between: no row is locked and no version is compared.         *)
(*                                                                         *)
(* Left out: the audit row each commit carries along, names, weights,      *)
(* limits and secrets of keys, strategies (targets are a set), and the     *)
(* spelling of group names (all spellings of a group are one value).       *)
(***************************************************************************)
EXTENDS Routing, UnitOfWork, TLC

CONSTANTS
    Admins,         \* handlers that run at the same time
    Groups,         \* names a rule group may get, other than Default
    Formats,        \* entry formats a rule may list
    FormatLists,    \* the sets of formats a payload may name
    Models,
    Discoveries,    \* what a probe may find: sets of models
    MemberLists,    \* the lists of groups a payload may name
    TargetIds,      \* the ids a payload may name as targets of a rule
    Populations,    \* the databases a run starts from
    ReusesIds,      \* TRUE for SQLite, which gives a deleted last id again
    MaxCalls        \* bound: calls of handlers in a behaviour

Tables == {"endpoints", "keys", "rules", "access", "maps"}

\* A list names a group once (normalize_rule_groups).
ASSUME CatalogAssumption ==
    /\ Default \notin Groups /\ AnyFormat \notin Formats
    /\ ReusesIds \in BOOLEAN /\ MaxCalls \in Nat /\ IsFiniteSet(Admins)
    /\ FormatLists \subseteq SUBSET Formats /\ TargetIds \subseteq Nat \ {0}
    /\ \A found \in Discoveries : found \subseteq Models /\ IsFiniteSet(found)
    /\ MemberLists \subseteq Seq(Groups \cup {Default})
    /\ \A groups \in MemberLists : IsInjective(groups)

Targeted(b) == UNION {b.rules[r].config.targets :
                        r \in {i \in DOMAIN b.rules : b.rules[i].group # Default}}

\* Every column of every row has its type, and a key or a map has its
\* endpoint, when tokens up to lastToken were given out.  A target of a rule
\* is any id: the column is a list of numbers and refers to no table.
WellFormed(b, lastToken) ==
    /\ \A e \in DOMAIN b.endpoints : b.endpoints[e] \in [active : BOOLEAN]
    /\ \A k \in DOMAIN b.keys :
        /\ b.keys[k] \in [endpoint : DOMAIN b.endpoints, active : BOOLEAN,
                           groups : Seq(Groups \cup {Default})]
        /\ IsInjective(b.keys[k].groups)
    /\ \A r \in DOMAIN b.rules :
        b.rules[r] \in [group : Groups \cup {Default}, active : BOOLEAN,
                        pattern : SUBSET Models,
                        config : [targets : SUBSET (Nat \ {0}),
                                  exposures : SUBSET Formats]]
    /\ \A i \in DOMAIN b.access :
        b.access[i] \in [groups : Seq(Groups \cup {Default}), active : BOOLEAN,
                         token : 1 .. lastToken]
    /\ \A i \in DOMAIN b.maps :
        b.maps[i] \in [endpoint : DOMAIN b.endpoints, alias : Models,
                       real : Models, managed : BOOLEAN]

\* The two records of who serves a group agree, but for some keys: a key
\* lists a group exactly when some rule of the group targets it.
Membership(b, excused) ==
    /\ Targeted(b) \subseteq DOMAIN b.keys \cup excused
    /\ \A k \in DOMAIN b.keys \ excused, g \in Groups :
        InRuleGroup(b.keys[k], g) <=>
            \E r \in DOMAIN b.rules :
                b.rules[r].group = g /\ k \in b.rules[r].config.targets

\* No two rules of a group list the same entry format.
Disjoint(b) ==
    \A r, s \in DOMAIN b.rules :
        r # s /\ b.rules[r].group = b.rules[s].group
              /\ b.rules[r].group # Default
        => b.rules[r].config.exposures \cap b.rules[s].config.exposures = {}

\* The databases to start from are sound, and every access key has a token
\* of its own; those issued first are 1, 2, ...
ASSUME PopulationsAssumption ==
    \A b \in Populations :
        /\ DOMAIN b = Tables
        /\ \A t \in Tables : DOMAIN b[t] \subseteq Nat \ {0}
                             /\ IsFiniteSet(DOMAIN b[t])
        /\ WellFormed(b, Cardinality(DOMAIN b.access))
        /\ \A i, j \in DOMAIN b.access :
            b.access[i].token = b.access[j].token => i = j
        /\ Membership(b, {}) /\ Disjoint(b)

VARIABLES
    db,         \* the committed rows
    last,       \* table -> the highest id it ever gave out
    jobs,       \* handler -> its session, or Idle
    calls,      \* calls that are open or committed
    tokens,     \* access tokens issued so far: 1 .. tokens
    raced,      \* history: keys or rules were written from rows gone stale
    orphans,    \* history: ids that a handler wrote or left in targets
                \* although no key has them
    revoked     \* history: tokens replaced or deleted

vars == <<db, last, jobs, calls, tokens, raced, orphans, revoked>>

Idle == [op |-> "idle"]
New == -1           \* the id of a row not yet written

-----------------------------------------------------------------------------
(* The helpers the handlers share.                                         *)

\* Mutant: groups a key leaves keep it among their targets.
SyncTargetsOnlyJoins(rules, before, after) ==
    [r \in DOMAIN rules |->
        IF rules[r].group = Default THEN rules[r]
        ELSE [rules[r] EXCEPT !.config.targets =
                @ \cup {k \in DOMAIN after : rules[r].group \in after[k]}]]

\* Mutant: the default rule is a rule like every other.
SyncTargetsOfDefault(rules, before, after) ==
    [r \in DOMAIN rules |->
        LET g == rules[r].group IN
        [rules[r] EXCEPT !.config.targets =
            (@ \ {k \in DOMAIN before : g \in before[k] \ after[k]})
            \cup {k \in DOMAIN after : g \in after[k]}]]

\* The groups of one key.
For(k, groups) == [key \in {k} |-> groups]

\* A key whose groups change joins the targets of every rule of its groups
\* and leaves those of the groups it had; the default rule has no targets.
\* Both arguments are functions from keys to sets of groups.
SyncTargets(rules, before, after) ==
    [r \in DOMAIN rules |->
        IF rules[r].group = Default THEN rules[r]
        ELSE LET g == rules[r].group IN
             [rules[r] EXCEPT !.config.targets =
                (@ \ {k \in DOMAIN before : g \in before[k] \ after[k]})
                \cup {k \in DOMAIN after : g \in after[k]}]]

\* Keys that a group gains or loses because the targets of its rules moved;
\* each of them is then synced with the rules of ALL its groups.  (No key
\* ever leaves Default, which is no member of a row's list, but a key that
\* was a target of the default rule is synced as well.)  A list names a group
\* once, so that removing its first mention removes it.
SyncGroups(b, g, affected, excluded) ==
    LET targets == UNION {b.rules[r].config.targets :
                            r \in {i \in DOMAIN b.rules \ excluded :
                                        b.rules[i].group = g}}
        moved == {k \in affected \cap DOMAIN b.keys :
                    InRuleGroup(b.keys[k], g) # (k \in targets)}
        Next(k) == IF k \in targets THEN Append(b.keys[k].groups, g)
                                    ELSE RemoveFirst(b.keys[k].groups, g)
    IN  [b EXCEPT
            !.keys = [k \in DOMAIN @ |->
                IF k \in moved THEN [@[k] EXCEPT !.groups = Next(k)] ELSE @[k]],
            !.rules = SyncTargets(@, [k \in moved |-> RuleGroups(b.keys[k])],
                                     [k \in moved |-> {Default} \cup ToSet(Next(k))])]

DefaultConfig == [targets |-> {}, exposures |-> Formats]

\* The default rule exists, is active, matches every model, accepts every
\* entry format and names no target.
EnsureDefault(b) ==
    LET found == {r \in DOMAIN b.rules : b.rules[r].group = Default}
        r == IF found = {} THEN New ELSE Min(found)
    IN  [b EXCEPT !.rules = With(@, r, [group |-> Default, active |-> TRUE,
                                        pattern |-> Models,
                                        config |-> DefaultConfig])]

\* The groups a key may be put in are those some rule has.
KnownGroups(b, groups) ==
    \A g \in ToSet(groups) : \E r \in DOMAIN b.rules : b.rules[r].group = g

\* Mutant: the entry formats of the other rules are not looked at.
RuleGroupAnyFormat(b, g, exposures, excluded) == g # Default

\* No other rule of the group lists an entry format of these.
RuleGroupAvailable(b, g, exposures, excluded) ==
    /\ g # Default
    /\ \A r \in DOMAIN b.rules \ excluded :
        b.rules[r].group = g => b.rules[r].config.exposures \cap exposures = {}

WithKey(b, e, groups) ==
    LET ensured == EnsureDefault(b)
    IN  [ensured EXCEPT
            !.keys = With(@, New, [endpoint |-> e, groups |-> groups,
                                   active |-> TRUE]),
            !.rules = SyncTargets(@, For(New, {}), For(New, {Default} \cup ToSet(groups)))]

\* Payloads repeat the key's primary group when they name none themselves:
\* assign_rule_groups appends it.
WithPrimary(groups, key) ==
    IF key.groups = <<>> \/ Head(key.groups) \in ToSet(groups) THEN groups
    ELSE Append(groups, Head(key.groups))

-----------------------------------------------------------------------------
(* A call: what the handler read, and what it means to write.              *)

Start(a, call, after) ==
    /\ jobs[a] = Idle
    /\ calls < MaxCalls
    /\ after # db           \* a call that writes nothing is left out
    /\ calls' = calls + 1
    /\ jobs' = [jobs EXCEPT ![a] =
                    [op |-> call.op, call |-> call,
                     changes |-> Changes(db, after), stale |-> {}]]
    /\ UNCHANGED <<db, last, tokens, raced, orphans, revoked>>

Call(op) == [op |-> op]

\* Nobody looks whether the targets a payload names are keys.
Naming(op, targets) == [op |-> op, unknown |-> targets \ DOMAIN db.keys]

CreateEndpoint(a) ==
    LET bare == [db EXCEPT !.endpoints = With(@, New, [active |-> TRUE])]
    IN  \/ Start(a, Call("create_endpoint"), bare)
        \/ \E groups \in MemberLists :
            /\ KnownGroups(db, groups)
            /\ Start(a, Call("create_endpoint"), WithKey(bare, New, groups))

UpdateEndpoint(a) ==
    \E e \in DOMAIN db.endpoints :
        Start(a, Call("update_endpoint"),
              [db EXCEPT !.endpoints[e].active = ~@])

\* Its keys and maps go by bulk deletes; the targets of the rules stay.
DeleteEndpoint(a) ==
    \E e \in DOMAIN db.endpoints :
        LET Others(table) == {i \in DOMAIN table : table[i].endpoint # e}
        IN  Start(a, Call("delete_endpoint"),
                  [db EXCEPT !.endpoints = Restrict(@, DOMAIN @ \ {e}),
                             !.keys = Restrict(@, Others(@)),
                             !.maps = Restrict(@, Others(@))])

CreateKey(a) ==
    \E e \in DOMAIN db.endpoints, groups \in MemberLists :
        /\ KnownGroups(db, groups)
        /\ Start(a, Call("create_key"), WithKey(db, e, groups))

UpdateKey(a) ==
    \E k \in DOMAIN db.keys :
        \/ Start(a, Call("update_key"), [db EXCEPT !.keys[k].active = ~@])
        \/ \E groups \in MemberLists, primary \in BOOLEAN :
            LET key == db.keys[k]
                next == IF primary THEN groups ELSE WithPrimary(groups, key)
                ensured == EnsureDefault(db)
            IN  /\ KnownGroups(db, next)
                /\ Start(a, Call("update_key"),
                         [ensured EXCEPT
                            !.keys[k].groups = next,
                            !.rules = SyncTargets(@, For(k, RuleGroups(key)),
                                                     For(k, {Default} \cup ToSet(next)))])

DeleteKey(a) ==
    \E k \in DOMAIN db.keys :
        Start(a, Call("delete_key"),
              [db EXCEPT
                !.rules = SyncTargets(@, For(k, RuleGroups(db.keys[k])), For(k, {})),
                !.keys = Restrict(@, DOMAIN @ \ {k})])

ListRules(a) == Start(a, Call("list_rules"), EnsureDefault(db))

CreateRule(a) ==
    \E g \in Groups, targets \in SUBSET TargetIds, exposures \in FormatLists :
        LET rule == [group |-> g, active |-> TRUE, pattern |-> Models,
                     config |-> [targets |-> targets, exposures |-> exposures]]
            added == [db EXCEPT !.rules = With(@, New, rule)]
        IN  /\ RuleGroupAvailable(db, g, exposures, {})
            /\ Start(a, Naming("create_rule", targets),
                     SyncGroups(added, g, targets, {}))

\* The columns a payload leaves out keep their values; the groups of the
\* keys are only synced when the targets or the group of the rule change.
UpdatedRule(r, rule, withTargets) ==
    LET old == db.rules[r]
        written == [db EXCEPT !.rules[r] = rule]
        moved == rule.group # old.group
        left == SyncGroups(written, old.group, old.config.targets, {})
    IN  IF moved THEN SyncGroups(left, rule.group, rule.config.targets, {})
        ELSE IF withTargets
        THEN SyncGroups(written, rule.group,
                        old.config.targets \cup rule.config.targets, {})
        ELSE written

UpdateRule(a) ==
    \E r \in DOMAIN db.rules :
        LET old == db.rules[r] IN
        \/ \E targets \in (SUBSET TargetIds) \cup {old.config.targets},
              g \in Groups \cup {old.group} :
            /\ old.group = Default => targets = {} /\ g = Default
            /\ g # old.group
                => RuleGroupAvailable(db, g, old.config.exposures, {r})
            /\ Start(a, Naming("update_rule", targets),
                     UpdatedRule(r, [old EXCEPT !.group = g,
                                                !.config.targets = targets], TRUE))
        \/ \E exposures \in IF old.group = Default THEN {Formats} ELSE FormatLists :
            /\ old.group # Default /\ exposures # old.config.exposures
                => RuleGroupAvailable(db, old.group, exposures, {r})
            /\ Start(a, Naming("update_rule", {}),
                     UpdatedRule(r, [old EXCEPT !.config.exposures = exposures],
                                 FALSE))
        \/ /\ old.group = Default => ~old.active
           /\ Start(a, Naming("update_rule", {}),
                    UpdatedRule(r, [old EXCEPT !.active = ~@], FALSE))
        \/ \E m \in Models :
            /\ old.group # Default
            /\ Start(a, Naming("update_rule", {}),
                     UpdatedRule(r, [old EXCEPT !.pattern = {m}], FALSE))

DeleteRule(a) ==
    \E r \in DOMAIN db.rules :
        LET rule == db.rules[r]
            synced == SyncGroups(db, rule.group, rule.config.targets, {r})
        IN  /\ rule.group # Default
            /\ Start(a, Call("delete_rule"),
                     [synced EXCEPT !.rules = Restrict(@, DOMAIN @ \ {r})])
-----------------------------------------------------------------------------
(* Access keys.  The token of a call is told to the caller once committed.  *)

WithAccess(groups) ==
    [db EXCEPT !.access = With(@, New, [groups |-> groups, active |-> TRUE,
                                        token |-> New])]

\* For the group of a rule.
CreateRuleAccessKey(a) ==
    \E r \in DOMAIN db.rules :
        Start(a, Call("create_rule_access_key"),
              WithAccess(<<db.rules[r].group>>))

\* For groups nobody compares with the rules.
CreateAccessKey(a) ==
    \E groups \in MemberLists :
        Start(a, Call("create_access_key"),
              WithAccess(IF groups = <<>> THEN <<Default>> ELSE groups))

UpdateAccessKey(a) ==
    \E i \in DOMAIN db.access :
        \/ Start(a, Call("update_access_key"), [db EXCEPT !.access[i].active = ~@])
        \/ \E groups \in MemberLists :
            Start(a, Call("update_access_key"),
                  [db EXCEPT !.access[i].groups = groups])

RotateAccessKey(a) ==
    \E i \in DOMAIN db.access :
        Start(a, [op |-> "rotate_access_key", access |-> i],
              [db EXCEPT !.access[i].token = New])

DeleteAccessKey(a) ==
    \E i \in DOMAIN db.access :
        Start(a, [op |-> "delete_access_key", access |-> i],
              [db EXCEPT !.access = Restrict(@, DOMAIN @ \ {i})])

-----------------------------------------------------------------------------
(* Model maps.                                                             *)

CreateModelMap(a) ==
    \E e \in DOMAIN db.endpoints, m \in Models :
        Start(a, Call("create_map"),
              [db EXCEPT !.maps = With(@, New, [endpoint |-> e, alias |-> m, real |-> m,
                                                managed |-> FALSE])])

\* Whatever the payload says, the map is now kept by hand.
UpdateModelMap(a) ==
    \E i \in DOMAIN db.maps, alias, real \in Models :
        Start(a, Call("update_map"),
              [db EXCEPT !.maps[i] = [@ EXCEPT !.alias = alias, !.real = real,
                                               !.managed = FALSE]])

DeleteModelMap(a) ==
    \E i \in DOMAIN db.maps :
        Start(a, Call("delete_map"),
              [db EXCEPT !.maps = Restrict(@, DOMAIN @ \ {i})])

\* Mutant: the maps kept by hand are not looked at.
SyncProbeOverManual(maps, e, found) ==
    LET auto == {i \in DOMAIN maps : maps[i].endpoint = e /\ maps[i].managed}
        keepers == {i \in auto : maps[i].real \in found}
        added == SetToSeq(found \ {maps[i].real : i \in keepers})
    IN  Restrict(maps, (DOMAIN maps \ auto) \cup keepers)
        @@ [n \in {-j : j \in DOMAIN added} |->
                [endpoint |-> e, alias |-> added[-n], real |-> added[-n],
                 managed |-> TRUE]]

\* What a probe that found these models makes of the maps it had read.
SyncProbe(maps, e, found) ==
    LET manual == {maps[i].real : i \in {j \in DOMAIN maps :
                        maps[j].endpoint = e /\ ~maps[j].managed}}
        auto == {i \in DOMAIN maps : maps[i].endpoint = e /\ maps[i].managed}
        Auto(m) == {i \in auto : maps[i].real = m}
        wanted == found \ manual
        keepers == {Min(Auto(m)) : m \in {w \in wanted : Auto(w) # {}}}
        added == SetToSeq({m \in wanted : Auto(m) = {}})
        fresh == {-j : j \in DOMAIN added}
    IN  [i \in (DOMAIN maps \ auto) \cup keepers \cup fresh |->
            CASE i \in keepers -> [maps[i] EXCEPT !.alias = maps[i].real]
              [] i \in fresh -> [endpoint |-> e, alias |-> added[-i],
                                 real |-> added[-i], managed |-> TRUE]
              [] OTHER -> maps[i]]

\* The maps are read first, then every active key asks the upstream, and the
\* maps that were read are synced with what came back.
ProbeEndpoint(a) ==
    \E e \in DOMAIN db.endpoints, found \in Discoveries \ {{}} :
        /\ \E k \in DOMAIN db.keys : db.keys[k].endpoint = e /\ db.keys[k].active
        /\ Start(a, [op |-> "probe", endpoint |-> e, found |-> found],
                 [db EXCEPT !.maps = SyncProbe(@, e, found)])
-----------------------------------------------------------------------------
(* The end of a session.                                                   *)

\* The ids the new rows get: above the last one, or above the highest in use.
LastId(t) ==
    IF ReusesIds THEN Max(DOMAIN db[t] \cup {0}) ELSE last[t]

Renamed(t, id) == IF id < 0 THEN LastId(t) - id ELSE id

\* The changes with the ids of new endpoints and keys filled in where other
\* rows of the same call refer to them, and with the token the call issues.
Resolved(changes) ==
    LET Owned(rows) == [i \in DOMAIN rows |->
            [rows[i] EXCEPT !.endpoint = Renamed("endpoints", @)]]
        Aimed(rows) == [r \in DOMAIN rows |->
            [rows[r] EXCEPT !.config.targets = {Renamed("keys", k) : k \in @}]]
        Issued(rows) == [i \in DOMAIN rows |->
            [rows[i] EXCEPT !.token = IF @ = New THEN tokens + 1 ELSE @]]
    IN  [changes EXCEPT !.keys.new = Owned(@), !.maps.new = Owned(@),
                        !.rules.new = Aimed(@), !.access.new = Issued(@)]

\* Mutant: foreign keys are off, as SQLite has them by default.
MergedWithoutCascade(changes) ==
    LET resolved == Resolved(changes)
    IN  [t \in Tables |-> MergeTable(db[t], resolved[t], LastId(t))]

\* The tables after the writes, and after the keys and maps of deleted
\* endpoints have gone with them (ON DELETE CASCADE).
Merged(changes) ==
    LET resolved == Resolved(changes)
        merged == [t \in Tables |-> MergeTable(db[t], resolved[t], LastId(t))]
        Owned(table) == {i \in DOMAIN table :
                            table[i].endpoint \in DOMAIN merged.endpoints}
    IN  [merged EXCEPT !.keys = Restrict(@, Owned(@)),
                       !.maps = Restrict(@, Owned(@))]

\* A new key or map needs its endpoint (foreign keys are on).
OwnersStillThere(changes) ==
    \A t \in {"keys", "maps"} :
        \A id \in DOMAIN changes[t].new \ DOMAIN changes[t].old :
            changes[t].new[id].endpoint < 0
            \/ changes[t].new[id].endpoint \in DOMAIN db.endpoints

Dropped(table) == DOMAIN db[table] \ DOMAIN db'[table]

\* The ids a call names as targets although no key has them.
Strays(call) ==
    IF call.op \in {"create_rule", "update_rule"} THEN call.unknown ELSE {}

Commit(a) ==
    LET job == jobs[a] IN
    /\ job # Idle
    /\ RowsStillThere(db, job.changes) /\ OwnersStillThere(job.changes)
    /\ db' = Merged(job.changes)
    /\ last' = [t \in Tables |-> Max({last[t]} \cup DOMAIN db'[t])]
    /\ LET changed == {t \in Tables : db[t] # db'[t]} IN
        jobs' = [b \in Admins |->
                    IF b = a \/ jobs[b] = Idle THEN IF b = a THEN Idle ELSE jobs[b]
                    ELSE [jobs[b] EXCEPT !.stale = @ \cup changed]]
    /\ raced' = (raced \/ /\ Written(job.changes) \cap {"keys", "rules"} # {}
                          /\ job.stale \cap {"keys", "rules"} # {})
    /\ orphans' = IF job.op = "delete_endpoint"
                  THEN orphans \cup (Dropped("keys") \cap Targeted(db'))
                  ELSE orphans \cup Strays(job.call)
    /\ revoked' = IF job.op \in {"rotate_access_key", "delete_access_key"}
                     /\ job.call.access \in DOMAIN db.access
                  THEN revoked \cup {db.access[job.call.access].token}
                  ELSE revoked
    /\ tokens' = Max({tokens} \cup {db'.access[i].token : i \in DOMAIN db'.access})
    /\ UNCHANGED calls

\* The session is dropped: the commit is refused, or the process goes away.
\* Only calls that are open or committed count for the bound.
Rollback(a) ==
    /\ jobs[a] # Idle
    /\ jobs' = [jobs EXCEPT ![a] = Idle]
    /\ calls' = calls - 1
    /\ UNCHANGED <<db, last, tokens, raced, orphans, revoked>>

Init ==
    /\ db \in Populations
    /\ last = [t \in Tables |-> Max(DOMAIN db[t] \cup {0})]
    /\ jobs = [a \in Admins |-> Idle]
    /\ calls = 0
    /\ tokens = Cardinality(DOMAIN db.access)
    /\ raced = FALSE /\ orphans = {} /\ revoked = {}

Next ==
    \E a \in Admins :
        \/ CreateEndpoint(a) \/ UpdateEndpoint(a) \/ DeleteEndpoint(a)
        \/ CreateKey(a) \/ UpdateKey(a) \/ DeleteKey(a)
        \/ ListRules(a) \/ CreateRule(a) \/ UpdateRule(a) \/ DeleteRule(a)
        \/ CreateRuleAccessKey(a) \/ CreateAccessKey(a) \/ UpdateAccessKey(a)
        \/ RotateAccessKey(a) \/ DeleteAccessKey(a)
        \/ CreateModelMap(a) \/ UpdateModelMap(a) \/ DeleteModelMap(a)
        \/ ProbeEndpoint(a)
        \/ Commit(a) \/ Rollback(a)

Spec == Init /\ [][Next]_vars
-----------------------------------------------------------------------------
(* Properties.                                                             *)

\* The state is of the right shape: every column of every row has its type,
\* a key lists no group twice, and a key or a map always has its endpoint.
TypeOK ==
    /\ WellFormed(db, tokens)
    /\ calls \in 0 .. MaxCalls
    /\ raced \in BOOLEAN /\ orphans \subseteq Nat \ {0}
    /\ revoked \subseteq 1 .. tokens

\* The two records of who serves a group agree: a key lists a group exactly
\* when some rule of the group targets it, and no rule but a default one of
\* old times targets a key that does not exist.  The exceptions are writes
\* made from rows that had gone stale, and the ids that a payload named or
\* delete_endpoint left behind without a key: for those the two records do
\* part (TargetsAreMembers).
MembershipAgrees == ~raced => Membership(db, orphans)

\* test_create_endpoint_key_syncs_multi_rule_group_targets says that a new
\* key is no target of a rule whose group it was not put in: what a rule
\* targets is a member of its group.  Not so when the new key gets an id that
\* create_rule or update_rule was given before there was such a key, or that
\* delete_endpoint left in the rules; such a key serves a group nobody put it
\* in, without any race.
TargetsAreMembers ==
    \A r \in DOMAIN db.rules : db.rules[r].group # Default =>
        \A k \in db.rules[r].config.targets \cap DOMAIN db.keys :
            InRuleGroup(db.keys[k], db.rules[r].group)

\* No two rules of a group list the same entry format (docs/api.md:53),
\* unless two handlers checked before either wrote.
NoOverlap == ~raced => Disjoint(db)

\* A request is only served through a group its access key allows, whatever
\* group it asks for and whatever sessions raced, and by keys that are
\* members of that group (docs/providers-routing.md:60), with the exceptions
\* of MembershipAgrees.
GroupIsolation ==
    \A i \in DOMAIN db.access, requested \in Groups \cup {Default},
       m \in Models, x \in Formats :
        LET chosen == ProxyCandidates(db, db.access[i], requested, m, x)
        IN  \A k \in chosen.keys :
            /\ chosen.group \in ToSet(AllowedGroups(db.access[i]))
            /\ raced \/ k \in orphans \/ InRuleGroup(db.keys[k], chosen.group)

\* A token that was replaced by a rotation or deleted never works again,
\* whatever a session that had read its row before writes after.
RevokedStaysRevoked == \A t \in revoked : Accepted(db, t) = {}

IsProperDefault(rule) == rule.active /\ rule.config = DefaultConfig

DefaultRules(b) == {b.rules[r] : r \in {i \in DOMAIN b.rules :
                                            b.rules[i].group = Default}}

\* Once the default rule serves all keys and entry formats it does so for
\* good: no handler gives it targets, narrows it, disables or deletes it.  A
\* stale session may put back what an improper default rule had.
DefaultServesAll ==
    [][ DefaultRules(db) # {} /\ (\A d \in DefaultRules(db) : IsProperDefault(d))
        => \/ DefaultRules(db') # {}
              /\ \A d \in DefaultRules(db') : IsProperDefault(d)
           \/ raced' ]_vars

ProbeCommits(a) ==
    jobs[a].op = "probe" /\ jobs[a] # jobs'[a] /\ db # db' /\ jobs'[a] = Idle

\* A probe whose rows are fresh leaves the maps made or edited by hand as
\* they are (the comment in update_model_map), and every model it found with
\* one managed map, or a manual one, and nothing else managed.
ProbeKeepsManual ==
    [][ \A a \in Admins : ProbeCommits(a) /\ "maps" \notin jobs[a].stale =>
            LET e == jobs[a].call.endpoint
                Of(b, managed) == {i \in DOMAIN b.maps :
                    b.maps[i].endpoint = e /\ b.maps[i].managed = managed}
                Reals(ids) == {db'.maps[i].real : i \in ids}
            IN  /\ Restrict(db.maps, Of(db, FALSE)) = Restrict(db'.maps, Of(db', FALSE))
                /\ Reals(Of(db', TRUE)) = jobs[a].call.found \ Reals(Of(db', FALSE))
                /\ Cardinality(Of(db', TRUE)) = Cardinality(Reals(Of(db', TRUE)))
      ]_vars

\* docs/providers-routing.md:80-86: the page that explains a route names the
\* rule group and the keys the router would choose, although it repeats the
\* selection in code of its own.  They part in three cases, which are left
\* out: the rule that matches names no target, no rule of the group accepts
\* the entry format, or no default rule matches either; the router then
\* finds nobody and the page explains the default group.
ExplanationAgrees ==
    \A g \in Groups \cup {Default}, m \in Models, x \in Formats :
        LET own == SelectRuleTargets(db, g, m, x)
            fallback == SelectRuleTargets(db, Default, m, x)
        IN  /\ own.supported
            /\ own.matched => own.targets # {} \/ g = Default
            /\ ~own.matched => g # Default /\ fallback.supported /\ fallback.matched
            => RouteExplain(db, g, m, x) = RouteTest(db, g, m, x)
=============================================================================
