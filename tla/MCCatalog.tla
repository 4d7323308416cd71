----------------------------- MODULE MCCatalog ------------------------------
(***************************************************************************)
(* An instance of Catalog: two handlers at a time, two groups, two entry   *)
(* formats, two models, and four databases to start from.                  *)
(***************************************************************************)
EXTENDS Catalog

CONSTANTS A, B, Chat, Message, M1, M2

MCGroups == {A, B}
MCFormats == {Chat, Message}
MCFormatLists == {{Chat}, {Message}, {Chat, Message}}
MCModels == {M1, M2}
MCDiscoveries == {{M1}, {M1, M2}}
MCMemberLists == {<<>>, <<A>>, <<B, A>>}
MCTargetIds == {1, 2, 3}        \* 3 is an id that no key has at first

Rule(g, targets, exposures) ==
    [group |-> g, active |-> TRUE, pattern |-> MCModels,
     config |-> [targets |-> targets, exposures |-> exposures]]

Key(e, groups) == [endpoint |-> e, groups |-> groups, active |-> TRUE]
Endpoint == [active |-> TRUE]
Access(g, t) == [groups |-> <<g>>, active |-> TRUE, token |-> t]
Map(e, m, managed) == [endpoint |-> e, alias |-> m, real |-> m, managed |-> managed]

\* An installation that was just started.
Fresh == [endpoints |-> 1 :> Endpoint, keys |-> <<>>, rules |-> <<>>,
          access |-> <<>>, maps |-> <<>>]

\* Group A has a rule for each entry format, with one key in both.
InService ==
    [endpoints |-> <<Endpoint, Endpoint>>,
     keys |-> <<Key(1, <<A>>), Key(2, <<A>>)>>,
     rules |-> <<Rule(Default, {}, MCFormats), Rule(A, {1, 2}, {Chat}),
                 Rule(A, {1}, {Message})>>,
     access |-> <<Access(A, 1)>>,
     maps |-> <<Map(1, M1, TRUE), Map(1, M2, FALSE), Map(2, M1, FALSE)>>]

\* A default rule from before the default rule was fixed.
Legacy ==
    [endpoints |-> <<Endpoint>>,
     keys |-> <<Key(1, <<B>>)>>,
     rules |-> <<Rule(Default, {1}, {Chat}), Rule(B, {1}, {Chat})>>,
     access |-> <<Access(Default, 1)>>,
     maps |-> <<Map(1, M1, TRUE), Map(1, M2, TRUE)>>]

\* Two groups that share a key.
Shared ==
    [endpoints |-> <<Endpoint, Endpoint>>,
     keys |-> <<Key(1, <<A, B>>), Key(2, <<B>>)>>,
     rules |-> <<Rule(Default, {}, MCFormats), Rule(A, {1}, {Chat}),
                 Rule(B, {1, 2}, {Chat}), Rule(B, {2}, {Message})>>,
     access |-> <<Access(B, 1)>>,
     maps |-> <<Map(1, M1, TRUE), Map(1, M1, FALSE)>>]

MCPopulations == {Fresh, InService, Shared, Legacy}

\* One installation, for the run that looks for a key in a group nobody put it
\* in after delete_endpoint, with payloads that name no targets.
MCInService == {InService}

HandlerSymmetry == Permutations(Admins)
=============================================================================
