----------------------------- MODULE MCServing ------------------------------
(***************************************************************************)
(* An instance of Serving: two keys, the heavier of them with a daily      *)
(* limit, a rule of each strategy, and the turn of a day.                  *)
(***************************************************************************)
EXTENDS Serving

CONSTANTS Weighted, Standby

MCKeys == {1, 2}
MCWeight == <<2, 1>>
MCDailyLimit == <<2, NoLimit>>
MCTargetOrder == <<2, 1>>
MCOutages == {{}, {1}}
MCTokenCounts == {2}

\* The round robin knows nothing of the day: its pools are explored on the first
\* one.  Midnight comes while none is remembered (at first, while only the other
\* rule has served, or after a restart); then only requests bring new ones.
QuietNextDay ==
    /\ clock' > clock => pools = <<>>
    /\ clock > 0 => pools' \in {pools, <<>>} \/ request' # request

RequestSymmetry == Permutations(Requests)
=============================================================================
