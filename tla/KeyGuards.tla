----------------------------- MODULE KeyGuards -----------------------------
(***************************************************************************)
(* What the factory keeps in Redis to guard one API key: the circuit       *)
(* breaker (services/circuit_breaker.py) and the requests-per-minute       *)
(* counter (services/router.py).  Workers are the coroutines that use the  *)
(* key, in one process or in several: proxied requests, health probes, the *)
(* admin's key test.  Redis runs one command at a time; between any two    *)
(* commands of a worker the others run theirs.                             *)
(*                                                                         *)
(* Keys are independent of each other.  The store is Redis: a MemoryRedis  *)
(* at its limit also drops keys that have not expired.                     *)
(***************************************************************************)
EXTENDS Naturals, FiniteSets

CONSTANTS
    Workers,
    Threshold,      \* circuit_breaker_failures
    RpmLimit,       \* api_key.rpm_limit
    Minutes,        \* bound: minutes the clock shows, 1..Minutes
    MaxUses         \* bound: times the key is chosen, tried again or probed

ASSUME WorkersAreFinite == IsFiniteSet(Workers)
ASSUME ThresholdIsPositive == Threshold \in Nat \ {0}
ASSUME BoundsAreNat == RpmLimit \in Nat /\ Minutes \in Nat \ {0} /\ MaxUses \in Nat

VARIABLES
    \* ---- Redis
    circuit,        \* circuit:{id}:state
    failures,       \* circuit:{id}:failures, 0 when the key does not exist
    ttl,            \* which of the two carry an expiry
    used,           \* used[m]: rate:rpm:{id}:{m}
    \* ---- the clock and the workers
    minute,
    pc,
    count,          \* what INCR of the failure counter returned to the worker
    \* ---- history
    uses,           \* uses of the key so far
    granted,        \* granted[m]: attempts reserve_candidate_attempt allowed
    blamed,         \* record_failure calls since a success last closed the circuit
    quiet           \* quiet[w]: w's record_success has overlapped no record_failure

redis == <<circuit, failures, ttl, used>>
vars  == <<circuit, failures, ttl, used, minute, pc, count, uses, granted,
           blamed, quiet>>

Steps   == {"idle", "available", "candidate", "reserving", "sent",
            "failing", "expiring", "opening", "succeeding", "closing"}
Blaming == {"failing", "expiring", "opening"}   \* inside record_failure

TypeOK ==
    /\ circuit \in {"absent", "open"}
    /\ failures \in Nat
    /\ ttl \in SUBSET {"circuit", "failures"}
    /\ used \in [1..Minutes -> Nat]
    /\ minute \in 1..Minutes
    /\ pc \in [Workers -> Steps]
    /\ count \in [Workers -> Nat]
    /\ uses \in 0..MaxUses
    /\ granted \in [1..Minutes -> Nat]
    /\ blamed \in Nat
    /\ quiet \in [Workers -> BOOLEAN]

Init ==
    /\ circuit = "absent"
    /\ failures = 0
    /\ ttl = {}
    /\ used = [m \in 1..Minutes |-> 0]
    /\ minute = 1
    /\ pc = [w \in Workers |-> "idle"]
    /\ count = [w \in Workers |-> 0]
    /\ uses = 0
    /\ granted = [m \in 1..Minutes |-> 0]
    /\ blamed = 0
    /\ quiet = [w \in Workers |-> FALSE]

Goto(w, step) == pc' = [pc EXCEPT ![w] = step]

-----------------------------------------------------------------------------
(* Choosing the key: _filter_available_candidates, then, after the work on   *)
(* the request, reserve_candidate_attempt.                                   *)

SeesCircuit(w) ==
    /\ pc[w] = "idle"
    /\ uses < MaxUses
    /\ circuit # "open"
    /\ uses' = uses + 1
    /\ Goto(w, "available")
    /\ UNCHANGED <<redis, minute, count, granted, blamed, quiet>>

SeesRpm(w) ==
    /\ pc[w] = "available"
    /\ Goto(w, IF used[minute] < RpmLimit THEN "candidate" ELSE "idle")
    /\ UNCHANGED <<redis, minute, count, uses, granted, blamed, quiet>>

\* Mutant: the count read when the candidates were filtered decides.
ReservesUnchecked(w) ==
    /\ pc[w] = "candidate"
    /\ used' = [used EXCEPT ![minute] = @ + 1]
    /\ granted' = [granted EXCEPT ![minute] = @ + 1]
    /\ Goto(w, "sent")
    /\ UNCHANGED <<circuit, failures, ttl, minute, count, uses, blamed, quiet>>

\* INCR decides.  The first one of the minute sets the key's expiry before it goes
\* on; 120 s, so that the key outlives its minute.
Reserves(w) ==
    /\ pc[w] = "candidate"
    /\ used' = [used EXCEPT ![minute] = @ + 1]
    /\ granted' = [granted EXCEPT ![minute] = IF used[minute] < RpmLimit THEN @ + 1 ELSE @]
    /\ Goto(w, IF used[minute] = 0 THEN "reserving"
               ELSE IF used[minute] < RpmLimit THEN "sent" ELSE "idle")
    /\ UNCHANGED <<circuit, failures, ttl, minute, count, uses, blamed, quiet>>

SetsRpmExpiry(w) ==
    /\ pc[w] = "reserving"
    /\ Goto(w, IF RpmLimit > 0 THEN "sent" ELSE "idle")
    /\ UNCHANGED <<redis, minute, count, uses, granted, blamed, quiet>>

\* The health monitor and the admin's test use a key without asking its guards.
Probes(w) ==
    /\ pc[w] = "idle"
    /\ uses < MaxUses
    /\ uses' = uses + 1
    /\ Goto(w, "sent")
    /\ UNCHANGED <<redis, minute, count, granted, blamed, quiet>>

-----------------------------------------------------------------------------
(* record_failure: after an attempt, or before one when signing in fails.   *)

BeginsFailure(w) ==
    /\ pc[w] \in {"candidate", "sent"}
    /\ Goto(w, "failing")
    /\ blamed' = blamed + 1
    /\ quiet' = [v \in Workers |-> FALSE]
    /\ UNCHANGED <<redis, minute, count, uses, granted>>

\* The request is over, or it goes to the same key again: the guards that chose the
\* key are not asked a second time, only the reservation is.
Leaves(w) ==
    \/ Goto(w, "idle") /\ UNCHANGED uses
    \/ uses < MaxUses /\ Goto(w, "candidate") /\ uses' = uses + 1

\* INCR keeps the expiry of a key that exists; a new key has none.
CountsFailure(w) ==
    /\ pc[w] = "failing"
    /\ failures' = failures + 1
    /\ count' = [count EXCEPT ![w] = failures + 1]
    /\ Goto(w, "expiring")
    /\ UNCHANGED <<circuit, ttl, used, minute, uses, granted, blamed, quiet>>

SetsFailureExpiry(w) ==
    /\ pc[w] = "expiring"
    /\ ttl' = IF failures > 0 THEN ttl \cup {"failures"} ELSE ttl
    /\ IF count[w] >= Threshold
       THEN Goto(w, "opening") /\ UNCHANGED uses ELSE Leaves(w)
    /\ UNCHANGED <<circuit, failures, used, minute, count, granted, blamed, quiet>>

\* Mutant: the state is set, and its expiry is left to another command.
OpensWithoutExpiry(w) ==
    /\ pc[w] = "opening"
    /\ circuit' = "open"
    /\ Leaves(w)
    /\ UNCHANGED <<failures, ttl, used, minute, count, granted, blamed, quiet>>

\* SET state "open" EX ttl NX.
Opens(w) ==
    /\ pc[w] = "opening"
    /\ circuit' = "open"
    /\ ttl' = IF circuit = "absent" THEN ttl \cup {"circuit"} ELSE ttl
    /\ Leaves(w)
    /\ UNCHANGED <<failures, used, minute, count, granted, blamed, quiet>>

-----------------------------------------------------------------------------
(* record_success.                                                         *)

BeginsSuccess(w) ==
    /\ pc[w] = "sent"
    /\ Goto(w, "succeeding")
    /\ quiet' = [quiet EXCEPT ![w] = \A v \in Workers : pc[v] \notin Blaming]
    /\ UNCHANGED <<redis, minute, count, uses, granted, blamed>>

\* Mutant: the counter is left to expire.
LeavesFailures(w) ==
    /\ pc[w] = "succeeding"
    /\ Goto(w, "closing")
    /\ UNCHANGED <<redis, minute, count, uses, granted, blamed, quiet>>

ClearsFailures(w) ==
    /\ pc[w] = "succeeding"
    /\ failures' = 0
    /\ ttl' = ttl \ {"failures"}
    /\ Goto(w, "closing")
    /\ UNCHANGED <<circuit, used, minute, count, uses, granted, blamed, quiet>>

\* A success that overlapped no failure ends the history of the circuit.
Closes(w) ==
    /\ pc[w] = "closing"
    /\ circuit' = "absent"
    /\ ttl' = ttl \ {"circuit"}
    /\ blamed' = IF quiet[w] THEN 0 ELSE blamed
    /\ Goto(w, "idle")
    /\ UNCHANGED <<failures, used, minute, count, uses, granted, quiet>>

-----------------------------------------------------------------------------
(* Time, and the death of a worker's process.                              *)

CircuitExpires ==
    /\ "circuit" \in ttl
    /\ circuit' = "absent"
    /\ ttl' = ttl \ {"circuit"}
    /\ UNCHANGED <<failures, used, minute, pc, count, uses, granted, blamed, quiet>>

FailuresExpire ==
    /\ "failures" \in ttl
    /\ failures' = 0
    /\ ttl' = ttl \ {"failures"}
    /\ UNCHANGED <<circuit, used, minute, pc, count, uses, granted, blamed, quiet>>

MinutePasses ==
    /\ minute < Minutes
    /\ minute' = minute + 1
    /\ UNCHANGED <<redis, pc, count, uses, granted, blamed, quiet>>

Dies(w) ==
    /\ pc[w] # "idle"
    /\ Goto(w, "idle")
    /\ UNCHANGED <<redis, minute, count, uses, granted, blamed, quiet>>

-----------------------------------------------------------------------------

Chooses(w) == SeesCircuit(w) \/ SeesRpm(w) \/ Reserves(w) \/ SetsRpmExpiry(w) \/ Probes(w)
Fails(w)   == BeginsFailure(w) \/ CountsFailure(w) \/ SetsFailureExpiry(w) \/ Opens(w)
Succeeds(w) == BeginsSuccess(w) \/ ClearsFailures(w) \/ Closes(w)

Next ==
    \/ \E w \in Workers : Chooses(w) \/ Fails(w) \/ Succeeds(w) \/ Dies(w)
    \/ CircuitExpires \/ FailuresExpire \/ MinutePasses

Spec == Init /\ [][Next]_vars

(* Redis removes a key whose expiry has passed; nothing is asked of workers. *)
FairSpec == Spec /\ WF_vars(CircuitExpires)

-----------------------------------------------------------------------------
(* Properties.                                                             *)

\* However many requests pass the filter on the same count, no more than RpmLimit
\* of them are let through in a minute.
RpmHolds == \A m \in 1..Minutes : granted[m] <= RpmLimit

\* The circuit is open only if Threshold failures have been reported since a
\* success last closed it undisturbed: the counts of before that success are gone.
OpenIsEarned == circuit = "open" => blamed >= Threshold

\* A record_success that overlaps no record_failure leaves the circuit closed and
\* the counter gone.
SuccessCloses ==
    [][\A w \in Workers : Closes(w) /\ quiet[w]
          => circuit' = "absent" /\ failures' = 0]_vars

\* An open circuit carries its own expiry: no death of a worker between two
\* commands, and no failures that come late, keep the key away for good.
OpenCircuitCloses == circuit = "open" ~> circuit = "absent"
=============================================================================
