-------------------------- MODULE KeyGuards_proofs --------------------------
(***************************************************************************)
(* Proofs about KeyGuards, for any number of workers, any threshold, limit  *)
(* and clock.  IInv is the inductive invariant: what is granted is used;    *)
(* a worker in an undisturbed record_success sees no record_failure at      *)
(* work; and the failure counter, with the increments under way, never      *)
(* exceeds the failures reported.                                           *)
(***************************************************************************)
EXTENDS KeyGuards, FiniteSetTheorems, TLAPS

Failing == {w \in Workers : pc[w] = "failing"}

Budget ==
    \A m \in 1..Minutes : granted[m] <= used[m] /\ granted[m] <= RpmLimit

Calm ==
    \A w \in Workers : pc[w] \in {"succeeding", "closing"} /\ quiet[w] =>
        /\ \A v \in Workers : pc[v] \notin Blaming
        /\ pc[w] = "closing" => failures = 0

Pending == failures + Cardinality(Failing) <= blamed

Counted ==
    \A w \in Workers :
        /\ pc[w] \in {"expiring", "opening"} => count[w] <= blamed
        /\ pc[w] = "opening" => count[w] >= Threshold

IInv == TypeOK /\ Budget /\ Calm /\ Pending /\ Counted /\ OpenIsEarned

WorkerStep(w) == Chooses(w) \/ Fails(w) \/ Succeeds(w) \/ Dies(w)

-----------------------------------------------------------------------------
(* Types.                                                                  *)

LEMMA ChoosesType ==
  ASSUME TypeOK, NEW w \in Workers, Chooses(w)
  PROVE  TypeOK'
<1>1. CASE SeesCircuit(w)
  BY <1>1, BoundsAreNat DEF SeesCircuit, TypeOK, Goto, Steps, redis
<1>2. CASE SeesRpm(w)
  BY <1>2 DEF SeesRpm, TypeOK, Goto, Steps, redis
<1>3. CASE Reserves(w)
  <2>1. granted' \in [1..Minutes -> Nat]
    <3>1. granted' = [granted EXCEPT ![minute] = granted[minute] + 1] \/ granted' = granted
      BY <1>3 DEF Reserves, TypeOK
    <3> QED  BY <3>1 DEF TypeOK
  <2>2. used' \in [1..Minutes -> Nat]
    BY <1>3 DEF Reserves, TypeOK
  <2>3. pc' \in [Workers -> Steps]
    BY <1>3 DEF Reserves, TypeOK, Goto, Steps
  <2> QED  BY <1>3, <2>1, <2>2, <2>3 DEF Reserves, TypeOK
<1>4. CASE SetsRpmExpiry(w)
  BY <1>4 DEF SetsRpmExpiry, TypeOK, Goto, Steps, redis
<1>5. CASE Probes(w)
  BY <1>5, BoundsAreNat DEF Probes, TypeOK, Goto, Steps, redis
<1> QED  BY <1>1, <1>2, <1>3, <1>4, <1>5 DEF Chooses

LEMMA LeavesType ==
  ASSUME TypeOK, NEW w \in Workers, Leaves(w)
  PROVE  pc' \in [Workers -> Steps] /\ uses' \in 0..MaxUses
<1>1. CASE Goto(w, "idle") /\ UNCHANGED uses
  BY <1>1 DEF TypeOK, Goto, Steps
<1>2. CASE uses < MaxUses /\ Goto(w, "candidate") /\ uses' = uses + 1
  <2>1. uses' \in 0..MaxUses
    BY <1>2, BoundsAreNat DEF TypeOK
  <2> QED  BY <1>2, <2>1 DEF TypeOK, Goto, Steps
<1> QED  BY <1>1, <1>2 DEF Leaves

LEMMA FailsType ==
  ASSUME TypeOK, NEW w \in Workers, Fails(w)
  PROVE  TypeOK'
<1>1. CASE BeginsFailure(w)
  BY <1>1 DEF BeginsFailure, TypeOK, Goto, Steps, redis
<1>2. CASE CountsFailure(w)
  BY <1>2 DEF CountsFailure, TypeOK, Goto, Steps
<1>3. CASE SetsFailureExpiry(w)
  <2>1. pc' \in [Workers -> Steps] /\ uses' \in 0..MaxUses
    BY <1>3, LeavesType DEF SetsFailureExpiry, TypeOK, Goto, Steps
  <2>2. ttl' \in SUBSET {"circuit", "failures"}
    BY <1>3 DEF SetsFailureExpiry, TypeOK
  <2> QED  BY <1>3, <2>1, <2>2 DEF SetsFailureExpiry, TypeOK
<1>4. CASE Opens(w)
  <2>1. pc' \in [Workers -> Steps] /\ uses' \in 0..MaxUses
    BY <1>4, LeavesType DEF Opens
  <2>2. ttl' \in SUBSET {"circuit", "failures"}
    BY <1>4 DEF Opens, TypeOK
  <2> QED  BY <1>4, <2>1, <2>2 DEF Opens, TypeOK
<1> QED  BY <1>1, <1>2, <1>3, <1>4 DEF Fails

LEMMA SucceedsType ==
  ASSUME TypeOK, NEW w \in Workers, Succeeds(w) \/ Dies(w)
  PROVE  TypeOK'
<1>1. CASE BeginsSuccess(w)
  BY <1>1 DEF BeginsSuccess, TypeOK, Goto, Steps, redis
<1>2. CASE ClearsFailures(w)
  BY <1>2 DEF ClearsFailures, TypeOK, Goto, Steps
<1>3. CASE Closes(w)
  BY <1>3 DEF Closes, TypeOK, Goto, Steps
<1>4. CASE Dies(w)
  BY <1>4 DEF Dies, TypeOK, Goto, Steps, redis
<1> QED  BY <1>1, <1>2, <1>3, <1>4 DEF Succeeds

LEMMA TimeType ==
  ASSUME TypeOK, CircuitExpires \/ FailuresExpire \/ MinutePasses
  PROVE  TypeOK'
<1>1. CASE CircuitExpires
  BY <1>1 DEF CircuitExpires, TypeOK
<1>2. CASE FailuresExpire
  BY <1>2 DEF FailuresExpire, TypeOK
<1>3. CASE MinutePasses
  <2>1. minute' \in 1..Minutes
    BY <1>3, BoundsAreNat DEF MinutePasses, TypeOK
  <2> QED  BY <1>3, <2>1 DEF MinutePasses, TypeOK, redis
<1> QED  BY <1>1, <1>2, <1>3

LEMMA NextType ==
  ASSUME TypeOK, [Next]_vars
  PROVE  TypeOK'
<1>1. CASE UNCHANGED vars
  BY <1>1 DEF vars, TypeOK
<1> QED  BY <1>1, ChoosesType, FailsType, SucceedsType, TimeType DEF Next

LEMMA InitType == Init => TypeOK
  BY BoundsAreNat DEF Init, TypeOK, Steps

\* Every variable keeps its type in every reachable state.
THEOREM TypeCorrect == Spec => []TypeOK
  BY InitType, NextType, PTL DEF Spec

-----------------------------------------------------------------------------
(* The RPM counter: only Reserves writes it, and grants within the limit.   *)

LEMMA BudgetStep ==
  ASSUME TypeOK, Budget, [Next]_vars
  PROVE  Budget'
<1>1. ASSUME NEW w \in Workers, Reserves(w)
      PROVE  Budget'
  <2> SUFFICES ASSUME NEW m \in 1..Minutes
               PROVE  granted'[m] <= used'[m] /\ granted'[m] <= RpmLimit
    BY DEF Budget
  <2>1. used[m] \in Nat /\ granted[m] \in Nat /\ RpmLimit \in Nat
    BY BoundsAreNat DEF TypeOK
  <2>2. granted[m] <= used[m] /\ granted[m] <= RpmLimit
    BY DEF Budget
  <2>3. CASE m # minute
    BY <1>1, <2>2, <2>3 DEF Reserves, TypeOK
  <2>4. CASE m = minute
    <3>1. used'[m] = used[m] + 1
      BY <1>1, <2>4 DEF Reserves, TypeOK
    <3>2. granted'[m] = IF used[m] < RpmLimit THEN granted[m] + 1 ELSE granted[m]
      BY <1>1, <2>4 DEF Reserves, TypeOK
    <3> QED  BY <2>1, <2>2, <3>1, <3>2
  <2> QED  BY <2>3, <2>4
<1>2. CASE UNCHANGED <<used, granted>>
  BY <1>2 DEF Budget
<1>3. ASSUME NEW w \in Workers, WorkerStep(w), ~Reserves(w)
      PROVE  UNCHANGED <<used, granted>>
  BY <1>3 DEF WorkerStep, Chooses, Fails, Succeeds, SeesCircuit, SeesRpm, SetsRpmExpiry,
              Probes, BeginsFailure, CountsFailure, SetsFailureExpiry, Opens,
              BeginsSuccess, ClearsFailures, Closes, Dies, redis
<1>4. CASE CircuitExpires \/ FailuresExpire \/ MinutePasses \/ UNCHANGED vars
  BY <1>2, <1>4 DEF CircuitExpires, FailuresExpire, MinutePasses, vars, redis
<1> QED  BY <1>1, <1>2, <1>3, <1>4 DEF Next, WorkerStep

-----------------------------------------------------------------------------
(* An undisturbed record_success.                                          *)

\* A step of w that moves it to s, and neither starts a success nor counts.
LEMMA CalmKept ==
  ASSUME TypeOK, Calm, NEW w \in Workers, NEW s \in Steps,
         pc' = [pc EXCEPT ![w] = s], quiet' = quiet,
         s \notin {"succeeding", "closing"},
         s \in Blaming => pc[w] \in Blaming,
         failures' \in {0, failures}
  PROVE  Calm'
  BY DEF Calm, TypeOK

LEMMA CalmStep ==
  ASSUME TypeOK, Calm, [Next]_vars
  PROVE  Calm'
<1>1. ASSUME NEW w \in Workers, Chooses(w) \/ Dies(w)
      PROVE  Calm'
  <2>1. /\ \E s \in Steps \ (Blaming \cup {"succeeding", "closing"}) :
              pc' = [pc EXCEPT ![w] = s]
        /\ quiet' = quiet /\ failures' = failures
    BY <1>1 DEF Chooses, SeesCircuit, SeesRpm, Reserves, SetsRpmExpiry, Probes, Dies,
                Goto, Steps, Blaming, redis
  <2> QED  BY <2>1, CalmKept
<1>2. ASSUME NEW w \in Workers, BeginsFailure(w)
      PROVE  Calm'
  BY <1>2 DEF BeginsFailure, Calm
<1>3. ASSUME NEW w \in Workers, CountsFailure(w)
      PROVE  Calm'
  <2>1. pc[w] \in Blaming /\ quiet' = quiet /\ pc' = [pc EXCEPT ![w] = "expiring"]
    BY <1>3 DEF CountsFailure, Goto, Blaming
  <2>2. \A v \in Workers : ~(pc[v] \in {"succeeding", "closing"} /\ quiet[v])
    BY <2>1 DEF Calm
  <2> QED  BY <2>1, <2>2 DEF Calm, TypeOK
<1>4. ASSUME NEW w \in Workers, SetsFailureExpiry(w) \/ Opens(w)
      PROVE  Calm'
  <2>1. /\ \E s \in {"opening", "idle", "candidate"} : pc' = [pc EXCEPT ![w] = s]
        /\ pc[w] \in Blaming /\ quiet' = quiet /\ failures' = failures
    BY <1>4 DEF SetsFailureExpiry, Opens, Leaves, Goto, Blaming
  <2> QED  BY <2>1, CalmKept DEF Steps
<1>5. ASSUME NEW w \in Workers, BeginsSuccess(w)
      PROVE  Calm'
  <2>1. /\ pc' = [pc EXCEPT ![w] = "succeeding"] /\ failures' = failures
        /\ quiet' = [quiet EXCEPT ![w] = \A v \in Workers : pc[v] \notin Blaming]
    BY <1>5 DEF BeginsSuccess, Goto, redis
  <2>2. \A v \in Workers : pc'[v] \in Blaming => pc[v] \in Blaming
    BY <2>1 DEF TypeOK, Blaming
  <2> QED  BY <2>1, <2>2 DEF Calm, TypeOK
<1>6. ASSUME NEW w \in Workers, ClearsFailures(w)
      PROVE  Calm'
  <2>1. /\ pc[w] = "succeeding" /\ pc' = [pc EXCEPT ![w] = "closing"]
        /\ failures' = 0 /\ quiet' = quiet
    BY <1>6 DEF ClearsFailures, Goto
  <2>2. \A v \in Workers : pc'[v] \in Blaming => pc[v] \in Blaming
    BY <2>1 DEF TypeOK, Blaming
  <2> QED  BY <2>1, <2>2 DEF Calm, TypeOK
<1>7. ASSUME NEW w \in Workers, Closes(w)
      PROVE  Calm'
  <2>1. pc' = [pc EXCEPT ![w] = "idle"] /\ quiet' = quiet /\ failures' = failures
    BY <1>7 DEF Closes, Goto
  <2> QED  BY <2>1, CalmKept DEF Steps, Blaming
<1>8. CASE CircuitExpires \/ FailuresExpire \/ MinutePasses \/ UNCHANGED vars
  BY <1>8 DEF CircuitExpires, FailuresExpire, MinutePasses, vars, redis, Calm
<1> QED
  BY <1>1, <1>2, <1>3, <1>4, <1>5, <1>6, <1>7, <1>8 DEF Next, Fails, Succeeds

\* A record_success that overlaps no record_failure leaves the circuit closed and
\* the counter gone.
LEMMA ClosesClean ==
  ASSUME Calm, NEW w \in Workers, Closes(w), quiet[w]
  PROVE  circuit' = "absent" /\ failures' = 0 /\ \A v \in Workers : pc[v] \notin Blaming
  BY DEF Calm, Closes

-----------------------------------------------------------------------------
(* The failure counter against the failures reported.                      *)

LEMMA FailingFinite == IsFiniteSet(Failing) /\ Cardinality(Failing) \in Nat
<1>1. Failing \in SUBSET Workers
  BY DEF Failing
<1>2. IsFiniteSet(Failing)
  BY <1>1, WorkersAreFinite, FS_Subset
<1> QED  BY <1>2, FS_CardinalityType

\* A step of w to s: w is the only worker that may join or leave Failing.
LEMMA FailingMoves ==
  ASSUME TypeOK, NEW w \in Workers, NEW s, pc' = [pc EXCEPT ![w] = s]
  PROVE  Failing' = IF s = "failing" THEN Failing \cup {w} ELSE Failing \ {w}
  BY DEF Failing, TypeOK

LEMMA PendingKept ==
  ASSUME TypeOK, Pending, NEW w \in Workers, NEW s, s # "failing",
         pc' = [pc EXCEPT ![w] = s],
         failures' \in {0, failures}, blamed' = blamed
  PROVE  Pending'
<1>1. Failing' = Failing \ {w}
  BY FailingMoves
<1>2. Cardinality(Failing') \in Nat /\ Cardinality(Failing') <= Cardinality(Failing)
  <2>1. Cardinality(Failing \ {w}) =
          IF w \in Failing THEN Cardinality(Failing) - 1 ELSE Cardinality(Failing)
    BY FailingFinite, FS_RemoveElement
  <2>2. IsFiniteSet(Failing \ {w})
    BY FailingFinite, FS_RemoveElement
  <2>3. Cardinality(Failing \ {w}) \in Nat
    BY <2>2, FS_CardinalityType
  <2> QED  BY <1>1, <2>1, <2>3, FailingFinite
<1>3. /\ failures \in Nat /\ blamed \in Nat /\ Cardinality(Failing) \in Nat
      /\ failures + Cardinality(Failing) <= blamed
  BY FailingFinite DEF TypeOK, Pending
<1>4. failures' + Cardinality(Failing') <= blamed'
  BY <1>2, <1>3
<1> QED  BY <1>4 DEF Pending

LEMMA PendingStep ==
  ASSUME TypeOK, Calm, Pending, [Next]_vars
  PROVE  Pending'
<1>t. /\ failures \in Nat /\ blamed \in Nat /\ Cardinality(Failing) \in Nat
      /\ failures + Cardinality(Failing) <= blamed
  BY FailingFinite DEF TypeOK, Pending
<1>1. ASSUME NEW w \in Workers, Chooses(w) \/ Dies(w) \/ BeginsSuccess(w) \/ ClearsFailures(w)
      PROVE  Pending'
  <2>1. /\ \E s \in Steps \ {"failing"} : pc' = [pc EXCEPT ![w] = s]
        /\ failures' \in {0, failures} /\ blamed' = blamed
    BY <1>1 DEF Chooses, SeesCircuit, SeesRpm, Reserves, SetsRpmExpiry, Probes, Dies,
                BeginsSuccess, ClearsFailures, Goto, Steps, redis
  <2>2. PICK s \in Steps \ {"failing"} : pc' = [pc EXCEPT ![w] = s]
    BY <2>1
  <2> QED  BY <2>1, <2>2, PendingKept
<1>2. ASSUME NEW w \in Workers, BeginsFailure(w)
      PROVE  Pending'
  <2>1. /\ pc[w] # "failing" /\ pc' = [pc EXCEPT ![w] = "failing"]
        /\ failures' = failures /\ blamed' = blamed + 1
    BY <1>2 DEF BeginsFailure, Goto, redis
  <2>2. Failing' = Failing \cup {w} /\ w \notin Failing
    BY <2>1, FailingMoves DEF Failing
  <2>3. Cardinality(Failing') = Cardinality(Failing) + 1
    BY <2>2, FailingFinite, FS_AddElement
  <2> QED  BY <1>t, <2>1, <2>3 DEF Pending
<1>3. ASSUME NEW w \in Workers, CountsFailure(w)
      PROVE  Pending'
  <2>1. /\ pc[w] = "failing" /\ pc' = [pc EXCEPT ![w] = "expiring"]
        /\ failures' = failures + 1 /\ blamed' = blamed
    BY <1>3 DEF CountsFailure, Goto
  <2>2. Failing' = Failing \ {w} /\ w \in Failing
    <3>1. Failing' = Failing \ {w}
      BY <2>1 DEF Failing, TypeOK
    <3>2. w \in Failing
      BY <2>1 DEF Failing
    <3> QED  BY <3>1, <3>2
  <2>3. Cardinality(Failing') = Cardinality(Failing) - 1
    BY <2>2, FailingFinite, FS_RemoveElement
  <2> QED  BY <1>t, <2>1, <2>3 DEF Pending
<1>4. ASSUME NEW w \in Workers, SetsFailureExpiry(w) \/ Opens(w)
      PROVE  Pending'
  <2>1. /\ \E s \in {"opening", "idle", "candidate"} : pc' = [pc EXCEPT ![w] = s]
        /\ failures' = failures /\ blamed' = blamed
    BY <1>4 DEF SetsFailureExpiry, Opens, Leaves, Goto
  <2>2. PICK s \in {"opening", "idle", "candidate"} : pc' = [pc EXCEPT ![w] = s]
    BY <2>1
  <2> QED  BY <2>1, <2>2, PendingKept
<1>5. ASSUME NEW w \in Workers, Closes(w)
      PROVE  Pending'
  <2>1. pc' = [pc EXCEPT ![w] = "idle"] /\ failures' = failures
    BY <1>5 DEF Closes, Goto
  <2>2. CASE ~quiet[w]
    <3>1. blamed' = blamed
      BY <1>5, <2>2 DEF Closes
    <3> QED  BY <2>1, <3>1, PendingKept
  <2>3. CASE quiet[w]
    <3>1. failures' = 0 /\ blamed' = 0 /\ \A v \in Workers : pc[v] \notin Blaming
      BY <1>5, <2>3, ClosesClean DEF Closes
    <3>2. Failing' = {}
      BY <2>1, <3>1, FailingMoves DEF Failing, Blaming
    <3>3. Cardinality(Failing') = 0
      BY <3>2, FS_EmptySet
    <3> QED  BY <3>1, <3>3 DEF Pending
  <2> QED  BY <2>2, <2>3
<1>6. CASE CircuitExpires \/ FailuresExpire \/ MinutePasses \/ UNCHANGED vars
  <2>1. pc' = pc /\ blamed' = blamed /\ failures' \in {0, failures}
    BY <1>6 DEF CircuitExpires, FailuresExpire, MinutePasses, vars, redis
  <2>2. Failing' = Failing
    BY <2>1 DEF Failing
  <2> QED  BY <1>t, <2>1, <2>2 DEF Pending
<1> QED
  BY <1>1, <1>2, <1>3, <1>4, <1>5, <1>6 DEF Next, Fails, Succeeds

-----------------------------------------------------------------------------
(* What a worker's INCR returned, and the opening of the circuit.           *)

\* A step of w out of record_failure, or outside it.
LEMMA CountedKept ==
  ASSUME TypeOK, Counted, NEW w \in Workers, NEW s,
         s \notin {"expiring", "opening"},
         pc' = [pc EXCEPT ![w] = s],
         count' = count, blamed' = blamed \/ blamed' = blamed + 1
  PROVE  Counted'
<1> SUFFICES ASSUME NEW v \in Workers, pc'[v] \in {"expiring", "opening"}
             PROVE  /\ count'[v] <= blamed'
                    /\ pc'[v] = "opening" => count'[v] >= Threshold
  BY DEF Counted
<1>1. v # w /\ pc'[v] = pc[v]
  BY DEF TypeOK
<1>2. count[v] <= blamed /\ (pc[v] = "opening" => count[v] >= Threshold)
  BY <1>1 DEF Counted
<1>3. count[v] \in Nat /\ blamed \in Nat
  BY DEF TypeOK
<1> QED  BY <1>1, <1>2, <1>3

LEMMA CountedStep ==
  ASSUME TypeOK, Calm, Pending, Counted, [Next]_vars
  PROVE  Counted'
<1>1. ASSUME NEW w \in Workers, Chooses(w) \/ Dies(w) \/ BeginsSuccess(w) \/ ClearsFailures(w)
      PROVE  Counted'
  <2>1. /\ \E s \in Steps \ {"expiring", "opening"} : pc' = [pc EXCEPT ![w] = s]
        /\ count' = count /\ blamed' = blamed
    BY <1>1 DEF Chooses, SeesCircuit, SeesRpm, Reserves, SetsRpmExpiry, Probes, Dies,
                BeginsSuccess, ClearsFailures, Goto, Steps, redis
  <2>2. PICK s \in Steps \ {"expiring", "opening"} : pc' = [pc EXCEPT ![w] = s]
    BY <2>1
  <2> QED  BY <2>1, <2>2, CountedKept
<1>2. ASSUME NEW w \in Workers, BeginsFailure(w)
      PROVE  Counted'
  <2>1. pc' = [pc EXCEPT ![w] = "failing"] /\ count' = count /\ blamed' = blamed + 1
    BY <1>2 DEF BeginsFailure, Goto
  <2> QED  BY <2>1, CountedKept
<1>3. ASSUME NEW w \in Workers, CountsFailure(w)
      PROVE  Counted'
  <2>1. /\ pc[w] = "failing" /\ pc' = [pc EXCEPT ![w] = "expiring"]
        /\ count' = [count EXCEPT ![w] = failures + 1] /\ blamed' = blamed
    BY <1>3 DEF CountsFailure, Goto
  <2>2. w \in Failing
    BY <2>1 DEF Failing
  <2>3. Cardinality(Failing) >= 1
    <3>1. Cardinality(Failing) # 0
      BY <2>2, FailingFinite, FS_EmptySet
    <3> QED  BY <3>1, FailingFinite
  <2>4. failures + 1 <= blamed
    BY <2>3, FailingFinite DEF Pending, TypeOK
  <2> SUFFICES ASSUME NEW v \in Workers
               PROVE  /\ pc'[v] \in {"expiring", "opening"} => count'[v] <= blamed'
                      /\ pc'[v] = "opening" => count'[v] >= Threshold
    BY DEF Counted
  <2>5. CASE v = w
    <3>1. pc'[v] = "expiring" /\ count'[v] = failures + 1
      BY <2>1, <2>5 DEF TypeOK
    <3> QED  BY <2>1, <2>4, <3>1
  <2>6. CASE v # w
    <3>1. pc'[v] = pc[v] /\ count'[v] = count[v]
      BY <2>1, <2>6 DEF TypeOK
    <3> QED  BY <2>1, <3>1 DEF Counted
  <2> QED  BY <2>5, <2>6
<1>4. ASSUME NEW w \in Workers, SetsFailureExpiry(w) \/ Opens(w)
      PROVE  Counted'
  <2>1. count' = count /\ blamed' = blamed
    BY <1>4 DEF SetsFailureExpiry, Opens
  <2>2. CASE \E s \in {"idle", "candidate"} : pc' = [pc EXCEPT ![w] = s]
    <3>1. PICK s \in {"idle", "candidate"} : pc' = [pc EXCEPT ![w] = s]
      BY <2>2
    <3> QED  BY <2>1, <3>1, CountedKept
  <2>3. CASE /\ pc[w] = "expiring" /\ count[w] >= Threshold
             /\ pc' = [pc EXCEPT ![w] = "opening"]
    <3> SUFFICES ASSUME NEW v \in Workers
                 PROVE  /\ pc'[v] \in {"expiring", "opening"} => count'[v] <= blamed'
                        /\ pc'[v] = "opening" => count'[v] >= Threshold
      BY DEF Counted
    <3>1. CASE v = w
      BY <2>1, <2>3, <3>1 DEF Counted, TypeOK
    <3>2. CASE v # w
      BY <2>1, <2>3, <3>2 DEF Counted, TypeOK
    <3> QED  BY <3>1, <3>2
  <2>4. \/ \E s \in {"idle", "candidate"} : pc' = [pc EXCEPT ![w] = s]
        \/ /\ pc[w] = "expiring" /\ count[w] >= Threshold
           /\ pc' = [pc EXCEPT ![w] = "opening"]
    BY <1>4 DEF SetsFailureExpiry, Opens, Leaves, Goto
  <2> QED  BY <2>2, <2>3, <2>4
<1>5. ASSUME NEW w \in Workers, Closes(w)
      PROVE  Counted'
  <2>1. pc' = [pc EXCEPT ![w] = "idle"] /\ count' = count
    BY <1>5 DEF Closes, Goto
  <2>2. CASE ~quiet[w]
    <3>1. blamed' = blamed
      BY <1>5, <2>2 DEF Closes
    <3> QED  BY <2>1, <3>1, CountedKept
  <2>3. CASE quiet[w]
    <3>1. \A v \in Workers : pc[v] \notin Blaming
      BY <1>5, <2>3, ClosesClean
    <3>2. \A v \in Workers : pc'[v] \notin {"expiring", "opening"}
      BY <2>1, <3>1 DEF Blaming, TypeOK
    <3> QED  BY <3>2 DEF Counted
  <2> QED  BY <2>2, <2>3
<1>6. CASE CircuitExpires \/ FailuresExpire \/ MinutePasses \/ UNCHANGED vars
  <2>1. pc' = pc /\ count' = count /\ blamed' = blamed
    BY <1>6 DEF CircuitExpires, FailuresExpire, MinutePasses, vars, redis
  <2> QED  BY <2>1 DEF Counted
<1> QED
  BY <1>1, <1>2, <1>3, <1>4, <1>5, <1>6 DEF Next, Fails, Succeeds

LEMMA OpenStep ==
  ASSUME TypeOK, Counted, OpenIsEarned, [Next]_vars
  PROVE  OpenIsEarned'
<1>t. blamed \in Nat /\ Threshold \in Nat
  BY ThresholdIsPositive DEF TypeOK
<1>1. ASSUME NEW w \in Workers, Opens(w)
      PROVE  OpenIsEarned'
  <2>1. pc[w] = "opening" /\ blamed' = blamed
    BY <1>1 DEF Opens
  <2>2. count[w] <= blamed /\ count[w] >= Threshold
    BY <2>1 DEF Counted
  <2>3. count[w] \in Nat
    BY DEF TypeOK
  <2> QED  BY <1>t, <2>1, <2>2, <2>3 DEF OpenIsEarned
<1>2. ASSUME NEW w \in Workers, Closes(w)
      PROVE  OpenIsEarned'
  BY <1>2 DEF Closes, OpenIsEarned
<1>3. CASE circuit' \in {"absent", circuit} /\ blamed' \in {blamed, blamed + 1}
  BY <1>t, <1>3 DEF OpenIsEarned
<1>4. ASSUME NEW w \in Workers, WorkerStep(w), ~Opens(w), ~Closes(w)
      PROVE  circuit' = circuit /\ blamed' \in {blamed, blamed + 1}
  BY <1>4 DEF WorkerStep, Chooses, Fails, Succeeds, SeesCircuit, SeesRpm, Reserves,
              SetsRpmExpiry, Probes, BeginsFailure, CountsFailure, SetsFailureExpiry,
              BeginsSuccess, ClearsFailures, Dies, redis
<1>5. CASE CircuitExpires \/ FailuresExpire \/ MinutePasses \/ UNCHANGED vars
  BY <1>3, <1>5 DEF CircuitExpires, FailuresExpire, MinutePasses, vars, redis
<1> QED  BY <1>1, <1>2, <1>3, <1>4, <1>5 DEF Next, WorkerStep

-----------------------------------------------------------------------------
(* The inductive invariant, and what follows from it.                      *)

LEMMA InitInv == Init => IInv
<1> SUFFICES ASSUME Init PROVE IInv
  OBVIOUS
<1>1. TypeOK
  BY InitType
<1>2. Budget
  BY BoundsAreNat DEF Init, Budget
<1>3. Calm /\ Counted /\ OpenIsEarned
  BY DEF Init, Calm, Counted, OpenIsEarned
<1>4. Failing = {}
  BY DEF Init, Failing
<1>5. Pending
  BY <1>4, FS_EmptySet DEF Init, Pending
<1> QED  BY <1>1, <1>2, <1>3, <1>5 DEF IInv

LEMMA NextInv == IInv /\ [Next]_vars => IInv'
  BY NextType, BudgetStep, CalmStep, PendingStep, CountedStep, OpenStep DEF IInv

THEOREM Invariance == Spec => []IInv
  BY InitInv, NextInv, PTL DEF Spec

\* reserve_candidate_attempt lets at most RpmLimit attempts through in a minute,
\* however many requests read the counter before any of them incremented it.
THEOREM RpmIsHeld == Spec => []RpmHolds
<1>1. IInv => RpmHolds
  BY DEF IInv, Budget, RpmHolds
<1> QED  BY <1>1, Invariance, PTL

\* The circuit is open only after Threshold calls of record_failure since a success
\* last closed it undisturbed.
THEOREM OpenOnlyIfEarned == Spec => []OpenIsEarned
<1>1. IInv => OpenIsEarned
  BY DEF IInv
<1> QED  BY <1>1, Invariance, PTL

\* A record_success that overlaps no record_failure ends with the circuit closed and
\* the failure counter gone, whatever the other workers do between its two deletes.
THEOREM SuccessReallyCloses == Spec => SuccessCloses
<1>1. IInv /\ [Next]_vars =>
        [\A w \in Workers : Closes(w) /\ quiet[w]
           => circuit' = "absent" /\ failures' = 0]_vars
  BY ClosesClean DEF IInv
<1> QED  BY <1>1, Invariance, PTL DEF Spec, SuccessCloses
=============================================================================
