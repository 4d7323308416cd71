------------------------- MODULE OAuthToken_proofs -------------------------
(***************************************************************************)
(* Proofs about OAuthToken, for any set of requests and number of calls.   *)
(* IInv is the inductive invariant: a call that is still on its way has no *)
(* token yet, the lock excludes until it is lost under its holder, and     *)
(* until then whatever is cached, or on its way there, is newer than every *)
(* token that was replaced.                                                *)
(***************************************************************************)
EXTENDS OAuthToken, TLAPS

\* A call has no token before it has found or fetched one, and one that was
\* forced does not look for one in the cache.
Empty ==
    \A w \in Workers :
        /\ pc[w] \in Working \ {"write", "unlock"} => call[w].token = 0
        /\ pc[w] = "recheck" => call[w].refused = 0

\* Between the lock and its release there is one call, and the lock is there.
Mutex ==
    ~overrun => \A w \in Workers : pc[w] \in Holding =>
                    locked /\ \A v \in Workers : pc[v] \in Holding => v = w

\* The cache, and what is about to be written there, is newer than any token
\* that was refused and replaced; the holder of the lock has just asked for it.
Newer ==
    ~overrun =>
        /\ cache # 0 => cache > retired
        /\ \A w \in Workers :
            /\ pc[w] = "write" =>
                call[w].token > retired /\ call[w].token > call[w].refused
            /\ pc[w] = "unlock" /\ call[w].token # 0 /\ call[w].refused # 0 =>
                call[w].token > call[w].refused /\ cache \in {0, call[w].token}

\* What a call returns is newer than what was retired when it began.
Given ==
    ~overrun => \A w \in Workers :
                    pc[w] \in {"unlock", "done"} /\ call[w].token # 0
                        => call[w].token > call[w].floor

IInv == TypeOK /\ Empty /\ Mutex /\ Newer /\ Given /\ NoNeedlessFetch

-----------------------------------------------------------------------------
(* One lemma per part of the invariant.                                    *)

Calls == [refused : 0..issued, token : 0..issued, floor : 0..retired]

LEMMA InitInv == Init => IInv
<1> SUFFICES ASSUME Init PROVE IInv
  OBVIOUS
<1> USE DEF Init, NoCall
<1>1. TypeOK
  <2>1. calls \in 0..MaxCalls
    BY MaxCallsIsNat
  <2>2. NoCall \in Calls
    BY DEF Calls
  <2> HIDE DEF NoCall
  <2>3. call \in [Workers -> Calls]
    BY <2>2
  <2>4. pc \in [Workers -> Working \cup {"done"}] /\ \A w \in Workers : pc[w] # "write"
    OBVIOUS
  <2>5. cache \in 0..issued /\ issued \in Nat /\ retired \in 0..issued
    OBVIOUS
  <2>6. locked \in BOOLEAN /\ overrun \in BOOLEAN
    OBVIOUS
  <2> HIDE DEF Init
  <2> QED  BY <2>1, <2>3, <2>4, <2>5, <2>6 DEF TypeOK, Calls
<1>2. Empty /\ Mutex /\ Newer /\ Given /\ NoNeedlessFetch
  BY DEF Empty, Mutex, Newer, Given, NoNeedlessFetch, Working, Holding
<1> QED  BY <1>1, <1>2 DEF IInv

\* Calls keep their type when more tokens are issued or retired.
LEMMA CallsGrow ==
  ASSUME TypeOK, issued' \in Nat, issued' >= issued,
         retired' \in 0..issued', retired' >= retired
  PROVE  \A w \in Workers : call[w] \in Calls'
BY DEF TypeOK, Calls

\* Who changes the fields of one call by tokens that were issued.
LEMMA CallChanges ==
  ASSUME TypeOK, issued' \in Nat, issued' >= issued,
         retired' \in 0..issued', retired' >= retired,
         NEW w \in Workers, NEW t \in 0..issued', Has(w, t)
  PROVE  call' \in [Workers -> Calls']
<1>1. call[w] \in Calls'
  BY CallsGrow
<1>2. [call[w] EXCEPT !.token = t] \in Calls'
  BY <1>1 DEF Calls
<1>3. call' = [call EXCEPT ![w] = [call[w] EXCEPT !.token = t]]
  BY DEF Has
<1> QED  BY <1>2, <1>3, CallsGrow DEF TypeOK

LEMMA TypeStep ==
  ASSUME TypeOK, Empty, [Next]_vars
  PROVE  TypeOK'
<1> USE DEF Goto
<1> DEFINE Steps == Working \cup {"done"}
<1>0. {"done", "wait", "relock", "recheck", "fetch", "write", "unlock", "lock"} \subseteq Steps
  BY DEF Working, Holding
<1>1. ASSUME NEW w \in Workers, Begins(w) PROVE TypeOK'
  <2>1. PICK refused \in {0, call[w].token} :
            LET found == IF refused = 0 THEN cache ELSE 0 IN
            /\ call' = [call EXCEPT ![w] =
                        [refused |-> refused, token |-> found, floor |-> retired]]
            /\ Goto(w, IF found # 0 THEN "done" ELSE "lock")
    BY <1>1 DEF Begins
  <2>2. PICK found \in {0, cache} :
            /\ call' = [call EXCEPT ![w] =
                        [refused |-> refused, token |-> found, floor |-> retired]]
            /\ Goto(w, IF found # 0 THEN "done" ELSE "lock")
    BY <2>1
  <2>3. [refused |-> refused, token |-> found, floor |-> retired] \in Calls
    BY DEF TypeOK, Calls
  <2>4. call' \in [Workers -> Calls]
    BY <2>2, <2>3 DEF TypeOK, Calls
  <2>5. pc' \in [Workers -> Steps] /\ \A v \in Workers : pc'[v] = "write" => v # w /\ pc[v] = "write"
    BY <1>0, <2>2 DEF TypeOK
  <2>6. \A v \in Workers : pc'[v] = "write" => call'[v].token # 0
    BY <2>2, <2>5 DEF TypeOK
  <2>7. calls' \in 0..MaxCalls
    BY <1>1, MaxCallsIsNat DEF TypeOK, Begins
  <2> QED  BY <1>1, <2>4, <2>5, <2>6, <2>7 DEF TypeOK, Begins, Calls
<1>2. ASSUME NEW w \in Workers, Locks(w) \/ Relocks(w) \/ RoundsEnd(w) \/ FetchFails(w) PROVE TypeOK'
  <2>1. UNCHANGED <<cache, issued, call, calls, retired, overrun>> /\ locked' \in BOOLEAN
    BY <1>2 DEF Locks, Relocks, RoundsEnd, FetchFails, TakesLock, TypeOK
  <2>2. PICK s \in Steps \ {"write"} : pc' = [pc EXCEPT ![w] = s]
    BY <1>0, <1>2 DEF Locks, Relocks, RoundsEnd, FetchFails, TakesLock
  <2>3. pc' \in [Workers -> Steps] /\ \A v \in Workers : pc'[v] = "write" => pc[v] = "write"
    BY <2>2 DEF TypeOK
  <2> QED  BY <2>1, <2>3 DEF TypeOK
<1>3. ASSUME NEW w \in Workers, FindsToken(w) \/ Rechecks(w) \/ RedisFails(w) \/ Dies(w)
      PROVE TypeOK'
  <2>1. UNCHANGED <<cache, locked, issued, calls, retired, overrun>>
    BY <1>3 DEF FindsToken, Rechecks, RedisFails, Dies
  <2>2. PICK s \in Steps \ {"write"} : pc' = [pc EXCEPT ![w] = s]
    BY <1>0, <1>3 DEF FindsToken, Rechecks, RedisFails, Dies
  <2>3. PICK t \in {0, cache} : Has(w, t)
    BY <1>3 DEF FindsToken, Rechecks, RedisFails, Dies
  <2>4. call' \in [Workers -> Calls']
    BY <2>1, <2>3, CallChanges DEF TypeOK
  <2>5. pc' \in [Workers -> Steps] /\ \A v \in Workers : pc'[v] = "write" => v # w /\ pc[v] = "write"
    BY <2>2 DEF TypeOK
  <2>6. \A v \in Workers : pc'[v] = "write" => call'[v].token # 0
    BY <2>3, <2>5 DEF TypeOK, Has
  <2> QED  BY <2>1, <2>4, <2>5, <2>6 DEF TypeOK, Calls
<1>4. ASSUME NEW w \in Workers, Fetches(w) PROVE TypeOK'
  <2>1. UNCHANGED <<cache, locked, calls, retired, overrun>> /\ issued' = issued + 1
    BY <1>4 DEF Fetches
  <2>2. call' \in [Workers -> Calls']
    BY <1>4, <2>1, CallChanges DEF Fetches, TypeOK
  <2>3. pc' \in [Workers -> Steps]
    BY <1>0, <1>4 DEF Fetches, TypeOK
  <2>4. \A v \in Workers : pc'[v] = "write" => call'[v].token # 0
    BY <1>4 DEF Fetches, TypeOK, Has
  <2>5. cache' \in 0..issued' /\ issued' \in Nat /\ retired' \in 0..issued'
    BY <2>1 DEF TypeOK
  <2> QED  BY <2>1, <2>2, <2>3, <2>4, <2>5 DEF TypeOK, Calls
<1>5. ASSUME NEW w \in Workers, Writes(w) PROVE TypeOK'
  <2>1. call[w].token \in 0..issued
    BY DEF TypeOK
  <2>2. pc' \in [Workers -> Steps] /\ \A v \in Workers : pc'[v] = "write" => pc[v] = "write"
    BY <1>0, <1>5 DEF Writes, TypeOK
  <2> QED  BY <1>5, <2>1, <2>2 DEF Writes, TypeOK
<1>6. ASSUME NEW w \in Workers, Unlocks(w) PROVE TypeOK'
  <2>1. retired' \in 0..issued /\ retired' >= retired
    BY <1>6 DEF Unlocks, TypeOK
  <2>2. call' \in [Workers -> Calls']
    BY <1>6, <2>1, CallsGrow DEF Unlocks, TypeOK
  <2>3. pc' \in [Workers -> Steps] /\ \A v \in Workers : pc'[v] = "write" => pc[v] = "write"
    BY <1>0, <1>6 DEF Unlocks, TypeOK
  <2> QED  BY <1>6, <2>1, <2>2, <2>3 DEF Unlocks, TypeOK, Calls
<1>7. CASE LockExpires
  <2>1. overrun' \in BOOLEAN
    BY <1>7 DEF LockExpires, TypeOK
  <2> QED  BY <1>7, <2>1 DEF LockExpires, TypeOK
<1>8. CASE CacheExpires
  BY <1>8 DEF CacheExpires, TypeOK
<1>9. CASE UNCHANGED vars
  BY <1>9 DEF vars, TypeOK
<1> QED  BY <1>1, <1>2, <1>3, <1>4, <1>5, <1>6, <1>7, <1>8, <1>9 DEF Next, Works

LEMMA EmptyStep ==
  ASSUME TypeOK, Empty, [Next]_vars
  PROVE  Empty'
<1> USE DEF Empty, TypeOK, Goto, Has, Working, Holding
<1>1. ASSUME NEW w \in Workers, Begins(w) PROVE Empty'
  BY <1>1 DEF Begins
<1>2. ASSUME NEW w \in Workers, Locks(w) \/ Relocks(w) PROVE Empty'
  BY <1>2 DEF Locks, Relocks, TakesLock
<1>3. ASSUME NEW w \in Workers, FindsToken(w) \/ RoundsEnd(w) PROVE Empty'
  BY <1>3 DEF FindsToken, RoundsEnd
<1>4. ASSUME NEW w \in Workers, Rechecks(w) \/ Fetches(w) \/ FetchFails(w) PROVE Empty'
  BY <1>4 DEF Rechecks, Fetches, FetchFails
<1>5. ASSUME NEW w \in Workers, Writes(w) \/ Unlocks(w) PROVE Empty'
  BY <1>5 DEF Writes, Unlocks
<1>6. ASSUME NEW w \in Workers, RedisFails(w) \/ Dies(w) PROVE Empty'
  BY <1>6 DEF RedisFails, Dies
<1>7. CASE LockExpires \/ CacheExpires \/ UNCHANGED vars
  BY <1>7 DEF LockExpires, CacheExpires, vars
<1> QED  BY <1>1, <1>2, <1>3, <1>4, <1>5, <1>6, <1>7 DEF Next, Works

\* SET NX lets nobody in beside the holder, and only the holder deletes the lock
\* until it is lost.
LEMMA MutexStep ==
  ASSUME TypeOK, Mutex, [Next]_vars
  PROVE  Mutex'
<1> USE DEF Mutex, TypeOK, Goto, Working, Holding
<1>1. ASSUME NEW w \in Workers, Begins(w) PROVE Mutex'
  BY <1>1 DEF Begins
<1>2. ASSUME NEW w \in Workers, Locks(w) \/ Relocks(w) PROVE Mutex'
  BY <1>2 DEF Locks, Relocks, TakesLock
<1>3. ASSUME NEW w \in Workers, FindsToken(w) \/ RoundsEnd(w) PROVE Mutex'
  BY <1>3 DEF FindsToken, RoundsEnd
<1>4. ASSUME NEW w \in Workers, Rechecks(w) \/ Fetches(w) \/ FetchFails(w) PROVE Mutex'
  BY <1>4 DEF Rechecks, Fetches, FetchFails
<1>5. ASSUME NEW w \in Workers, Writes(w) \/ Unlocks(w) PROVE Mutex'
  BY <1>5 DEF Writes, Unlocks
<1>6. ASSUME NEW w \in Workers, RedisFails(w) \/ Dies(w) PROVE Mutex'
  BY <1>6 DEF RedisFails, Dies
<1>7. CASE LockExpires \/ CacheExpires \/ UNCHANGED vars
  BY <1>7 DEF LockExpires, CacheExpires, vars
<1> QED  BY <1>1, <1>2, <1>3, <1>4, <1>5, <1>6, <1>7 DEF Next, Works

LEMMA NewerStep ==
  ASSUME TypeOK, Empty, Mutex, Newer, [Next]_vars
  PROVE  Newer'
<1> SUFFICES ASSUME ~overrun' PROVE Newer'
  BY DEF Newer
<1> USE DEF Newer, TypeOK, Goto, Has
<1>1. ASSUME NEW w \in Workers, Begins(w) PROVE Newer'
  BY <1>1 DEF Begins
<1>2. ASSUME NEW w \in Workers, Locks(w) \/ Relocks(w) PROVE Newer'
  BY <1>2 DEF Locks, Relocks, TakesLock
<1>3. ASSUME NEW w \in Workers, FindsToken(w) \/ RoundsEnd(w) PROVE Newer'
  BY <1>3 DEF FindsToken, RoundsEnd
<1>4. ASSUME NEW w \in Workers, Rechecks(w) \/ FetchFails(w) PROVE Newer'
  BY <1>4 DEF Rechecks, FetchFails, Empty, Working, Holding
<1>5. ASSUME NEW w \in Workers, Fetches(w) PROVE Newer'
  BY <1>5 DEF Fetches
<1>6. ASSUME NEW w \in Workers, Writes(w) PROVE Newer'
  <2>1. \A v \in Workers : v # w => pc[v] \notin {"write", "unlock"}
    BY <1>6 DEF Writes, Mutex, Holding
  <2> QED  BY <1>6, <2>1 DEF Writes
<1>7. ASSUME NEW w \in Workers, Unlocks(w) PROVE Newer'
  <2>1. \A v \in Workers : v # w => pc[v] \notin {"write", "unlock"}
    BY <1>7 DEF Unlocks, Mutex, Holding
  <2>2. cache # 0 => cache > retired'
    BY <1>7 DEF Unlocks
  <2>3. pc' = [pc EXCEPT ![w] = "done"] /\ UNCHANGED <<cache, call>>
    BY <1>7 DEF Unlocks
  <2> QED  BY <2>1, <2>2, <2>3
<1>8. ASSUME NEW w \in Workers, RedisFails(w) \/ Dies(w) PROVE Newer'
  BY <1>8 DEF RedisFails, Dies
<1>9. CASE LockExpires \/ CacheExpires \/ UNCHANGED vars
  BY <1>9 DEF LockExpires, CacheExpires, vars
<1> QED  BY <1>1, <1>2, <1>3, <1>4, <1>5, <1>6, <1>7, <1>8, <1>9 DEF Next, Works

LEMMA GivenStep ==
  ASSUME TypeOK, Empty, Newer, Given, [Next]_vars
  PROVE  Given'
<1> SUFFICES ASSUME ~overrun' PROVE Given'
  BY DEF Given
<1> USE DEF Given, TypeOK, Goto, Has
<1>1. ASSUME NEW w \in Workers, Begins(w) PROVE Given'
  BY <1>1 DEF Begins, Newer
<1>2. ASSUME NEW w \in Workers, Locks(w) \/ Relocks(w) PROVE Given'
  BY <1>2 DEF Locks, Relocks, TakesLock, Empty, Working, Holding
<1>3. ASSUME NEW w \in Workers, FindsToken(w) \/ RoundsEnd(w) PROVE Given'
  BY <1>3 DEF FindsToken, RoundsEnd, Newer
<1>4. ASSUME NEW w \in Workers, Rechecks(w) \/ FetchFails(w) PROVE Given'
  BY <1>4 DEF Rechecks, FetchFails, Newer, Empty, Working, Holding
<1>5. ASSUME NEW w \in Workers, Fetches(w) PROVE Given'
  BY <1>5 DEF Fetches
<1>6. ASSUME NEW w \in Workers, Writes(w) \/ Unlocks(w) PROVE Given'
  BY <1>6 DEF Writes, Unlocks, Newer
<1>7. ASSUME NEW w \in Workers, RedisFails(w) \/ Dies(w) PROVE Given'
  BY <1>7 DEF RedisFails, Dies
<1>8. CASE LockExpires \/ CacheExpires \/ UNCHANGED vars
  BY <1>8 DEF LockExpires, CacheExpires, vars
<1> QED  BY <1>1, <1>2, <1>3, <1>4, <1>5, <1>6, <1>7, <1>8 DEF Next, Works

LEMMA NeedlessStep ==
  ASSUME TypeOK, Mutex, NoNeedlessFetch, [Next]_vars
  PROVE  NoNeedlessFetch'
<1> SUFFICES ASSUME ~overrun' PROVE NoNeedlessFetch'
  BY DEF NoNeedlessFetch
<1> USE DEF NoNeedlessFetch, TypeOK, Goto, Has
<1>1. ASSUME NEW w \in Workers, Begins(w) PROVE NoNeedlessFetch'
  BY <1>1 DEF Begins
<1>2. ASSUME NEW w \in Workers, Locks(w) \/ Relocks(w) PROVE NoNeedlessFetch'
  BY <1>2 DEF Locks, Relocks, TakesLock
<1>3. ASSUME NEW w \in Workers, FindsToken(w) \/ RoundsEnd(w) PROVE NoNeedlessFetch'
  BY <1>3 DEF FindsToken, RoundsEnd
<1>4. ASSUME NEW w \in Workers, Rechecks(w) \/ Fetches(w) \/ FetchFails(w)
      PROVE NoNeedlessFetch'
  BY <1>4 DEF Rechecks, Fetches, FetchFails
<1>5. ASSUME NEW w \in Workers, Writes(w) PROVE NoNeedlessFetch'
  <2>1. \A v \in Workers : pc'[v] # "fetch"
    BY <1>5 DEF Writes, Mutex, Holding
  <2> QED  BY <2>1
<1>6. ASSUME NEW w \in Workers, Unlocks(w) PROVE NoNeedlessFetch'
  BY <1>6 DEF Unlocks
<1>7. ASSUME NEW w \in Workers, RedisFails(w) \/ Dies(w) PROVE NoNeedlessFetch'
  BY <1>7 DEF RedisFails, Dies
<1>8. CASE LockExpires \/ CacheExpires \/ UNCHANGED vars
  BY <1>8 DEF LockExpires, CacheExpires, vars
<1> QED  BY <1>1, <1>2, <1>3, <1>4, <1>5, <1>6, <1>7, <1>8 DEF Next, Works

LEMMA Invariance == Spec => []IInv
<1>1. IInv /\ [Next]_vars => IInv'
  BY TypeStep, EmptyStep, MutexStep, NewerStep, GivenStep, NeedlessStep DEF IInv
<1> QED  BY <1>1, InitInv, PTL DEF Spec

-----------------------------------------------------------------------------
(* The theorems.                                                           *)

\* The state is of the right shape, and what is written to the cache is a token.
THEOREM TypeCorrect == Spec => []TypeOK
<1>1. IInv => TypeOK
  BY DEF IInv
<1> QED  BY <1>1, Invariance, PTL

\* Until a lock is lost under its holder, the lock of _resolve_oauth_access_token
\* lets one call at a time ask the provider, however many requests wait for it.
THEOREM OnlyOneFetcher == Spec => []OneFetcher
<1>1. IInv => OneFetcher
  BY DEF IInv, Mutex, OneFetcher
<1> QED  BY <1>1, Invariance, PTL

\* The read of the cache under the lock keeps a call that had to wait from asking
\* the provider for a token that is there.
THEOREM NothingAskedTwice == Spec => []NoNeedlessFetch
<1>1. IInv => NoNeedlessFetch
  BY DEF IInv
<1> QED  BY <1>1, Invariance, PTL

\* After a forced refresh no request that begins later gets the refused token or an
\* older one, from the cache, from waiting or under the lock.
THEOREM RetiredForGood == Spec => []RetiredIsGone
<1>1. IInv => RetiredIsGone
  BY DEF IInv, Given, RetiredIsGone
<1> QED  BY <1>1, Invariance, PTL
=============================================================================
