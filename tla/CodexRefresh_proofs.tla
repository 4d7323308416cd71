------------------------ MODULE CodexRefresh_proofs ------------------------
(***************************************************************************)
(* Proofs about CodexRefresh, for any workers, processes and number of     *)
(* calls.  IInv is the inductive invariant: the two locks exclude, the     *)
(* provider is at most one credential ahead of the row, a process never    *)
(* holds a refresh token it has bought with, and whatever a call may still *)
(* adopt is newer than the credential it was told was refused.             *)
(***************************************************************************)
EXTENDS CodexRefresh, TLAPS

\* The provider has answered the call with a credential.
Bought(w) == pc[w] = "answer" /\ call[w].token # 0

Committed == {"encode", "publish"}
Unspent   == {"peek", "lock", "fetch"}

Typed ==
    /\ TypeOK
    /\ \A w \in Workers : pc[w] \in Committed => call[w].token # 0

\* The lock of a process excludes its own calls.
LocalMutex ==
    \A v, w \in Workers :
        Host[v] = Host[w] /\ pc[v] \in Inside /\ pc[w] \in Inside => v = w

\* The lock in Redis excludes all of them until it expires under its holder.
Mutex ==
    ~overrun =>
        \A w \in Workers : pc[w] \in Holding =>
            locked /\ \A v \in Workers : pc[v] \in Holding => v = w

\* The row is the last credential, or one behind while one call knows the last.
Rotation ==
    ~lost =>
        /\ stored <= issued
        /\ \A w \in Workers : call[w].row <= stored
        /\ \A w \in Workers : Bought(w) =>
            /\ call[w].token = issued /\ issued = stored + 1
            /\ \A v \in Workers : Bought(v) => v = w
        /\ stored = issued \/ \E w \in Workers : Bought(w)

\* A process has bought nothing with a refresh token that it may still show.
Spent ==
    ~overrun /\ ~lost =>
        /\ \A a \in again : a[1] # a[2]
        /\ \A w \in Workers :
            pc[w] \in Unspent => <<Host[w], call[w].row>> \notin spent
        /\ \A s \in spent :
            \/ s[2] < stored
            \/ \E w \in Workers : Bought(w) /\ s = <<Host[w], call[w].row>>

\* Results are encoded in the order in which their credentials were committed.
Order ==
    ~overrun =>
        /\ stored <= issued
        /\ cache.refreshed_at <= clock
        /\ \A v \in Workers :
            /\ Bought(v) => stored < call[v].token /\ call[v].token <= issued
            /\ pc[v] \in Committed => call[v].token = stored
            /\ pc[v] = "publish" => call[v].refreshed_at <= clock
            /\ call[v].refused <= stored

\* What call w may find published later comes from call v.
Coming(v, w) ==
    \/ Bought(v)
    \/ pc[v] = "encode"
    \/ pc[v] = "publish" /\ call[v].refreshed_at > call[w].requested_at

\* What a call adopts or may still adopt is newer than what was refused.
Newer ==
    ~overrun =>
        \A w \in Workers : ~call[w].window =>
            /\ cache.refreshed_at > call[w].requested_at
                => cache.token > call[w].refused
            /\ \A v \in Workers : Coming(v, w) => call[v].token > call[w].refused
            /\ pc[w] = "leave" => call[w].token > call[w].refused

IInv == Typed /\ LocalMutex /\ Mutex /\ Rotation /\ Spent /\ Order /\ Newer

-----------------------------------------------------------------------------
(* Types.                                                                  *)

\* A call that ends leaves nothing behind.
LEMMA EndsType ==
  ASSUME Typed, NEW w \in Workers, Ends(w)
  PROVE  /\ pc' \in [Workers -> Steps] /\ call' \in [Workers -> Calls]
         /\ \A v \in Workers : pc'[v] \in Committed => call'[v].token # 0
<1>1. pc' = [pc EXCEPT ![w] = "idle"] /\ call' = [call EXCEPT ![w] = NoCall]
  BY DEF Ends, Goto
<1>2. NoCall \in Calls
  BY DEF NoCall, Calls, Credentials
<1>3. pc' \in [Workers -> Steps] /\ call' \in [Workers -> Calls]
  BY <1>1, <1>2 DEF Typed, TypeOK, Steps
<1>4. \A v \in Workers : pc'[v] \in Committed => call'[v].token # 0
  BY <1>1 DEF Typed, TypeOK, Committed
<1> QED  BY <1>3, <1>4

\* What a call knows when it begins.
LEMMA BeginsCall ==
  ASSUME Typed, NEW w \in Workers, Begins(w)
  PROVE  \E n \in {0, stored}, seen \in BOOLEAN, c \in Calls :
            /\ seen <=> \E v \in Workers : pc[v] = "encode" /\ call[v].token = n
            /\ c.refused = n /\ c.row = 1 /\ c.token = 0 /\ c.requested_at = clock
            /\ c.refreshed_at = 0 /\ c.window = seen
            /\ call' = [call EXCEPT ![w] = c]
<1> DEFINE Seen(n) == \E v \in Workers : pc[v] = "encode" /\ call[v].token = n
           Changed(n, b) == [NoCall EXCEPT !.refused = n, !.requested_at = clock,
                                           !.window = b]
<1>1. PICK n \in {0, stored} : call' = [call EXCEPT ![w] = Changed(n, Seen(n))]
  BY DEF Begins
<1>2. Seen(n) \in BOOLEAN
  OBVIOUS
<1> HIDE DEF Seen
<1>3. NoCall \in Calls
  BY DEF NoCall, Calls, Credentials
<1>4. Changed(n, Seen(n)) \in Calls
  <2>1. n \in Nat /\ clock \in Nat
    BY DEF Typed, TypeOK, Credentials
  <2>2. \A c \in Calls, b \in BOOLEAN :
            [c EXCEPT !.refused = n, !.requested_at = clock, !.window = b] \in Calls
    BY <2>1 DEF Calls, Credentials
  <2> QED  BY <1>2, <1>3, <2>2
<1>5. /\ Changed(n, Seen(n)).refused = n /\ Changed(n, Seen(n)).row = 1
      /\ Changed(n, Seen(n)).token = 0 /\ Changed(n, Seen(n)).requested_at = clock
      /\ Changed(n, Seen(n)).refreshed_at = 0
      /\ Changed(n, Seen(n)).window = Seen(n)
  BY DEF NoCall
<1> HIDE DEF Changed
<1>6. WITNESS n \in {0, stored}, Seen(n) \in BOOLEAN, Changed(n, Seen(n)) \in Calls
<1> QED  BY <1>1, <1>5 DEF Seen

\* What the provider's answer changes.
LEMMA PresentsCall ==
  ASSUME Typed, NEW w \in Workers, Presents(w)
  PROVE  /\ pc[w] = "fetch" /\ pc' = [pc EXCEPT ![w] = "answer"]
         /\ \A v \in Workers :
             /\ call'[v].refused = call[v].refused /\ call'[v].window = call[v].window
             /\ call'[v].requested_at = call[v].requested_at /\ call'[v].row = call[v].row
         /\ \A v \in Workers : v # w => call'[v] = call[v]
         /\ \/ issued' = issued + 1 /\ call'[w].token = issued + 1
            \/ issued' = issued /\ call'[w].token = 0
         /\ UNCHANGED <<stored, cache, clock, overrun, lost>>
<1> USE DEF Typed, TypeOK, Calls
<1>1. CASE call' = [call EXCEPT ![w].token = issued + 1] /\ issued' = issued + 1
  BY <1>1 DEF Presents, Goto
<1>2. CASE call' = [call EXCEPT ![w].token = 0] /\ issued' = issued
  BY <1>2 DEF Presents, Goto
<1> QED  BY <1>1, <1>2 DEF Presents

LEMMA PreparesType ==
  ASSUME Typed, NEW w \in Workers, Prepares(w) \/ Waits(w) \/ Leaves(w)
  PROVE  Typed'
<1> USE DEF Typed, TypeOK, Goto, Steps, Inside, Holding, Committed, Calls, NoCall,
            Results, Missing, Credentials
<1>1. CASE Loads(w)
  <2>1. CASE Ends(w)
    BY <1>1, <2>1, EndsType DEF Loads, shared, history
  <2>2. CASE ~Ends(w)
    BY <1>1, <2>2 DEF Loads, shared, history
  <2> QED  BY <2>1, <2>2
<1>2. CASE Peeks(w)
  <2>1. CASE Published(w)
    BY <1>2, <2>1 DEF Peeks, Published, Adopts, shared, history
  <2>2. CASE ~Published(w)
    BY <1>2, <2>2 DEF Peeks, shared, history
  <2> QED  BY <2>1, <2>2
<1>3. CASE Locks(w)
  BY <1>3 DEF Locks, history
<1>4. CASE FindsResult(w)
  BY <1>4 DEF FindsResult, Adopts, shared, history
<1>5. CASE GivesUp(w)
  BY <1>5, EndsType DEF GivesUp, shared, history
<1>6. CASE Leaves(w)
  BY <1>6, EndsType DEF Leaves, shared, history
<1> QED  BY <1>1, <1>2, <1>3, <1>4, <1>5, <1>6 DEF Prepares, Waits

LEMMA ExchangesType ==
  ASSUME Typed, NEW w \in Workers, Exchanges(w)
  PROVE  Typed'
<1> USE DEF Typed, TypeOK, Goto, Steps, Inside, Holding, Committed, Calls, NoCall,
            Results, Missing, Credentials
<1>1. CASE Presents(w)
  <2>1. Host[w] \in Processes /\ call[w].row \in Credentials
    BY HostsAreProcesses
  <2>2. spent' \in SUBSET (Processes \X Credentials)
    BY <1>1, <2>1 DEF Presents
  <2>6. again' \in SUBSET (Processes \X Processes \X Credentials)
    <3>1. \A q \in Processes :
             <<Host[w], q, call[w].row>> \in Processes \X Processes \X Credentials
      BY <2>1
    <3>2. again' = again \cup {<<Host[w], q, call[w].row>> :
                                q \in {q \in Processes : <<q, call[w].row>> \in spent}}
      BY <1>1 DEF Presents
    <3>3. ASSUME NEW a \in again' PROVE a \in Processes \X Processes \X Credentials
      <4>1. CASE a \in again
        BY <4>1
      <4>2. CASE a \notin again
        <5>1. \E q \in Processes : a = <<Host[w], q, call[w].row>>
          BY <3>2, <3>3, <4>2
        <5> QED  BY <3>1, <5>1
      <4> QED  BY <4>1, <4>2
    <3> QED  BY <3>3
  <2>3. pc' = [pc EXCEPT ![w] = "answer"]
    BY <1>1 DEF Presents
  <2>4. issued' \in Credentials /\ call' \in [Workers -> Calls]
    <3>1. issued' \in Credentials
      BY <1>1 DEF Presents
    <3>2. PICK t \in {issued + 1, 0} : call' = [call EXCEPT ![w].token = t]
      BY <1>1, Zenon DEF Presents
    <3>4. t \in Nat
      OBVIOUS
    <3>3. call' \in [Workers -> Calls]
      BY <3>2, <3>4
    <3> QED  BY <3>1, <3>3
  <2>5. \A v \in Workers : pc'[v] \in Committed => call'[v].token # 0
    BY <1>1, <2>3 DEF Presents
  <2> QED  BY <1>1, <2>2, <2>3, <2>4, <2>5, <2>6 DEF Presents
<1>2. CASE NotSent(w)
  BY <1>2 DEF NotSent, shared, history
<1>3. CASE Refused(w)
  BY <1>3 DEF Refused, shared, history
<1>4. CASE LosesAnswer(w)
  BY <1>4 DEF LosesAnswer, shared
<1>5. CASE Commits(w)
  <2>1. pc' = [pc EXCEPT ![w] = "encode"] /\ call' = call /\ call[w].token # 0
    BY <1>5 DEF Commits
  <2>2. \A v \in Workers : pc'[v] \in Committed => call'[v].token # 0
    BY <2>1
  <2> QED  BY <1>5, <2>1, <2>2 DEF Commits, history
<1>6. CASE Encodes(w)
  BY <1>6 DEF Encodes, shared
<1>7. CASE Publishes(w)
  BY <1>7 DEF Publishes, history
<1>8. CASE Unlocks(w)
  BY <1>8, EndsType DEF Unlocks, history
<1> QED  BY <1>1, <1>2, <1>3, <1>4, <1>5, <1>6, <1>7, <1>8 DEF Exchanges

LEMMA OthersType ==
  ASSUME Typed,
         \/ \E w \in Workers : Begins(w)
         \/ \E p \in Mortal : Crashes(p)
         \/ LockExpires \/ CacheExpires \/ CredentialExpires \/ UNCHANGED vars
  PROVE  Typed'
<1> USE DEF Typed, TypeOK, Goto, Steps, Inside, Holding, Committed, Calls, NoCall,
            Results, Missing, Credentials
<1>1. ASSUME NEW w \in Workers, Begins(w) PROVE Typed'
  <2>1. PICK c \in Calls : call' = [call EXCEPT ![w] = c]
    BY <1>1, BeginsCall
  <2>3. call' \in [Workers -> Calls]
    BY <2>1
  <2>4. calls' \in 0..MaxCalls
    <3>1. calls < MaxCalls /\ calls' = calls + 1
      BY <1>1 DEF Begins
    <3> QED  BY <3>1, MaxCallsIsNat
  <2>5. pc' = [pc EXCEPT ![w] = "begun"]
    BY <1>1 DEF Begins
  <2>6. \A v \in Workers : pc'[v] \in Committed => call'[v].token # 0
    BY <2>1, <2>5
  <2> QED  BY <1>1, <2>3, <2>4, <2>5, <2>6 DEF Begins, shared
<1>2. ASSUME NEW p \in Mortal, Crashes(p) PROVE Typed'
  BY <1>2 DEF Crashes, shared
<1>3. CASE LockExpires
  BY <1>3 DEF LockExpires
<1>4. CASE CacheExpires
  BY <1>4 DEF CacheExpires, history
<1>5. CASE CredentialExpires
  BY <1>5 DEF CredentialExpires, history
<1>6. CASE UNCHANGED vars
  BY <1>6 DEF vars
<1> QED  BY <1>1, <1>2, <1>3, <1>4, <1>5, <1>6

-----------------------------------------------------------------------------
(* The locks.                                                              *)

LEMMA LocalMutexStep ==
  ASSUME Typed, LocalMutex, [Next]_vars
  PROVE  LocalMutex'
<1> SUFFICES \/ \A v \in Workers : pc'[v] \in Inside => pc[v] \in Inside
             \/ \E w \in Workers :
                    /\ LocalLockFree(w)
                    /\ \A v \in Workers : v # w => pc'[v] = pc[v]
  BY DEF LocalMutex, LocalLockFree
<1> USE DEF Typed, TypeOK, Goto, Ends, Inside, Holding
<1>1. ASSUME NEW w \in Workers, Loads(w)
      PROVE  LocalLockFree(w) /\ \A v \in Workers : v # w => pc'[v] = pc[v]
  BY <1>1 DEF Loads
<1>2. ASSUME NEW w \in Workers, Begins(w) \/ Peeks(w) \/ Locks(w) \/ Waits(w) \/ Leaves(w)
      PROVE  \A v \in Workers : pc'[v] \in Inside => pc[v] \in Inside
  BY <1>2 DEF Begins, Peeks, Locks, Waits, FindsResult, GivesUp, Leaves, Adopts
<1>3. ASSUME NEW w \in Workers, Exchanges(w)
      PROVE  \A v \in Workers : pc'[v] \in Inside => pc[v] \in Inside
  BY <1>3 DEF Exchanges, Presents, NotSent, Refused, LosesAnswer, Commits, Encodes,
              Publishes, Unlocks
<1>4. ASSUME NEW p \in Mortal, Crashes(p)
      PROVE  \A v \in Workers : pc'[v] \in Inside => pc[v] \in Inside
  BY <1>4 DEF Crashes
<1>5. CASE LockExpires \/ CacheExpires \/ CredentialExpires \/ UNCHANGED vars
  BY <1>5 DEF LockExpires, CacheExpires, CredentialExpires, vars
<1> QED  BY <1>1, <1>2, <1>3, <1>4, <1>5 DEF Next, Works, Prepares

LEMMA MutexStep ==
  ASSUME Typed, Mutex, [Next]_vars
  PROVE  Mutex'
<1> USE DEF Typed, TypeOK, Goto, Ends, Holding
<1>1. ASSUME NEW w \in Workers, Locks(w)
      PROVE  Mutex'
  <2>1. CASE locked
    BY <1>1, <2>1 DEF Locks, Mutex, history
  <2>2. CASE ~locked
    BY <1>1, <2>2 DEF Locks, Mutex, history
  <2> QED  BY <2>1, <2>2
<1>2. ASSUME NEW w \in Workers, Unlocks(w)
      PROVE  Mutex'
  BY <1>2 DEF Unlocks, Mutex, history
<1>3. CASE LockExpires
  BY <1>3 DEF LockExpires, Mutex
<1> SUFFICES ASSUME overrun' = overrun, locked' = locked,
                    \A v \in Workers : pc'[v] \in Holding => pc[v] \in Holding
             PROVE  Mutex'
  <2>1. ASSUME NEW w \in Workers, Begins(w) \/ Loads(w) \/ Peeks(w) \/ Waits(w) \/ Leaves(w)
        PROVE  /\ overrun' = overrun /\ locked' = locked
               /\ \A v \in Workers : pc'[v] \in Holding => pc[v] \in Holding
    BY <2>1 DEF Begins, Loads, Peeks, Waits, FindsResult, GivesUp, Leaves, Adopts,
                shared, history
  <2>2. ASSUME NEW w \in Workers, Exchanges(w), ~Unlocks(w)
        PROVE  /\ overrun' = overrun /\ locked' = locked
               /\ \A v \in Workers : pc'[v] \in Holding => pc[v] \in Holding
    BY <2>2 DEF Exchanges, Presents, NotSent, Refused, LosesAnswer, Commits, Encodes,
                Publishes, shared, history
  <2>3. ASSUME NEW p \in Mortal, Crashes(p)
        PROVE  /\ overrun' = overrun /\ locked' = locked
               /\ \A v \in Workers : pc'[v] \in Holding => pc[v] \in Holding
    BY <2>3 DEF Crashes, shared
  <2>4. CASE CacheExpires \/ CredentialExpires \/ UNCHANGED vars
    BY <2>4 DEF CacheExpires, CredentialExpires, vars, history
  <2> QED  BY <1>1, <1>2, <1>3, <2>1, <2>2, <2>3, <2>4 DEF Next, Works, Prepares
<1> QED  BY DEF Mutex

-----------------------------------------------------------------------------
(* The credentials.                                                        *)

\* No call deals with the provider or with the row, except to read it.
Quiet ==
    /\ UNCHANGED <<stored, issued, spent, again>>
    /\ lost => lost'
    /\ \A v \in Workers :
        /\ Bought(v)' <=> Bought(v)
        /\ Bought(v) => call'[v].token = call[v].token
                        /\ call'[v].row = call[v].row
        /\ \/ call'[v].row = call[v].row
           \/ call'[v].row = 1
           \/ call'[v].row = stored

LEMMA QuietSteps ==
  ASSUME Typed, [Next]_vars,
         \A w \in Workers : ~Presents(w) /\ ~Commits(w)
  PROVE  Quiet \/ lost'
<1> USE DEF Typed, TypeOK, Goto, Ends, Bought, Calls, Credentials
<1>1. ASSUME NEW w \in Workers, Begins(w)
      PROVE  Quiet
  <2>1. PICK c \in Calls : c.row = 1 /\ call' = [call EXCEPT ![w] = c]
    BY <1>1, BeginsCall
  <2>2. pc' = [pc EXCEPT ![w] = "begun"] /\ pc[w] = "idle"
        /\ UNCHANGED <<stored, issued, spent, again, lost>>
    BY <1>1 DEF Begins, shared
  <2> QED  BY <2>1, <2>2 DEF Quiet
<1>2. ASSUME NEW w \in Workers, Loads(w)
      PROVE  Quiet
  BY <1>2 DEF Quiet, Loads, shared, history, NoCall
<1>3. ASSUME NEW w \in Workers, Peeks(w) \/ Locks(w) \/ Waits(w) \/ Leaves(w)
      PROVE  Quiet
  BY <1>3 DEF Quiet, Peeks, Locks, Waits, FindsResult, GivesUp, Leaves, Adopts, shared,
              history, NoCall
<1>4. ASSUME NEW w \in Workers, NotSent(w) \/ Refused(w) \/ Encodes(w) \/ Publishes(w)
      PROVE  Quiet
  BY <1>4 DEF Quiet, NotSent, Refused, Encodes, Publishes, shared, history
<1>5. ASSUME NEW w \in Workers, Unlocks(w)
      PROVE  Quiet
  BY <1>5 DEF Quiet, Unlocks, history, NoCall
<1>6. ASSUME NEW w \in Workers, LosesAnswer(w)
      PROVE  lost'
  BY <1>6 DEF LosesAnswer
<1>7. ASSUME NEW p \in Mortal, Crashes(p)
      PROVE  Quiet \/ lost'
  BY <1>7 DEF Quiet, Crashes, shared, NoCall
<1>8. CASE LockExpires \/ CacheExpires \/ CredentialExpires \/ UNCHANGED vars
  BY <1>8 DEF Quiet, LockExpires, CacheExpires, CredentialExpires, vars, history
<1> QED  BY <1>1, <1>2, <1>3, <1>4, <1>5, <1>6, <1>7, <1>8
         DEF Next, Works, Prepares, Exchanges

LEMMA RotationStep ==
  ASSUME Typed, Rotation, [Next]_vars
  PROVE  Rotation'
<1> USE DEF Typed, TypeOK, Goto, Bought, Calls, Credentials
<1>1. ASSUME NEW w \in Workers, Presents(w), ~lost
      PROVE  Rotation'
  <2> DEFINE n == call[w].row
  <2>1. /\ pc[w] = "fetch" /\ pc' = [pc EXCEPT ![w] = "answer"]
        /\ UNCHANGED <<stored, lost>>
    BY <1>1 DEF Presents
  <2>2. n <= stored
    BY <1>1 DEF Rotation
  <2>a. \/ n = issued /\ issued' = issued + 1 /\ call' = [call EXCEPT ![w].token = issued + 1]
        \/ issued' = issued /\ call' = [call EXCEPT ![w].token = 0]
    BY <1>1 DEF Presents
  <2>3. CASE /\ n = issued /\ issued' = issued + 1
             /\ call' = [call EXCEPT ![w].token = issued + 1]
    <3>1. \A v \in Workers : ~Bought(v)
      BY <1>1, <2>2, <2>3 DEF Rotation
    <3>2. stored = issued
      BY <1>1, <3>1 DEF Rotation
    <3>3. \A v \in Workers : Bought(v)' <=> v = w
      BY <2>1, <2>3, <3>1
    <3>4. issued' = stored + 1 /\ call'[w].token = issued'
      BY <2>1, <2>3, <3>2
    <3>5. \A v \in Workers : call'[v].row = call[v].row
      BY <2>3
    <3> QED  BY <1>1, <2>1, <3>3, <3>4, <3>5 DEF Rotation
  <2>4. CASE issued' = issued /\ call' = [call EXCEPT ![w].token = 0]
    <3>1. \A v \in Workers : Bought(v)' <=> Bought(v)
      BY <2>1, <2>4
    <3>2. \A v \in Workers : call'[v].row = call[v].row
                             /\ (Bought(v) => call'[v].token = call[v].token)
      BY <2>1, <2>4
    <3> QED  BY <1>1, <2>1, <2>4, <3>1, <3>2 DEF Rotation
  <2> QED  BY <2>a, <2>3, <2>4
<1>2. ASSUME NEW w \in Workers, Commits(w), ~lost
      PROVE  Rotation'
  <2>1. /\ Bought(w) /\ stored' = call[w].token /\ pc' = [pc EXCEPT ![w] = "encode"]
        /\ UNCHANGED <<issued, call, lost>>
    BY <1>2 DEF Commits, history
  <2>2. call[w].token = issued /\ issued = stored + 1
        /\ \A v \in Workers : Bought(v) => v = w
    BY <1>2, <2>1 DEF Rotation
  <2>3. \A v \in Workers : ~Bought(v)'
    BY <2>1, <2>2
  <2> QED  BY <1>2, <2>1, <2>2, <2>3 DEF Rotation
<1>3. CASE \A w \in Workers : ~Presents(w) /\ ~Commits(w)
  <2>1. Quiet \/ lost'
    BY <1>3, QuietSteps
  <2> QED  BY <2>1 DEF Quiet, Rotation
<1>4. ASSUME NEW w \in Workers, Presents(w) \/ Commits(w)
      PROVE  lost' = lost
  BY <1>4 DEF Presents, Commits, history
<1> QED  BY <1>1, <1>2, <1>3, <1>4 DEF Rotation

LEMMA UnspentSteps ==
  ASSUME Typed, [Next]_vars, \A w \in Workers : ~Loads(w)
  PROVE  /\ overrun => overrun'
         /\ \A v \in Workers : pc'[v] \in Unspent =>
                pc[v] \in Unspent /\ call'[v].row = call[v].row
<1> USE DEF Typed, TypeOK, Goto, Ends, Unspent, Calls
<1> DEFINE Goal == /\ overrun => overrun'
                   /\ \A v \in Workers : pc'[v] \in Unspent =>
                        pc[v] \in Unspent /\ call'[v].row = call[v].row
<1>1. ASSUME NEW w \in Workers, Begins(w) PROVE Goal
  <2>1. PICK c \in Calls : call' = [call EXCEPT ![w] = c]
    BY <1>1, BeginsCall
  <2> QED  BY <1>1, <2>1 DEF Begins
<1>2. ASSUME NEW w \in Workers, Peeks(w) \/ Locks(w) \/ Waits(w) \/ Leaves(w) PROVE Goal
  BY <1>2 DEF Peeks, Locks, Waits, FindsResult, GivesUp, Leaves, Adopts, shared, history
<1>3. ASSUME NEW w \in Workers, Exchanges(w) PROVE Goal
  BY <1>3 DEF Exchanges, Presents, NotSent, Refused, LosesAnswer, Commits, Encodes,
              Publishes, Unlocks, shared, history
<1>4. ASSUME NEW p \in Mortal, Crashes(p) PROVE Goal
  BY <1>4 DEF Crashes
<1>5. CASE LockExpires \/ CacheExpires \/ CredentialExpires \/ UNCHANGED vars
  BY <1>5 DEF LockExpires, CacheExpires, CredentialExpires, vars, history
<1> QED  BY <1>1, <1>2, <1>3, <1>4, <1>5 DEF Next, Works, Prepares

LEMMA SpentStep ==
  ASSUME Typed, LocalMutex, Mutex, Rotation, Spent, [Next]_vars
  PROVE  Spent'
<1> USE DEF Typed, TypeOK, Goto, Calls, Credentials
<1>1. ASSUME NEW w \in Workers, Presents(w), ~overrun, ~lost
      PROVE  Spent'
  <2> DEFINE n == call[w].row
  <2>1. /\ pc[w] = "fetch" /\ pc' = [pc EXCEPT ![w] = "answer"]
        /\ again' = again \cup
              {<<Host[w], q, n>> : q \in {q \in Processes : <<q, n>> \in spent}}
        /\ \A v \in Workers : call'[v].row = call[v].row
        /\ UNCHANGED <<stored, lost, overrun>>
    BY <1>1 DEF Presents
  <2>2. ASSUME NEW a \in again' PROVE a[1] # a[2]
    <3>1. CASE a \in again
      BY <1>1, <3>1 DEF Spent
    <3>2. ASSUME NEW q \in Processes, <<q, n>> \in spent, a = <<Host[w], q, n>>
          PROVE  a[1] # a[2]
      <4>1. <<Host[w], n>> \notin spent
        BY <1>1, <2>1 DEF Spent, Unspent
      <4> QED  BY <3>2, <4>1
    <3> QED  BY <2>1, <3>1, <3>2
  <2>3. \A v \in Workers : ~Bought(v)
    BY <1>1, <2>1 DEF Mutex, Holding, Bought
  <2>4. spent' = spent \/ (spent' = spent \cup {<<Host[w], n>>} /\ call'[w].token # 0)
    BY <1>1 DEF Presents
  <2>5. ASSUME NEW v \in Workers, pc'[v] \in Unspent
        PROVE  <<Host[v], call'[v].row>> \notin spent'
    <3>1. v # w /\ pc[v] \in Unspent /\ call'[v].row = call[v].row
      BY <2>1, <2>5 DEF Unspent
    <3>2. <<Host[v], call[v].row>> \notin spent
      BY <1>1, <3>1 DEF Spent
    <3>3. Host[v] # Host[w]
      BY <2>1, <3>1 DEF LocalMutex, Inside, Holding, Unspent
    <3> QED  BY <2>4, <3>1, <3>2, <3>3
  <2>6. ASSUME NEW s \in spent'
        PROVE  s[2] < stored'
               \/ \E v \in Workers : Bought(v)' /\ s = <<Host[v], call'[v].row>>
    <3>1. CASE s \in spent
      BY <1>1, <2>1, <2>3, <3>1 DEF Spent
    <3>2. CASE s = <<Host[w], n>> /\ call'[w].token # 0
      <4>1. Bought(w)' /\ call'[w].row = n
        BY <2>1, <3>2 DEF Bought
      <4> QED  BY <3>2, <4>1
    <3> QED  BY <2>4, <3>1, <3>2
  <2> QED  BY <2>2, <2>5, <2>6 DEF Spent
<1>2. ASSUME NEW w \in Workers, Commits(w), ~overrun, ~lost
      PROVE  Spent'
  <2>1. /\ Bought(w) /\ stored' = call[w].token /\ pc' = [pc EXCEPT ![w] = "encode"]
        /\ UNCHANGED <<call, spent, again>>
    BY <1>2 DEF Commits, history, Bought
  <2>2. stored' = stored + 1 /\ call[w].row <= stored
        /\ \A v \in Workers : Bought(v) => v = w
    BY <1>2, <2>1 DEF Rotation
  <2>3. \A v \in Workers : pc'[v] \in Unspent => pc[v] \in Unspent
    BY <2>1 DEF Unspent
  <2>4. ASSUME NEW s \in spent PROVE s[2] < stored'
    <3>1. CASE s[2] < stored
      BY <2>2, <3>1
    <3>2. CASE s = <<Host[w], call[w].row>>
      BY <2>2, <3>2
    <3> QED  BY <1>2, <2>2, <3>1, <3>2 DEF Spent
  <2> QED  BY <1>2, <2>1, <2>3, <2>4 DEF Spent
<1>3. ASSUME NEW w \in Workers, Loads(w), ~overrun, ~lost
      PROVE  Spent'
  <2>1. <<Host[w], stored>> \notin spent
    <3>1. \A v \in Workers : Bought(v) => Host[v] # Host[w]
      BY <1>3 DEF Loads, LocalLockFree, Inside, Holding, Bought
    <3> QED  BY <1>3, <3>1 DEF Spent
  <2>2. /\ UNCHANGED <<stored, spent, again>>
        /\ \A v \in Workers : v # w => pc'[v] = pc[v] /\ call'[v] = call[v]
    BY <1>3 DEF Loads, Ends, shared, history
  <2>3. pc'[w] \in Unspent => call'[w].row = stored
    BY <1>3 DEF Loads, Ends, Unspent
  <2>4. ~Bought(w) /\ ~Bought(w)'
    BY <1>3 DEF Loads, Ends, Bought
  <2>5. \A v \in Workers : Bought(v)' <=> Bought(v)
    BY <2>2, <2>4 DEF Bought
  <2>6. \A v \in Workers : pc'[v] \in Unspent => <<Host[v], call'[v].row>> \notin spent
    BY <1>3, <2>1, <2>2, <2>3 DEF Spent
  <2>7. ASSUME NEW s \in spent
        PROVE  s[2] < stored
               \/ \E v \in Workers : Bought(v)' /\ s = <<Host[v], call'[v].row>>
    BY <1>3, <2>2, <2>4, <2>5 DEF Spent
  <2> QED  BY <1>3, <2>2, <2>6, <2>7 DEF Spent
<1>4. ASSUME \A w \in Workers : ~Presents(w) /\ ~Commits(w) /\ ~Loads(w), ~lost'
      PROVE  Spent'
  <2>1. Quiet
    BY <1>4, QuietSteps
  <2>2. /\ overrun => overrun'
        /\ \A v \in Workers : pc'[v] \in Unspent =>
                pc[v] \in Unspent /\ call'[v].row = call[v].row
    BY <1>4, UnspentSteps
  <2> QED  BY <2>1, <2>2 DEF Spent, Quiet
<1>5. ASSUME NEW w \in Workers, Presents(w) \/ Commits(w) \/ Loads(w)
      PROVE  lost' = lost /\ overrun' = overrun
  BY <1>5 DEF Presents, Commits, Loads, history
<1>6. lost' \/ overrun' => Spent'
  BY DEF Spent
<1> QED  BY <1>1, <1>2, <1>3, <1>4, <1>5, <1>6

-----------------------------------------------------------------------------
(* The order of the results.                                               *)

\* Nobody is at work on the row, the results or the provider.
Idles ==
    /\ UNCHANGED <<stored, issued, clock>>
    /\ overrun => overrun'
    /\ cache' \in {cache, Missing}
    /\ \A v \in Workers :
        \/ pc'[v] = pc[v] /\ call'[v] = call[v]
        \/ /\ pc'[v] \notin Committed \cup {"answer", "leave"}
           /\ call'[v] \in {call[v], NoCall}

LEMMA IdleSteps ==
  ASSUME Typed, [Next]_vars,
         \A w \in Workers : ~Begins(w) /\ ~Loads(w) /\ ~Peeks(w) /\ ~FindsResult(w)
                            /\ ~Presents(w) /\ ~Commits(w) /\ ~Encodes(w) /\ ~Publishes(w)
  PROVE  Idles
<1> USE DEF Typed, TypeOK, Goto, Ends, Committed, Idles
<1>1. ASSUME NEW w \in Workers, Locks(w) \/ GivesUp(w) \/ Leaves(w) PROVE Idles
  BY <1>1 DEF Locks, GivesUp, Leaves, shared, history
<1>2. ASSUME NEW w \in Workers, NotSent(w) \/ Refused(w) \/ LosesAnswer(w) \/ Unlocks(w)
      PROVE  Idles
  BY <1>2 DEF NotSent, Refused, LosesAnswer, Unlocks, shared, history
<1>3. ASSUME NEW p \in Mortal, Crashes(p) PROVE Idles
  BY <1>3 DEF Crashes, shared
<1>4. CASE LockExpires \/ CacheExpires \/ CredentialExpires \/ UNCHANGED vars
  BY <1>4 DEF LockExpires, CacheExpires, CredentialExpires, vars, history
<1> QED  BY <1>1, <1>2, <1>3, <1>4 DEF Next, Works, Prepares, Waits, Exchanges

LEMMA OrderStep ==
  ASSUME Typed, Mutex, Order, [Next]_vars
  PROVE  Order'
<1> SUFFICES ASSUME ~overrun'
             PROVE  Order'
  BY DEF Order
<1> USE DEF Typed, TypeOK, Goto, Calls, Credentials, Bought, Committed
<1>1. ASSUME NEW w \in Workers, Begins(w) PROVE Order'
  <2>1. PICK n \in {0, stored}, c \in Calls :
            c.refused = n /\ call' = [call EXCEPT ![w] = c]
    BY <1>1, BeginsCall
  <2>2. pc' = [pc EXCEPT ![w] = "begun"]
        /\ UNCHANGED <<stored, issued, cache, clock, overrun>>
    BY <1>1 DEF Begins, shared
  <2> QED  BY <2>1, <2>2 DEF Order
<1>2. ASSUME NEW w \in Workers, Loads(w) PROVE Order'
  BY <1>2 DEF Order, Loads, Ends, NoCall, shared, history
<1>3. ASSUME NEW w \in Workers, Peeks(w) \/ FindsResult(w) PROVE Order'
  BY <1>3 DEF Order, Peeks, FindsResult, Adopts, shared, history
<1>4. ASSUME NEW w \in Workers, Presents(w) PROVE Order'
  <2>1. /\ pc' = [pc EXCEPT ![w] = "answer"]
        /\ \A v \in Workers : call'[v].refused = call[v].refused
        /\ \A v \in Workers : v # w => call'[v] = call[v]
        /\ \/ issued' = issued + 1 /\ call'[w].token = issued + 1
           \/ issued' = issued /\ call'[w].token = 0
        /\ UNCHANGED <<stored, cache, clock, overrun>>
    BY <1>4, PresentsCall
  <2> QED  BY <2>1 DEF Order
<1>5. ASSUME NEW w \in Workers, Commits(w) PROVE Order'
  <2>1. /\ pc[w] = "answer" /\ Bought(w) /\ stored' = call[w].token
        /\ pc' = [pc EXCEPT ![w] = "encode"]
        /\ UNCHANGED <<issued, call, cache, clock, overrun>>
    BY <1>5 DEF Commits, history
  <2>2. \A v \in Workers : pc[v] \in Holding => v = w
    BY <2>1 DEF Mutex, Holding
  <2>3. stored < stored' /\ stored' <= issued
    BY <2>1 DEF Order
  <2>4. \A v \in Workers : ~Bought(v)' /\ (pc'[v] \in Committed => v = w)
    BY <2>1, <2>2 DEF Holding
  <2>5. \A v \in Workers : pc'[v] # "publish"
    BY <2>1, <2>2 DEF Holding
  <2>6. \A v \in Workers : call[v].refused <= stored'
    BY <2>1, <2>3 DEF Order
  <2> QED  BY <2>1, <2>3, <2>4, <2>5, <2>6 DEF Order
<1>6. ASSUME NEW w \in Workers, Encodes(w) PROVE Order'
  <2>1. /\ pc' = [pc EXCEPT ![w] = "publish"] /\ pc[w] = "encode" /\ clock' = clock + 1
        /\ UNCHANGED <<stored, issued, cache, overrun>>
    BY <1>6 DEF Encodes, shared
  <2>2. /\ call'[w].refreshed_at = clock + 1
        /\ \A v \in Workers : v # w => call'[v] = call[v]
        /\ \A v \in Workers : call'[v].token = call[v].token
                              /\ call'[v].refused = call[v].refused
    BY <1>6 DEF Encodes
  <2>3. \A v \in Workers : pc'[v] = "publish" => call'[v].refreshed_at <= clock'
    BY <2>1, <2>2 DEF Order
  <2>4. cache.refreshed_at <= clock'
    BY <2>1 DEF Order, Results, Missing
  <2>5. \A v \in Workers : pc'[v] \in Committed => pc[v] \in Committed
    BY <2>1
  <2>6. \A v \in Workers : Bought(v)' => Bought(v)
    BY <2>1, <2>2
  <2> QED  BY <2>1, <2>2, <2>3, <2>4, <2>5, <2>6 DEF Order
<1>7. ASSUME NEW w \in Workers, Publishes(w) PROVE Order'
  BY <1>7 DEF Order, Publishes, history
<1>8. CASE Idles
  BY <1>8 DEF Order, Idles, NoCall, Missing
<1> QED  BY <1>1, <1>2, <1>3, <1>4, <1>5, <1>6, <1>7, <1>8, IdleSteps

LEMMA NewerStep ==
  ASSUME Typed, Typed', Order, Newer, [Next]_vars
  PROVE  Newer'
<1> SUFFICES ASSUME ~overrun'
             PROVE  Newer'
  BY DEF Newer
<1> USE DEF Typed, TypeOK, Goto, Calls, Credentials, Bought, Committed, Coming
<1>1. ASSUME NEW w \in Workers, Begins(w) PROVE Newer'
  <2>1. PICK n \in {0, stored}, seen \in BOOLEAN, c \in Calls :
            /\ seen <=> \E v \in Workers : pc[v] = "encode" /\ call[v].token = n
            /\ c.refused = n /\ c.requested_at = clock /\ c.window = seen
            /\ call' = [call EXCEPT ![w] = c]
    BY <1>1, BeginsCall
  <2>2. pc' = [pc EXCEPT ![w] = "begun"]
        /\ UNCHANGED <<stored, issued, cache, clock, overrun>>
    BY <1>1 DEF Begins, shared
  <2>3. ~seen => \A v \in Workers : v # w /\ Coming(v, w)' => call[v].token > n
    BY <2>1, <2>2 DEF Order
  <2>4. cache.refreshed_at <= clock
    BY <2>2 DEF Order
  <2>5. ASSUME NEW u \in Workers, ~call'[u].window
        PROVE  /\ cache.refreshed_at > call'[u].requested_at
                    => cache.token > call'[u].refused
               /\ \A v \in Workers : Coming(v, u)' => call'[v].token > call'[u].refused
               /\ pc'[u] = "leave" => call'[u].token > call'[u].refused
    <3>1. CASE u = w
      <4>1. call'[u] = c /\ pc'[u] = "begun" /\ ~seen
        BY <2>1, <2>2, <2>5, <3>1
      <4>2. ~(cache.refreshed_at > c.requested_at)
        BY <2>1, <2>4 DEF Results, Missing
      <4>3. \A v \in Workers : Coming(v, u)' => v # w /\ call'[v] = call[v]
        BY <2>1, <2>2
      <4> QED  BY <2>1, <2>3, <3>1, <4>1, <4>2, <4>3
    <3>2. CASE u # w
      <4>1. call'[u] = call[u] /\ pc'[u] = pc[u]
        BY <2>1, <2>2, <3>2
      <4>2. \A v \in Workers : Coming(v, u)' => call'[v] = call[v] /\ Coming(v, u)
        BY <2>1, <2>2, <4>1
      <4> QED  BY <2>2, <2>5, <4>1, <4>2 DEF Newer
    <3> QED  BY <3>1, <3>2
  <2> QED  BY <2>2, <2>5 DEF Newer
<1>2. ASSUME NEW w \in Workers, Loads(w) PROVE Newer'
  <2>1. pc'[w] \in {"idle", "peek", "lock"} /\ UNCHANGED <<stored, issued, cache, clock, overrun>>
    BY <1>2 DEF Loads, Ends, shared, history
  <2>2. \A v \in Workers : v # w => call'[v] = call[v] /\ pc'[v] = pc[v]
    BY <1>2 DEF Loads, Ends
  <2>3. \/ call'[w] = NoCall
        \/ /\ call'[w].refused = call[w].refused /\ call'[w].window = call[w].window
           /\ call'[w].requested_at = call[w].requested_at
    BY <1>2 DEF Loads, Ends
  <2>4. \A v \in Workers : pc'[v] \in {"answer"} \cup Committed => v # w /\ pc[v] = pc'[v]
    BY <2>1, <2>2
  <2>5. ASSUME NEW u \in Workers, ~call'[u].window
        PROVE  /\ cache.refreshed_at > call'[u].requested_at
                    => cache.token > call'[u].refused
               /\ \A v \in Workers : Coming(v, u)' => call'[v].token > call'[u].refused
               /\ pc'[u] = "leave" => call'[u].token > call'[u].refused
    <3>1. CASE u = w /\ call'[w] = NoCall
      <4>1. cache.refreshed_at > 0 => cache.token > 0
        BY <2>1 DEF Results, Missing
      <4>2. \A v \in Workers : Coming(v, u)' => call[v].token > 0 /\ call'[v] = call[v]
        BY <2>2, <2>4
      <4> QED  BY <2>1, <3>1, <4>1, <4>2 DEF NoCall
    <3>2. CASE ~(u = w /\ call'[w] = NoCall)
      <4>1. /\ call'[u].refused = call[u].refused /\ call'[u].window = call[u].window
            /\ call'[u].requested_at = call[u].requested_at
        BY <2>2, <2>3, <3>2
      <4>2. \A v \in Workers : Coming(v, u)' => call'[v] = call[v] /\ Coming(v, u)
        BY <2>2, <2>4, <4>1
      <4>3. pc'[u] = "leave" => u # w
        BY <2>1
      <4> QED  BY <2>1, <2>2, <2>5, <4>1, <4>2, <4>3 DEF Newer
    <3> QED  BY <3>1, <3>2
  <2> QED  BY <2>1, <2>5 DEF Newer
<1>3. ASSUME NEW w \in Workers, Peeks(w) \/ FindsResult(w) PROVE Newer'
  <2>1. UNCHANGED <<stored, issued, cache, clock, overrun>>
        /\ \A v \in Workers : v # w => call'[v] = call[v] /\ pc'[v] = pc[v]
    BY <1>3 DEF Peeks, FindsResult, Adopts, shared, history
  <2>2. /\ call'[w].refused = call[w].refused /\ call'[w].window = call[w].window
        /\ call'[w].requested_at = call[w].requested_at
        /\ pc'[w] \in {"leave", "lock"}
    BY <1>3 DEF Peeks, FindsResult, Adopts, shared, history
  <2>3. pc'[w] = "leave" =>
            cache.refreshed_at > call[w].requested_at /\ call'[w].token = cache.token
    BY <1>3 DEF Peeks, FindsResult, Adopts, Published
  <2>4. \A v, u \in Workers : Coming(v, u)' => v # w /\ Coming(v, u)
    BY <2>1, <2>2
  <2> HIDE DEF Coming
  <2> QED  BY <2>1, <2>2, <2>3, <2>4 DEF Newer
<1>4. ASSUME NEW w \in Workers, Presents(w) PROVE Newer'
  <2>1. /\ pc' = [pc EXCEPT ![w] = "answer"]
        /\ \A v \in Workers :
            /\ call'[v].refused = call[v].refused /\ call'[v].window = call[v].window
            /\ call'[v].requested_at = call[v].requested_at
        /\ \A v \in Workers : v # w => call'[v] = call[v]
        /\ call'[w].token = 0 \/ call'[w].token = issued + 1
        /\ UNCHANGED <<stored, cache, clock, overrun>>
    BY <1>4, PresentsCall
  <2>2. \A v \in Workers : call[v].refused <= stored /\ stored <= issued
    BY <2>1 DEF Order
  <2> QED  BY <2>1, <2>2 DEF Newer
<1>5. ASSUME NEW w \in Workers, Commits(w) PROVE Newer'
  BY <1>5 DEF Newer, Commits, history
<1>6. ASSUME NEW w \in Workers, Encodes(w) PROVE Newer'
  BY <1>6 DEF Newer, Encodes, shared
<1>7. ASSUME NEW w \in Workers, Publishes(w) PROVE Newer'
  BY <1>7 DEF Newer, Publishes, history
<1>8. CASE Idles
  BY <1>8 DEF Newer, Idles, NoCall, Missing, Results
<1> QED  BY <1>1, <1>2, <1>3, <1>4, <1>5, <1>6, <1>7, <1>8, IdleSteps

-----------------------------------------------------------------------------
(* The theorems.                                                           *)

LEMMA InitInv == Init => IInv
<1> SUFFICES ASSUME Init PROVE IInv
  OBVIOUS
<1> USE DEF Init, NoCall
<1>1. Typed
  <2>1. NoCall \in Calls
    BY DEF Calls, Credentials
  <2>2. calls \in 0..MaxCalls
    BY MaxCallsIsNat
  <2> HIDE DEF NoCall
  <2>3. call \in [Workers -> Calls] /\ pc \in [Workers -> Steps]
    BY <2>1 DEF Steps
  <2>4. TypeOK
    <3>1. stored \in Credentials /\ issued \in Credentials /\ expired \in Nat /\ clock \in Nat
      BY DEF Credentials
    <3>2. cache \in Results \cup {Missing}
      OBVIOUS
    <3>3. /\ spent \in SUBSET (Processes \X Credentials)
          /\ again \in SUBSET (Processes \X Credentials)
      OBVIOUS
    <3>4. locked \in BOOLEAN /\ overrun \in BOOLEAN /\ lost \in BOOLEAN
      OBVIOUS
    <3> QED  BY <2>2, <2>3, <3>1, <3>2, <3>3, <3>4 DEF TypeOK
  <2>5. \A w \in Workers : pc[w] \notin Committed
    BY DEF Committed
  <2> QED  BY <2>4, <2>5 DEF Typed
<1>2. LocalMutex /\ Mutex /\ Rotation /\ Spent /\ Order /\ Newer
  BY DEF LocalMutex, Mutex, Rotation, Spent, Order, Newer, Coming, Bought, Committed,
         Unspent, Inside, Holding, Missing
<1> QED  BY <1>1, <1>2 DEF IInv

LEMMA NextInv == IInv /\ [Next]_vars => IInv'
<1> SUFFICES ASSUME IInv, [Next]_vars PROVE IInv'
  OBVIOUS
<1> USE DEF IInv
<1>1. Typed'
  BY PreparesType, ExchangesType, OthersType DEF Next, Works
<1> QED  BY <1>1, LocalMutexStep, MutexStep, RotationStep, SpentStep, OrderStep, NewerStep

LEMMA Invariance == Spec => []IInv
<1>1. IInv /\ [Next]_vars => IInv'
  BY NextInv
<1> QED  BY <1>1, InitInv, PTL DEF Spec

\* The state is of the right shape.
THEOREM TypeCorrect == Spec => []TypeOK
<1>1. IInv => TypeOK
  BY DEF IInv, Typed
<1> QED  BY <1>1, Invariance, PTL

\* The lock in Redis lets one call at a time exchange the refresh token until it
\* expires under its holder (SET NX and the delete in the finally block).
THEOREM OnlyOneRefresher == Spec => []OneRefresher
<1>1. IInv => OneRefresher
  BY DEF IInv, Mutex, OneRefresher
<1> QED  BY <1>1, Invariance, PTL

\* No commit puts an older credential over a newer one: the last credential of the
\* provider is in the row or with the one call that commits it next.
THEOREM NothingIsLost == Spec => []NothingLost
<1>1. IInv => NothingLost
  BY DEF IInv, Rotation, Bought, NothingLost
<1> QED  BY <1>1, Invariance, PTL

\* The second read of the row, under the lock of the process, keeps the calls of one
\* process from showing a refresh token that has bought it a credential, whatever
\* errors the provider answers with.
THEOREM ShownOncePerProcess == Spec => []OncePerProcess
<1>1. IInv => OncePerProcess
  BY DEF IInv, Spent, OncePerProcess
<1> QED  BY <1>1, Invariance, PTL

\* A forced refresh returns a credential newer than the refused one, whoever
\* exchanged it and whenever its result was found (min_refreshed_at).
THEOREM ForcedIsFresh == Spec => []FreshCredential
<1>1. IInv => FreshCredential
  BY DEF IInv, Newer, FreshCredential
<1> QED  BY <1>1, Invariance, PTL
=============================================================================
