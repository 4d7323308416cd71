----------------------------- MODULE OAuthToken ------------------------------
(***************************************************************************)
(* The access token of one OAuth endpoint: _resolve_oauth_access_token     *)
(* (api/v1/route_proxy_helpers.py), called by the requests of any number   *)
(* of processes.  The token is cached in Redis; who finds none there takes *)
(* a lock in Redis and asks the provider, or waits for the one who has it. *)
(* The lock has no owner: it expires, and its holder deletes whatever lock *)
(* there is by then.                                                       *)
(*                                                                         *)
(* Tokens are numbered in the order the provider issues them; 0 is none.   *)
(* A cached token that is about to expire is not used, so it counts as     *)
(* none from then on.                                                      *)
(***************************************************************************)
EXTENDS Naturals

CONSTANTS
    Workers,        \* requests that run at the same time
    MaxCalls        \* bound: calls begun

ASSUME MaxCallsIsNat == MaxCalls \in Nat

VARIABLES
    cache,          \* oauth:endpoint:{id}:token, 0 if there is no usable one
    locked,         \* oauth:endpoint:{id}:lock exists
    issued,         \* the last token of the provider
    pc,
    call,           \* what the last call of a worker knows
    calls,
    \* ---- history
    retired,        \* tokens up to this one were refused and have been replaced
    overrun         \* a lock has expired, or was lost, under its holder

vars == <<cache, locked, issued, pc, call, calls, retired, overrun>>

Holding == {"recheck", "fetch", "write", "unlock"}
Working == {"lock", "wait", "relock"} \cup Holding

\* refused: the token of a 401, for a forced refresh, or 0.  token: what the call
\* has or returns; 0 for an error.  floor: what was retired when it began.
NoCall == [refused |-> 0, token |-> 0, floor |-> 0]

Init ==
    /\ cache = 0 /\ locked = FALSE /\ issued = 0
    /\ pc = [w \in Workers |-> "done"]
    /\ call = [w \in Workers |-> NoCall]
    /\ calls = 0 /\ retired = 0 /\ overrun = FALSE

Goto(w, step) == pc' = [pc EXCEPT ![w] = step]
Has(w, token) == call' = [call EXCEPT ![w].token = token]

-----------------------------------------------------------------------------
\* A 401 of the upstream refuses the token that this request was given.
Begins(w) ==
    /\ pc[w] = "done" /\ calls < MaxCalls
    /\ calls' = calls + 1
    /\ \E refused \in {0, call[w].token} :
        LET found == IF refused = 0 THEN cache ELSE 0 IN
        /\ call' = [call EXCEPT ![w] =
                        [refused |-> refused, token |-> found, floor |-> retired]]
        /\ Goto(w, IF found # 0 THEN "done" ELSE "lock")
    /\ UNCHANGED <<cache, locked, issued, retired, overrun>>

\* Mutant: the answer of SET NX is not looked at.
TakesLockAnyway(w, otherwise) ==
    /\ locked' = TRUE
    /\ Goto(w, IF call[w].refused = 0 THEN "recheck" ELSE "fetch")

\* SET NX EX; a forced refresh does not look at the cache again.
TakesLock(w, otherwise) ==
    /\ locked' = TRUE
    /\ Goto(w, IF locked THEN otherwise
               ELSE IF call[w].refused = 0 THEN "recheck" ELSE "fetch")

Locks(w) ==
    /\ pc[w] = "lock"
    /\ TakesLock(w, "wait")
    /\ UNCHANGED <<cache, issued, call, calls, retired, overrun>>

\* A round of _wait_for_oauth_token takes whatever is cached, for a forced refresh
\* possibly the token it was called to replace.
FindsToken(w) ==
    /\ pc[w] = "wait" /\ cache # 0
    /\ Has(w, cache) /\ Goto(w, "done")
    /\ UNCHANGED <<cache, locked, issued, calls, retired, overrun>>

RoundsEnd(w) ==
    /\ pc[w] = "wait" /\ cache = 0
    /\ Goto(w, "relock")
    /\ UNCHANGED <<cache, locked, issued, call, calls, retired, overrun>>

\* The last try; without the lock it is "OAuth token refresh lock timeout".
Relocks(w) ==
    /\ pc[w] = "relock"
    /\ TakesLock(w, "done")
    /\ UNCHANGED <<cache, issued, call, calls, retired, overrun>>

Rechecks(w) ==
    /\ pc[w] = "recheck"
    /\ Has(w, cache) /\ Goto(w, IF cache # 0 THEN "unlock" ELSE "fetch")
    /\ UNCHANGED <<cache, locked, issued, calls, retired, overrun>>

Fetches(w) ==
    /\ pc[w] = "fetch"
    /\ issued' = issued + 1
    /\ Has(w, issued + 1) /\ Goto(w, "write")
    /\ UNCHANGED <<cache, locked, calls, retired, overrun>>

\* No answer, an error status or a body without a token.
FetchFails(w) ==
    /\ pc[w] = "fetch"
    /\ Goto(w, "unlock")
    /\ UNCHANGED <<cache, locked, issued, call, calls, retired, overrun>>

\* Mutant: the new token is not written over one that is there.
WritesOnce(w) ==
    /\ pc[w] = "write"
    /\ cache' = IF cache = 0 THEN call[w].token ELSE cache
    /\ Goto(w, "unlock")
    /\ UNCHANGED <<locked, issued, call, calls, retired, overrun>>

Writes(w) ==
    /\ pc[w] = "write"
    /\ cache' = call[w].token
    /\ Goto(w, "unlock")
    /\ UNCHANGED <<locked, issued, call, calls, retired, overrun>>

\* The finally block deletes the lock, whoever has it by now.
Unlocks(w) ==
    /\ pc[w] = "unlock"
    /\ locked' = FALSE
    /\ Goto(w, "done")
    /\ retired' = IF call[w].token # 0 /\ call[w].refused > retired
                  THEN call[w].refused ELSE retired
    /\ UNCHANGED <<cache, issued, call, calls, overrun>>

\* A Redis command raises: the finally block is still run where there is one.
RedisFails(w) ==
    /\ pc[w] \in {"lock", "wait", "relock", "recheck", "write", "unlock"}
    /\ Has(w, 0)
    /\ Goto(w, IF pc[w] \in {"recheck", "write"} THEN "unlock" ELSE "done")
    /\ UNCHANGED <<cache, locked, issued, calls, retired, overrun>>

\* The process goes away and leaves its lock.
Dies(w) ==
    /\ pc[w] \in Working
    /\ Has(w, 0) /\ Goto(w, "done")
    /\ UNCHANGED <<cache, locked, issued, calls, retired, overrun>>

\* Time, or the eviction of a key by MemoryRedis at its limit.
LockExpires ==
    /\ locked
    /\ locked' = FALSE
    /\ overrun' = (overrun \/ \E w \in Workers : pc[w] \in Holding)
    /\ UNCHANGED <<cache, issued, pc, call, calls, retired>>

CacheExpires ==
    /\ cache # 0
    /\ cache' = 0
    /\ UNCHANGED <<locked, issued, pc, call, calls, retired, overrun>>

Works(w) ==
    \/ Locks(w) \/ FindsToken(w) \/ RoundsEnd(w) \/ Relocks(w)
    \/ Rechecks(w) \/ Fetches(w) \/ FetchFails(w) \/ Writes(w) \/ Unlocks(w)

Next ==
    \/ \E w \in Workers : Begins(w) \/ Works(w) \/ RedisFails(w) \/ Dies(w)
    \/ LockExpires \/ CacheExpires

Spec == Init /\ [][Next]_vars

-----------------------------------------------------------------------------
(* Properties.                                                             *)

\* The state is of the right shape; no more than issued tokens are about, and only
\* a token is ever written.
TypeOK ==
    /\ cache \in 0..issued /\ issued \in Nat /\ retired \in 0..issued
    /\ calls \in 0..MaxCalls
    /\ locked \in BOOLEAN /\ overrun \in BOOLEAN
    /\ pc \in [Workers -> Working \cup {"done"}]
    /\ call \in [Workers -> [refused : 0..issued, token : 0..issued, floor : 0..retired]]
    /\ \A w \in Workers : pc[w] = "write" => call[w].token # 0

\* At most one call is between the lock and its release, as long as no lock is lost
\* under its holder: the second try of a waiter, the errors on the way and the
\* unconditional delete do not let another one in.
OneFetcher ==
    ~overrun => \A v, w \in Workers :
                    pc[v] \in Holding /\ pc[w] \in Holding => v = w

\* A call that was not forced asks the provider only when there is no usable token,
\* however long it has waited for the lock.
NoNeedlessFetch ==
    ~overrun => \A w \in Workers :
                    pc[w] = "fetch" /\ call[w].refused = 0 => cache = 0

\* Once a forced refresh has replaced a refused token, no call that begins later is
\* given it again, or an older one.  Calls that were waiting by then may be.
RetiredIsGone ==
    ~overrun => \A w \in Workers :
                    pc[w] = "done" /\ call[w].token # 0 => call[w].token > call[w].floor
=============================================================================
