---------------------------- MODULE CodexRefresh ----------------------------
(***************************************************************************)
(* The refresh of one Codex credential: resolve_codex_credential           *)
(* (services/codex_oauth.py), called by the coroutines of several          *)
(* processes that share the database and Redis.  The call takes a lock of  *)
(* its process, loads the row, takes a lock in Redis or waits for the      *)
(* result of the one that has it, exchanges the refresh token at the       *)
(* provider, commits the new credential and publishes it in Redis.         *)
(*                                                                         *)
(* Credentials are numbered in the order the provider issues them; number  *)
(* 1 was imported.  The provider rotates refresh tokens: it sells a new    *)
(* credential only for the last one it issued, and may fail to do so.  The *)
(* clocks of the processes agree.                                          *)
(***************************************************************************)
EXTENDS Naturals

CONSTANTS
    Workers,        \* coroutines that use the key
    Processes,
    Host,           \* Host[w]: the process of w
    Mortal,         \* the processes that may die
    MaxCalls        \* bound: calls that go past the first check

ASSUME HostsAreProcesses == Host \in [Workers -> Processes] /\ Mortal \subseteq Processes
ASSUME MaxCallsIsNat == MaxCalls \in Nat

Credentials == Nat \ {0}

VARIABLES
    stored,         \* the credential in the row of the API key
    expired,        \* the credentials up to this one are about to expire
    locked,         \* codex:oauth:refresh-lock:{id} exists
    cache,          \* codex:oauth:refresh-result:{id}
    issued,         \* the last credential of the provider
    pc,
    call,           \* what the call in progress of a worker knows
    \* ---- time and history
    clock,          \* results encoded so far: orders refreshed_at and requested_at
    calls,          \* calls begun
    spent,          \* <<p, n>>: p has bought a credential with refresh token n
    again,          \* <<p, q, n>>: p has shown token n after q had bought with it
    overrun,        \* a lock expired while its holder was at work
    lost            \* an answer of the provider was not committed

shared  == <<stored, expired, locked, cache, issued>>
history == <<clock, calls, spent, again, overrun, lost>>
vars    == <<stored, expired, locked, cache, issued, pc, call, clock, calls,
             spent, again, overrun, lost>>

Holding == {"fetch", "answer", "encode", "publish", "unlock"}
Inside  == {"peek", "lock", "wait", "leave"} \cup Holding     \* has the local lock
Steps   == {"idle", "begun"} \cup Inside

Results == [token : Credentials, refreshed_at : Nat]
Missing == [token |-> 0, refreshed_at |-> 0]

\* refused: the credential a 401 has refused, 0 if the call is not a forced refresh.
\* token: the provider's answer or what the call returns, 0 for an error.
\* window: refused was committed but not encoded when the call began.
Calls  == [refused : Nat, row : Credentials, token : Nat,
           requested_at : Nat, refreshed_at : Nat, window : BOOLEAN]
NoCall == [refused |-> 0, row |-> 1, token |-> 0, requested_at |-> 0,
           refreshed_at |-> 0, window |-> FALSE]

TypeOK ==
    /\ stored \in Credentials
    /\ expired \in Nat
    /\ locked \in BOOLEAN
    /\ cache \in Results \cup {Missing}
    /\ issued \in Credentials
    /\ pc \in [Workers -> Steps]
    /\ call \in [Workers -> Calls]
    /\ clock \in Nat
    /\ calls \in 0..MaxCalls
    /\ spent \in SUBSET (Processes \X Credentials)
    /\ again \in SUBSET (Processes \X Processes \X Credentials)
    /\ overrun \in BOOLEAN
    /\ lost \in BOOLEAN

Init ==
    /\ stored = 1
    /\ expired = 0
    /\ locked = FALSE
    /\ cache = Missing
    /\ issued = 1
    /\ pc = [w \in Workers |-> "idle"]
    /\ call = [w \in Workers |-> NoCall]
    /\ clock = 0
    /\ calls = 0
    /\ spent = {}
    /\ again = {}
    /\ overrun = FALSE
    /\ lost = FALSE

Goto(w, step) == pc' = [pc EXCEPT ![w] = step]

\* The call is over, and the local lock free.
Ends(w) == Goto(w, "idle") /\ call' = [call EXCEPT ![w] = NoCall]

\* The call has found a result of another one; its session is closed next.
Adopts(w) == Goto(w, "leave") /\ call' = [call EXCEPT ![w].token = cache.token]

-----------------------------------------------------------------------------
(* Before the exchange.                                                    *)

\* The credential the caller has is about to expire, or the upstream has refused it:
\* the one stored now, or an older one, which makes no difference to the call.
Begins(w) ==
    /\ pc[w] = "idle"
    /\ calls < MaxCalls
    /\ calls' = calls + 1
    /\ \E n \in {0, stored} :
        /\ n = 0 => expired > 0
        /\ call' = [call EXCEPT ![w] =
               [NoCall EXCEPT
                   !.refused = n,
                   !.requested_at = clock,
                   !.window = \E v \in Workers : pc[v] = "encode" /\ call[v].token = n]]
    /\ Goto(w, "begun")
    /\ UNCHANGED <<shared, clock, spent, again, overrun, lost>>

LocalLockFree(w) == \A v \in Workers : Host[v] = Host[w] => pc[v] \notin Inside

\* Mutant: the row the caller has brought is used.
LoadsCallersRow(w) ==
    /\ pc[w] = "begun"
    /\ LocalLockFree(w)
    /\ Goto(w, IF call[w].refused # 0 THEN "peek" ELSE "lock")
    /\ \E n \in 1..stored : call' = [call EXCEPT ![w].row = n]
    /\ UNCHANGED <<shared, history>>

\* Under asyncio.Lock of the process the row is read again: another call may have
\* renewed it by now.
Loads(w) ==
    /\ pc[w] = "begun"
    /\ LocalLockFree(w)
    /\ IF call[w].refused = 0 /\ stored > expired
       THEN Ends(w)
       ELSE /\ Goto(w, IF call[w].refused # 0 THEN "peek" ELSE "lock")
            /\ call' = [call EXCEPT ![w].row = stored]
    /\ UNCHANGED <<shared, history>>

\* Mutant: any result will do.
PublishedAtAll(w) == cache # Missing

\* _decode_refresh_result with min_refreshed_at: encoded after the call began.
Published(w) == cache # Missing /\ cache.refreshed_at > call[w].requested_at

Peeks(w) ==
    /\ pc[w] = "peek"
    /\ IF Published(w)
       THEN Adopts(w)
       ELSE Goto(w, "lock") /\ UNCHANGED call
    /\ UNCHANGED <<shared, history>>

\* Mutant: the answer of SET is ignored.
LocksAnyway(w) ==
    /\ pc[w] = "lock"
    /\ locked' = TRUE
    /\ Goto(w, "fetch")
    /\ UNCHANGED <<stored, expired, cache, issued, call, history>>

\* SET NX EX.
Locks(w) ==
    /\ pc[w] = "lock"
    /\ locked' = TRUE
    /\ Goto(w, IF locked THEN "wait" ELSE "fetch")
    /\ UNCHANGED <<stored, expired, cache, issued, call, history>>

\* _wait_for_refresh_result finds a result in one of its rounds.
FindsResult(w) ==
    /\ pc[w] = "wait"
    /\ Published(w)
    /\ Adopts(w)
    /\ UNCHANGED <<shared, history>>

\* Mutant: the rounds are not bounded.
NeverGivesUp(w) == FALSE

\* The rounds are over: "lock timeout".
GivesUp(w) ==
    /\ pc[w] = "wait"
    /\ ~Published(w)
    /\ Ends(w)
    /\ UNCHANGED <<shared, history>>

-----------------------------------------------------------------------------
(* The exchange, by the holder of the lock in Redis.                       *)

\* The provider takes the request.  It may sell a new credential for the last
\* refresh token; it answers any token with an error status, the last one too
\* (429, 5xx), and that one stays good.
Presents(w) ==
    LET n == call[w].row IN
    /\ pc[w] = "fetch"
    /\ again' = again \cup {<<Host[w], q, n>> : q \in {q \in Processes : <<q, n>> \in spent}}
    /\ \/ /\ n = issued
          /\ issued' = issued + 1
          /\ spent' = spent \cup {<<Host[w], n>>}
          /\ call' = [call EXCEPT ![w].token = issued + 1]
       \/ /\ call' = [call EXCEPT ![w].token = 0]
          /\ UNCHANGED <<issued, spent>>
    /\ Goto(w, "answer")
    /\ UNCHANGED <<stored, expired, locked, cache, clock, calls, overrun, lost>>

\* The request does not reach the provider.
NotSent(w) ==
    /\ pc[w] = "fetch"
    /\ Goto(w, "unlock")
    /\ UNCHANGED <<shared, call, history>>

\* An error status, for a used or a good token: the exception leaves the call.
Refused(w) ==
    /\ pc[w] = "answer"
    /\ call[w].token = 0
    /\ Goto(w, "unlock")
    /\ UNCHANGED <<shared, call, history>>

\* A timeout, an unusable answer, an error status although the token has been
\* taken, or a commit that fails.
LosesAnswer(w) ==
    /\ pc[w] = "answer"
    /\ call[w].token # 0
    /\ lost' = TRUE
    /\ Goto(w, "unlock")
    /\ UNCHANGED <<shared, call, clock, calls, spent, again, overrun>>

\* Mutant: the row is flushed only, and rolled back when the session closes.
FlushesOnly(w) ==
    /\ pc[w] = "answer"
    /\ call[w].token # 0
    /\ Goto(w, "encode")
    /\ UNCHANGED <<shared, call, history>>

Commits(w) ==
    /\ pc[w] = "answer"
    /\ call[w].token # 0
    /\ stored' = call[w].token
    /\ Goto(w, "encode")
    /\ UNCHANGED <<expired, locked, cache, issued, call, history>>

\* The coroutine goes on after the commit and notes the time.
Encodes(w) ==
    /\ pc[w] = "encode"
    /\ clock' = clock + 1
    /\ call' = [call EXCEPT ![w].refreshed_at = clock + 1]
    /\ Goto(w, "publish")
    /\ UNCHANGED <<shared, calls, spent, again, overrun, lost>>

Publishes(w) ==
    /\ pc[w] = "publish"
    /\ cache' = [token |-> call[w].token, refreshed_at |-> call[w].refreshed_at]
    /\ Goto(w, "unlock")
    /\ UNCHANGED <<stored, expired, locked, issued, call, history>>

\* The finally block deletes the lock, whoever has it by now.
Unlocks(w) ==
    /\ pc[w] = "unlock"
    /\ locked' = FALSE
    /\ Ends(w)
    /\ UNCHANGED <<stored, expired, cache, issued, history>>

\* A result that was found is returned.
Leaves(w) ==
    /\ pc[w] = "leave"
    /\ Ends(w)
    /\ UNCHANGED <<shared, history>>

-----------------------------------------------------------------------------
(* Time, and the death of a process.                                       *)

LockExpires ==
    /\ locked
    /\ locked' = FALSE
    /\ overrun' = (overrun \/ \E w \in Workers : pc[w] \in Holding)
    /\ UNCHANGED <<stored, expired, cache, issued, pc, call, clock, calls, spent, again, lost>>

CacheExpires ==
    /\ cache # Missing
    /\ cache' = Missing
    /\ UNCHANGED <<stored, expired, locked, issued, pc, call, history>>

CredentialExpires ==
    /\ expired < stored
    /\ expired' = stored
    /\ UNCHANGED <<stored, locked, cache, issued, pc, call, history>>

Crashes(p) ==
    LET dead == {w \in Workers : Host[w] = p /\ pc[w] # "idle"} IN
    /\ dead # {}
    /\ pc' = [w \in Workers |-> IF w \in dead THEN "idle" ELSE pc[w]]
    /\ call' = [w \in Workers |-> IF w \in dead THEN NoCall ELSE call[w]]
    /\ lost' = (lost \/ \E w \in dead : pc[w] = "answer" /\ call[w].token # 0)
    /\ UNCHANGED <<shared, clock, calls, spent, again, overrun>>

-----------------------------------------------------------------------------

Prepares(w)  == Loads(w) \/ Peeks(w) \/ Locks(w)
Waits(w)     == FindsResult(w) \/ GivesUp(w)
Exchanges(w) ==
    \/ Presents(w) \/ NotSent(w) \/ Refused(w) \/ LosesAnswer(w)
    \/ Commits(w) \/ Encodes(w) \/ Publishes(w) \/ Unlocks(w)
Works(w)     == Prepares(w) \/ Waits(w) \/ Exchanges(w) \/ Leaves(w)

Next ==
    \/ \E w \in Workers : Begins(w) \/ Works(w)
    \/ \E p \in Mortal : Crashes(p)
    \/ LockExpires \/ CacheExpires \/ CredentialExpires

Spec == Init /\ [][Next]_vars

(* Every await of a call has a timeout, and asyncio.Lock is first come, first *)
(* served.                                                                  *)
FairSpec == Spec /\ \A w \in Workers : WF_vars(Works(w))

-----------------------------------------------------------------------------
(* Properties.                                                             *)

\* At most one call, in all processes, is between the lock and its release, as long
\* as no lock expires under its holder: neither a waiter nor the unconditional
\* delete in the finally block lets a second one in.
OneRefresher ==
    ~overrun => \A v, w \in Workers :
                    pc[v] \in Holding /\ pc[w] \in Holding => v = w

\* A forced refresh never returns the credential that was just refused or an older
\* one.  The two exceptions: an expired lock, and a credential that was refused
\* before the call that committed it could note the time.
FreshCredential ==
    \A w \in Workers :
        pc[w] = "leave" /\ call[w].token # 0 /\ ~overrun /\ ~call[w].window
        => call[w].token > call[w].refused

\* No call of a process shows the provider a refresh token with which that process
\* has already bought a credential, whatever errors, deaths and forced refreshes
\* come between, unless the credential was lost or a lock expired: who comes second
\* reads the row again, under the lock of the process.  Between two processes, which
\* docs/codex-provider.md:42-43 speaks of as well, it is not so: the row is not read
\* again once the lock in Redis is taken.
OncePerProcess == ~overrun /\ ~lost => \A a \in again : a[1] # a[2]

\* The last credential of the provider is in the row, or in the hands of the one
\* call that is about to commit it, unless an answer was lost: no commit ever puts
\* an older one over it.
NothingLost ==
    \/ lost
    \/ stored = issued
    \/ \E w \in Workers : pc[w] = "answer" /\ call[w].token = issued

\* Every call ends, although it may wait for a lock whose holder has failed.
EveryResolveEnds == \A w \in Workers : []<>(pc[w] = "idle")
=============================================================================
