--------------------------- MODULE ProxyFailover ---------------------------
(***************************************************************************)
(* One client request in the proxy: _proxy_openai_request walks the        *)
(* candidates the router chose (route_modules/proxy_core.py), each one     *)
(* through handle_direct_candidate or handle_agent_candidate               *)
(* (proxy_direct_handler.py, proxy_agent_handler.py), and the response of  *)
(* the one that serves may be streamed by _stream_response                 *)
(* (route_proxy_helpers.py) or agent_stream_generator                      *)
(* (proxy_agent_streams.py).                                               *)
(*                                                                         *)
(* An HTTP status is the class the code puts it in:                        *)
(*   "busy"     429, 500, 502, 503, 504: retried on the same candidate     *)
(*   "denied"   401: an OAuth or Codex token is refreshed once             *)
(*   "refused"  402, 403                                                   *)
(*   "invalid"  400, 404: falls back, does not count against the key       *)
(*   "semantic" any other status, with an error in the body                *)
(*   "ok"       any other status                                           *)
(* Redis is taken to answer.  A client that hangs up cancels the task of a *)
(* response being streamed, at whatever it awaits; the walk itself is not  *)
(* cancelled by it.                                                        *)
(***************************************************************************)
EXTENDS Naturals, Sequences

CONSTANTS
    N,              \* candidates
    MaxAttempts     \* UPSTREAM_CANDIDATE_MAX_ATTEMPTS

ASSUME NIsPositive == N \in Nat \ {0}
ASSUME MaxAttemptsIsPositive == MaxAttempts \in Nat \ {0}

Candidates == 1..N

VARIABLES
    kind,       \* kind[c]: via an agent or not, and how the endpoint signs in
    stream,     \* the client asked for a stream
    at,         \* where the request's coroutine is
    cand, try,  \* the candidate, and attempt_index on it
    order,      \* attempt_order
    status,     \* class of the last upstream status
    reply,      \* what the client has been given
    sends,      \* requests handed to an upstream or an agent
    log,        \* record_attempt_log: the request_attempt_log rows
    verdicts,   \* record_failure and record_success on the circuit breaker
    sticky,     \* record_candidate_success: the sequential strategy's active key
    requestLogs \* write_request_log: request_log rows

vars == <<kind, stream, at, cand, try, order, status, reply, sends, log,
          verdicts, sticky, requestLogs>>
records == <<log, verdicts, sticky, requestLogs>>

Kinds    == [agent : BOOLEAN, auth : {"key", "oauth", "codex"}]
Statuses == {"busy", "denied", "refused", "invalid", "semantic", "ok"}
FallbackStatuses == {"busy", "denied", "refused", "invalid"}
BreakerStatuses  == {"busy", "denied", "refused"}
LocalRetryStatuses == {"busy"}

Phases   == {"prepare", "reserve", "send", "refresh", "resend", "classify",
             "stream", "blame", "credit", "stick", "done"}
Replies  == {"none", "ok", "stream", "upstream", "502", "429", "escaped"}
Outcomes == {"retry", "fallback", "error", "returned", "success", "cancelled"}
LogRows  == [order : Nat, cand : Candidates, outcome : Outcomes]
Verdicts == [order : Nat, cand : Candidates, good : BOOLEAN]

TypeOK ==
    /\ kind \in [Candidates -> Kinds]
    /\ stream \in BOOLEAN
    /\ at \in Phases
    /\ cand \in Candidates
    /\ try \in 0..(MaxAttempts - 1)
    /\ order \in Nat
    /\ status \in Statuses
    /\ reply \in Replies
    /\ sends \in Nat
    /\ log \in Seq(LogRows)
    /\ verdicts \in Seq(Verdicts)
    /\ sticky \in 0..N
    /\ requestLogs \in 0..1

Init ==
    /\ kind \in [Candidates -> Kinds]
    /\ stream \in BOOLEAN
    /\ at = "prepare"
    /\ cand = 1
    /\ try = 0
    /\ order = 0
    /\ status = "ok"
    /\ reply = "none"
    /\ sends = 0
    /\ log = <<>>
    /\ verdicts = <<>>
    /\ sticky = 0
    /\ requestLogs = 0

-----------------------------------------------------------------------------
(* The parts the handlers share.                                           *)

\* Codex bodies are forced to stream = True.
IsStream == stream \/ kind[cand].auth = "codex"
IsAgent  == kind[cand].agent

\* A row of the attempt log, a verdict for the breaker.  A verdict given before
\* the candidate's first attempt has no attempt number.
Row(n, outcome)  == [order |-> n, cand |-> cand, outcome |-> outcome]
Verdict(n, good) == [order |-> n, cand |-> cand, good |-> good]
Log(outcome)     == log' = Append(log, Row(order, outcome))
Blame            == verdicts' = Append(verdicts, Verdict(order, FALSE))
Credit           == /\ verdicts' = Append(verdicts, Verdict(order, TRUE))
                    /\ sticky' = cand

\* Mutant: the last candidate's error is taken for one with a successor.
FallBackOneEarly(error) ==
    IF cand + 1 < N
    THEN at' = "prepare" /\ cand' = cand + 1 /\ UNCHANGED <<try, reply>>
    ELSE at' = "done" /\ reply' = error /\ UNCHANGED <<cand, try>>

\* "if candidate != last_candidate: break", else the client gets the error.
FallBack(error) ==
    IF cand < N
    THEN at' = "prepare" /\ cand' = cand + 1 /\ UNCHANGED <<try, reply>>
    ELSE at' = "done" /\ reply' = error /\ UNCHANGED <<cand, try>>

\* Mutant: the attempt index counted from one.
CanRetryOnceMore == try < MaxAttempts

\* Another attempt on the same candidate is left.
CanRetry == try + 1 < MaxAttempts

Retry == at' = "reserve" /\ try' = try + 1 /\ UNCHANGED <<cand, reply>>

\* An exception no handler of the loop catches: the client gets a 500.
Escape == at' = "done" /\ reply' = "escaped" /\ UNCHANGED <<cand, try>>

Finish(answer) == at' = "done" /\ reply' = answer /\ UNCHANGED <<cand, try>>

-----------------------------------------------------------------------------
(* The walk over the candidates.                                           *)

\* prepare_candidate_request_context: signing in is what can go wrong.  A token is
\* refreshed through the endpoint's agent, if it has one; a deleted agent answers
\* with CancelledError, which passes "except Exception".
PrepareEscapes ==
    /\ at = "prepare"
    /\ IsAgent
    /\ kind[cand].auth # "key"
    /\ Escape
    /\ UNCHANGED <<kind, stream, order, status, sends, records>>

PrepareRaises ==
    /\ at = "prepare"
    /\ kind[cand].auth # "key"
    /\ verdicts' = Append(verdicts, Verdict(0, FALSE))
    /\ FallBack("502")
    /\ UNCHANGED <<kind, stream, order, status, sends, log, sticky, requestLogs>>

Prepared ==
    /\ at = "prepare"
    /\ at' = "reserve"
    /\ try' = 0
    /\ UNCHANGED <<kind, stream, cand, order, status, reply, sends, records>>

Reserved ==
    /\ at = "reserve"
    /\ order' = order + 1
    /\ at' = "send"
    /\ UNCHANGED <<kind, stream, cand, try, status, reply, sends, records>>

RateLimited ==
    /\ at = "reserve"
    /\ order' = order + 1
    /\ log' = Append(log, Row(order + 1, IF cand < N THEN "fallback" ELSE "error"))
    /\ FallBack("429")
    /\ UNCHANGED <<kind, stream, status, sends, verdicts, sticky, requestLogs>>

SendRaises ==
    /\ at = "send"
    /\ sends' = sends + 1
    /\ Log(IF CanRetry THEN "retry" ELSE IF cand < N THEN "fallback" ELSE "error")
    /\ Blame
    /\ IF CanRetry THEN Retry ELSE FallBack("502")
    /\ UNCHANGED <<kind, stream, order, status, sticky, requestLogs>>

\* send_request raises something else than AgentUnavailableError: the websocket's
\* own exception, or CancelledError when the agent is deleted.
SendEscapes ==
    /\ at = "send"
    /\ IsAgent
    /\ sends' = sends + 1
    /\ Escape
    /\ UNCHANGED <<kind, stream, order, status, records>>

SendReturns ==
    /\ at = "send"
    /\ sends' = sends + 1
    /\ \E s \in Statuses :
        /\ status' = s
        /\ at' = IF s = "denied" /\ kind[cand].auth # "key"
                 THEN "refresh" ELSE "classify"
    /\ UNCHANGED <<kind, stream, cand, try, order, reply, records>>

\* The agent's 401 body is read outside the try block (Codex only), and a refresh
\* through a deleted agent ends in CancelledError.
RefreshEscapes ==
    /\ at = "refresh"
    /\ IsAgent
    /\ Escape
    /\ UNCHANGED <<kind, stream, order, status, sends, records>>

RefreshRaises ==
    /\ at = "refresh"
    /\ Blame
    /\ FallBack("502")
    /\ UNCHANGED <<kind, stream, order, status, sends, log, sticky, requestLogs>>

Refreshed ==
    /\ at = "refresh"
    /\ at' = "resend"
    /\ UNCHANGED <<kind, stream, cand, try, order, status, reply, sends, records>>

\* Only the direct OAuth path retries the candidate; no path logs the attempt.
ResendRaises ==
    /\ at = "resend"
    /\ sends' = sends + 1
    /\ Blame
    /\ IF ~IsAgent /\ kind[cand].auth = "oauth" /\ CanRetry
       THEN Retry ELSE FallBack("502")
    /\ UNCHANGED <<kind, stream, order, status, log, sticky, requestLogs>>

\* CancelledError passes "except Exception".  A streamed request is not cancelled.
ResendEscapes ==
    /\ at = "resend"
    /\ IsAgent /\ ~IsStream
    /\ sends' = sends + 1
    /\ Escape
    /\ UNCHANGED <<kind, stream, order, status, records>>

Resent ==
    /\ at = "resend"
    /\ sends' = sends + 1
    /\ status' \in Statuses
    /\ at' = "classify"
    /\ UNCHANGED <<kind, stream, cand, try, order, reply, records>>

-----------------------------------------------------------------------------
(* What becomes of an upstream response.                                   *)

\* Mutant: the breaker is told before and after the body is read.
BlameStatusTwice ==
    IF status \in BreakerStatuses
    THEN verdicts' = verdicts \o <<Verdict(order, FALSE), Verdict(order, FALSE)>>
    ELSE UNCHANGED verdicts

BlameStatus ==
    IF status \in BreakerStatuses THEN Blame ELSE UNCHANGED verdicts

FailedStatus ==
    /\ at = "classify"
    /\ status \in FallbackStatuses
    /\ BlameStatus
    /\ IF status \in LocalRetryStatuses /\ CanRetry
       THEN Log("retry") /\ Retry
       ELSE /\ Log(IF cand < N THEN "fallback" ELSE "returned")
            /\ FallBack("upstream")
    /\ UNCHANGED <<kind, stream, order, status, sends, sticky, requestLogs>>

\* The body of a failed streamed response cannot be read: no handler catches it.
BodyEscapes ==
    /\ at = "classify"
    /\ status \in FallbackStatuses
    /\ IsStream
    /\ BlameStatus
    /\ Escape
    /\ UNCHANGED <<kind, stream, order, status, sends, log, sticky, requestLogs>>

\* semantic_failure_reason found an error in the body.
SemanticFailure ==
    /\ at = "classify"
    /\ status = "semantic"
    /\ ~IsStream
    /\ Blame
    /\ Log(IF cand < N THEN "fallback" ELSE "returned")
    /\ FallBack("upstream")
    /\ UNCHANGED <<kind, stream, order, status, sends, sticky, requestLogs>>

Succeeds ==
    /\ at = "classify"
    /\ status = "ok"
    /\ ~IsStream
    /\ Credit
    /\ Log("success")
    /\ requestLogs' = requestLogs + 1
    /\ Finish("ok")
    /\ UNCHANGED <<kind, stream, order, status, sends>>

\* Mutant: only a recognised body is streamed.
StreamOpensIfOk ==
    /\ at = "classify"
    /\ status = "ok"
    /\ IsStream
    /\ at' = "stream"
    /\ reply' = "stream"
    /\ UNCHANGED <<kind, stream, cand, try, order, status, sends, records>>

\* A streamed body is handed on as it comes.
StreamOpens ==
    /\ at = "classify"
    /\ status \notin FallbackStatuses
    /\ IsStream
    /\ at' = "stream"
    /\ reply' = "stream"
    /\ UNCHANGED <<kind, stream, cand, try, order, status, sends, records>>

-----------------------------------------------------------------------------
(* The generator behind a StreamingResponse.  Its finally block closes the  *)
(* response, writes the attempt row and then awaits the breaker and the     *)
(* sticky key; the request log comes last.                                  *)

\* The finally block, up to what it awaits of the breaker.
EndsAt(phase, outcome) ==
    /\ at = "stream"
    /\ at' = phase
    /\ Log(outcome)
    /\ UNCHANGED <<kind, stream, cand, try, order, status, reply, sends, verdicts, sticky>>

StreamCompletes == EndsAt("credit", "success") /\ UNCHANGED requestLogs

\* Mutant: a stream that failed falls back to the next candidate.
StreamFailsOver ==
    /\ at = "stream"
    /\ Log("error")
    /\ Blame
    /\ FallBack("upstream")
    /\ UNCHANGED <<kind, stream, order, status, sends, sticky, requestLogs>>

\* A failure event, an end without response.completed where that is required, or
\* an exception of the upstream.
StreamFails == EndsAt("blame", "error") /\ UNCHANGED requestLogs

\* client_disconnect: neither good nor bad for the key, and nothing to await.
ClientLeaves == EndsAt("done", "cancelled") /\ requestLogs' = requestLogs + 1

\* The client leaves after a failure event went by: the breaker is still told.
ClientLeavesFailedStream == EndsAt("blame", "cancelled") /\ UNCHANGED requestLogs

\* The client leaves before the generator has run at all, or while the response
\* of a direct candidate is being closed, before the row is written.
StreamUnrecorded ==
    /\ at = "stream"
    /\ at' = "done"
    /\ UNCHANGED <<kind, stream, cand, try, order, status, reply, sends, records>>

FinallyGoesTo(phase) ==
    /\ at' = phase
    /\ UNCHANGED <<kind, stream, cand, try, order, status, reply, sends, log>>

\* Mutant: the sticky key is set before the breaker is told.
SticksFirst ==
    /\ at = "credit"
    /\ FinallyGoesTo("stick")
    /\ sticky' = cand
    /\ UNCHANGED <<verdicts, requestLogs>>

\* record_success has returned.
StreamCredited ==
    /\ at = "credit"
    /\ FinallyGoesTo("stick")
    /\ verdicts' = Append(verdicts, Verdict(order, TRUE))
    /\ UNCHANGED <<sticky, requestLogs>>

\* record_candidate_success has returned.
StreamSticks ==
    /\ at = "stick"
    /\ FinallyGoesTo("done")
    /\ sticky' = cand
    /\ requestLogs' = requestLogs + 1
    /\ UNCHANGED verdicts

\* record_failure has returned.
StreamBlamed ==
    /\ at = "blame"
    /\ FinallyGoesTo("done")
    /\ Blame
    /\ requestLogs' = requestLogs + 1
    /\ UNCHANGED sticky

\* Mutant: the request log is written whatever happens to the finally block.
FinallyInterruptedLogs ==
    /\ at \in {"blame", "credit", "stick"}
    /\ FinallyGoesTo("done")
    /\ requestLogs' = requestLogs + 1
    /\ UNCHANGED <<verdicts, sticky>>

\* The client leaves while Redis is awaited: what was sent may have taken effect.
FinallyInterrupted ==
    /\ at \in {"blame", "credit", "stick"}
    /\ FinallyGoesTo("done")
    /\ \/ UNCHANGED <<verdicts, sticky>>
       \/ /\ at # "stick"
          /\ verdicts' = Append(verdicts, Verdict(order, at = "credit"))
          /\ UNCHANGED sticky
       \/ at = "stick" /\ sticky' = cand /\ UNCHANGED verdicts
    /\ UNCHANGED requestLogs

-----------------------------------------------------------------------------

Walk ==
    \/ PrepareEscapes \/ PrepareRaises \/ Prepared \/ Reserved \/ RateLimited
    \/ SendRaises \/ SendEscapes \/ SendReturns
    \/ RefreshEscapes \/ RefreshRaises \/ Refreshed
    \/ ResendRaises \/ ResendEscapes \/ Resent
    \/ FailedStatus \/ BodyEscapes \/ SemanticFailure \/ Succeeds

Generator ==
    \/ StreamCompletes \/ StreamFails \/ ClientLeaves
    \/ ClientLeavesFailedStream \/ StreamUnrecorded
    \/ StreamCredited \/ StreamSticks \/ StreamBlamed \/ FinallyInterrupted

Next == Walk \/ StreamOpens \/ Generator

Spec == Init /\ [][Next]_vars

(* Every wait of the walk is on an HTTP client, a lock or an agent, each of  *)
(* which has a timeout; a stream ends, goes idle or is given up.             *)
FairSpec == Spec /\ WF_vars(Next)

-----------------------------------------------------------------------------
(* Properties.                                                             *)

\* No attempt is logged or judged twice, and both happen in the order of the
\* attempts: retries, refreshes and streams close over the attempt they belong to.
Ascending(rows) ==
    \A i, j \in DOMAIN rows :
        i < j /\ rows[i].order # 0 /\ rows[j].order # 0 => rows[i].order < rows[j].order
EachAttemptOnce == Ascending(log) /\ Ascending(verdicts)

\* The attempt log and the circuit breaker tell the same story: only an attempt
\* logged as a success is a good one for the breaker, the breaker never holds it
\* against its key, and once the request log is written it has heard of it.  An
\* interrupted finally block may leave the row without its verdict, but then it
\* leaves no request log either.
LogAgreesWithBreaker ==
    /\ \A j \in DOMAIN verdicts : verdicts[j].good =>
          \E i \in DOMAIN log :
              log[i].outcome = "success" /\ log[i].order = verdicts[j].order
    /\ \A i \in DOMAIN log : log[i].outcome = "success" =>
          /\ \A j \in DOMAIN verdicts :
                verdicts[j].order = log[i].order => verdicts[j].good
          /\ requestLogs = 1 =>
                \E j \in DOMAIN verdicts : verdicts[j].order = log[i].order

\* A key is credited only by the response the client has got to its end, after
\* which the walk does not go on, and a key is made the sticky one only when it has
\* been credited; unless it was interrupted, a credited key is the sticky one.
SuccessIsServed ==
    /\ \A i \in DOMAIN verdicts : verdicts[i].good =>
          /\ i = Len(verdicts)
          /\ verdicts[i].cand = cand
          /\ at \in {"stick", "done"} /\ reply \in {"ok", "stream"}
          /\ requestLogs = 1 => sticky = cand
    /\ sticky # 0 =>
          \E i \in DOMAIN verdicts : verdicts[i].good /\ verdicts[i].cand = sticky

\* A client is told of a failure only when every candidate has been tried: each
\* has a row in the attempt log or a verdict at the breaker, none of them good.
FailureMeansAllTried ==
    reply \in {"502", "429", "upstream"} =>
        \A c \in Candidates :
            /\ \/ \E i \in DOMAIN log : log[i].cand = c
               \/ \E i \in DOMAIN verdicts : verdicts[i].cand = c
            /\ \A i \in DOMAIN verdicts : verdicts[i].cand = c => ~verdicts[i].good

\* The retries and the refreshes are bounded, whatever mix of errors comes.
BoundedWork ==
    /\ order <= (cand - 1) * MaxAttempts + try + 1
    /\ sends <= 2 * order

\* Once the client has been given anything, the request is not sent again.
NothingAfterReply ==
    [][reply # "none" => UNCHANGED <<cand, try, order, sends, reply>>]_vars

\* Every request gets an answer and its coroutine ends.
EveryRequestAnswered == <>(at = "done" /\ reply # "none")

\* A failing agent is an error of its candidate: the next candidate gets the
\* request before the client is told of it.
AgentFailureFallsBack == reply = "escaped" => cand = N
=============================================================================
