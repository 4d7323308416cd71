------------------------ MODULE ProxyFailover_proofs ------------------------
(***************************************************************************)
(* Proofs about ProxyFailover, for any number of candidates and attempts.  *)
(* IInv is the inductive invariant: how far the attempt numbers and the    *)
(* requests sent have come in each phase, that the attempt under way has   *)
(* no row and no verdict yet, that nothing is a success before the walk is *)
(* over, what a finally block that has still to credit the key has written *)
(* already, and that every candidate passed over has left a trace.         *)
(***************************************************************************)
EXTENDS ProxyFailover, SequenceTheorems, TLAPS

\* The request has an attempt under way, which has no row yet; and which the
\* breaker has not heard of yet.
Open == {"send", "refresh", "resend", "classify", "stream"}
Unjudged == Open \cup {"blame", "credit"}

Typed == TypeOK /\ (at # "done" => requestLogs = 0 /\ sticky = 0)

\* The client has been given something once the walk is over.
Answered ==
    /\ reply = "none" <=> at \notin {"stream", "blame", "credit", "stick", "done"}
    /\ at \in {"stream", "blame", "credit", "stick"} => reply = "stream"

\* The bounds, with what each phase has still to come.
Work ==
    /\ at = "prepare" => order <= (cand - 1) * MaxAttempts
    /\ at = "reserve" => order <= (cand - 1) * MaxAttempts + try
    /\ order <= (cand - 1) * MaxAttempts + try + 1
    /\ sends <= 2 * order
    /\ at = "send" => sends + 2 <= 2 * order
    /\ at \in {"refresh", "resend"} => sends + 1 <= 2 * order

\* The attempt under way has no row, or no verdict, in these phases.
Numbered(rows, phases) ==
    /\ Ascending(rows)
    /\ \A i \in DOMAIN rows :
        rows[i].order <= order /\ (at \in phases => rows[i].order < order)

\* Nothing is a success before the walk is over.
Unserved ==
    /\ at \notin {"credit", "stick", "done"} =>
          \A i \in DOMAIN log : log[i].outcome # "success"
    /\ at \notin {"stick", "done"} =>
          \A i \in DOMAIN verdicts : ~verdicts[i].good

\* A finally block that has still to credit the key, or to make it the sticky one,
\* has logged this attempt, and no other, as a success.
Finishing ==
    /\ at \in {"credit", "stick"} =>
          /\ \E i \in DOMAIN log : log[i].outcome = "success" /\ log[i].order = order
          /\ \A i \in DOMAIN log : log[i].outcome = "success" => log[i].order = order
    /\ at = "stick" =>
          \E i \in DOMAIN verdicts : verdicts[i].good /\ verdicts[i].order = order

Tried(c) ==
    \/ \E i \in DOMAIN log : log[i].cand = c
    \/ \E i \in DOMAIN verdicts : verdicts[i].cand = c

\* The candidates before this one have left a trace.
Passed == \A c \in 1..(cand - 1) : Tried(c)

IInv ==
    /\ Typed /\ Answered /\ Work /\ Numbered(log, Open) /\ Numbered(verdicts, Unjudged)
    /\ Unserved /\ Finishing /\ Passed
    /\ LogAgreesWithBreaker /\ SuccessIsServed /\ FailureMeansAllTried

-----------------------------------------------------------------------------
(* Where the request goes on.                                              *)

LEMMA FallBackType ==
  ASSUME TypeOK, NEW error \in Replies, FallBack(error)
  PROVE  /\ at' \in {"prepare", "done"} /\ cand' \in Candidates
         /\ try' = try /\ reply' \in Replies
BY NIsPositive DEF TypeOK, FallBack, Candidates

LEMMA RetryType ==
  ASSUME TypeOK, CanRetry, Retry
  PROVE  at' = "reserve" /\ try' \in 0..(MaxAttempts - 1) /\ cand' = cand /\ reply' = reply
BY MaxAttemptsIsPositive DEF TypeOK, CanRetry, Retry

\* The rows a step may write.
LEMMA RowTypes ==
  ASSUME TypeOK
  PROVE  /\ \A n \in Nat, outcome \in Outcomes : Append(log, Row(n, outcome)) \in Seq(LogRows)
         /\ \A n \in Nat, good \in BOOLEAN : Append(verdicts, Verdict(n, good)) \in Seq(Verdicts)
<1>1. ASSUME NEW n \in Nat, NEW outcome \in Outcomes
      PROVE  Append(log, Row(n, outcome)) \in Seq(LogRows)
  <2>1. Row(n, outcome) \in LogRows
    BY DEF TypeOK, Row, LogRows
  <2> QED  BY <2>1, AppendProperties DEF TypeOK
<1>2. ASSUME NEW n \in Nat, NEW good \in BOOLEAN
      PROVE  Append(verdicts, Verdict(n, good)) \in Seq(Verdicts)
  <2>1. Verdict(n, good) \in Verdicts
    BY DEF TypeOK, Verdict, Verdicts
  <2> QED  BY <2>1, AppendProperties DEF TypeOK
<1> QED  BY <1>1, <1>2

LEMMA TypedStep ==
  ASSUME Typed, [Next]_vars
  PROVE  Typed'
<1> TypeOK
  BY DEF Typed
<1>0. /\ \A o \in Outcomes : Log(o) => log' \in Seq(LogRows)
      /\ Blame => verdicts' \in Seq(Verdicts)
      /\ Credit => verdicts' \in Seq(Verdicts) /\ sticky' \in 0..N
  <2>1. order \in Nat /\ cand \in 0..N /\ TRUE \in BOOLEAN /\ FALSE \in BOOLEAN
    BY NIsPositive DEF TypeOK, Candidates
  <2>2. \A o \in Outcomes : Log(o) => log' \in Seq(LogRows)
    BY <2>1, RowTypes DEF Log
  <2>3. Blame => verdicts' \in Seq(Verdicts)
    BY <2>1, RowTypes DEF Blame
  <2>4. Credit => verdicts' \in Seq(Verdicts) /\ sticky' \in 0..N
    BY <2>1, RowTypes DEF Credit
  <2> QED  BY <2>2, <2>3, <2>4
<1> USE DEF Typed, TypeOK, Phases, Statuses, Replies, Outcomes, records
<1>a. \A n \in Nat, good \in BOOLEAN : Append(verdicts, Verdict(n, good)) \in Seq(Verdicts)
  BY RowTypes
<1>b. cand \in 0..N
  BY NIsPositive DEF Candidates
<1>1. CASE PrepareRaises
  BY <1>1, RowTypes, FallBackType DEF PrepareRaises
<1>2. CASE Prepared \/ Reserved
  BY <1>2, MaxAttemptsIsPositive DEF Prepared, Reserved
<1>3. CASE RateLimited
  BY <1>3, RowTypes, FallBackType DEF RateLimited
<1>4. CASE SendRaises
  BY <1>4, <1>0, FallBackType, RetryType DEF SendRaises
<1>5. CASE PrepareEscapes \/ SendEscapes \/ RefreshEscapes \/ ResendEscapes
  BY <1>5 DEF PrepareEscapes, SendEscapes, RefreshEscapes, ResendEscapes, Escape
<1>6. CASE SendReturns \/ Refreshed \/ Resent
  BY <1>6 DEF SendReturns, Refreshed, Resent
<1>7. CASE RefreshRaises
  BY <1>7, <1>0, FallBackType DEF RefreshRaises
<1>8. CASE ResendRaises
  BY <1>8, <1>0, FallBackType, RetryType DEF ResendRaises
<1>9. CASE FailedStatus
  BY <1>9, <1>0, FallBackType, RetryType DEF FailedStatus, BlameStatus
<1>10. CASE BodyEscapes
  BY <1>10, <1>0 DEF BodyEscapes, BlameStatus, Escape
<1>11. CASE SemanticFailure
  BY <1>11, <1>0, FallBackType DEF SemanticFailure
<1>12. CASE Succeeds
  BY <1>12, <1>0 DEF Succeeds, Finish
<1>13. CASE StreamOpens
  BY <1>13 DEF StreamOpens
<1>14. CASE StreamCompletes \/ StreamFails \/ ClientLeaves \/ ClientLeavesFailedStream
  BY <1>14, <1>0 DEF StreamCompletes, StreamFails, ClientLeaves, ClientLeavesFailedStream, EndsAt
<1>15. CASE StreamCredited
  BY <1>15, <1>a DEF StreamCredited, FinallyGoesTo
<1>16. CASE StreamSticks \/ StreamUnrecorded
  BY <1>16, <1>b DEF StreamSticks, StreamUnrecorded, FinallyGoesTo
<1>17. CASE StreamBlamed
  BY <1>17, <1>0 DEF StreamBlamed, FinallyGoesTo
<1>18. CASE FinallyInterrupted
  <2>1. (at = "credit") \in BOOLEAN
    OBVIOUS
  <2>2. verdicts' \in Seq(Verdicts) /\ sticky' \in 0..N
    BY <1>18, <1>a, <1>b, <2>1 DEF FinallyInterrupted
  <2> QED  BY <1>18, <2>2 DEF FinallyInterrupted, FinallyGoesTo
<1>19. CASE UNCHANGED vars
  BY <1>19 DEF vars
<1> QED  BY <1>1, <1>2, <1>3, <1>4, <1>5, <1>6, <1>7, <1>8, <1>9, <1>10, <1>11, <1>12,
            <1>13, <1>14, <1>15, <1>16, <1>17, <1>18, <1>19 DEF Next, Walk, Generator

LEMMA AnsweredStep ==
  ASSUME Typed, Answered, [Next]_vars
  PROVE  Answered'
<1> USE DEF Answered
<1>1. CASE PrepareEscapes \/ PrepareRaises \/ Prepared \/ Reserved \/ RateLimited
  BY <1>1 DEF PrepareEscapes, PrepareRaises, Prepared, Reserved, RateLimited, FallBack, Escape
<1>2. CASE SendRaises \/ SendEscapes \/ SendReturns
  BY <1>2 DEF SendRaises, SendEscapes, SendReturns, FallBack, Retry, Escape
<1>3. CASE RefreshEscapes \/ RefreshRaises \/ Refreshed
  BY <1>3 DEF RefreshEscapes, RefreshRaises, Refreshed, FallBack, Escape
<1>4. CASE ResendRaises \/ ResendEscapes \/ Resent
  BY <1>4 DEF ResendRaises, ResendEscapes, Resent, FallBack, Retry, Escape
<1>5. CASE FailedStatus \/ BodyEscapes \/ SemanticFailure
  BY <1>5 DEF FailedStatus, BodyEscapes, SemanticFailure, FallBack, Retry, Escape
<1>6. CASE Succeeds \/ StreamOpens
  BY <1>6 DEF Succeeds, StreamOpens, Finish
<1>7. CASE Generator
  BY <1>7 DEF Generator, StreamCompletes, StreamFails, ClientLeaves,
              ClientLeavesFailedStream, EndsAt, StreamUnrecorded, StreamCredited,
              StreamSticks, StreamBlamed, FinallyInterrupted, FinallyGoesTo
<1>8. CASE UNCHANGED vars
  BY <1>8 DEF vars
<1> QED  BY <1>1, <1>2, <1>3, <1>4, <1>5, <1>6, <1>7, <1>8 DEF Next, Walk

LEMMA ProductStep ==
  ASSUME NEW c \in Nat \ {0}
  PROVE  ((c + 1) - 1) * MaxAttempts = (c - 1) * MaxAttempts + MaxAttempts
         /\ (c - 1) * MaxAttempts \in Nat
BY MaxAttemptsIsPositive

LEMMA WorkStep ==
  ASSUME Typed, Work, [Next]_vars
  PROVE  Work'
<1> DEFINE before == (cand - 1) * MaxAttempts
<1>1. /\ before \in Nat /\ order \in Nat /\ sends \in Nat
      /\ MaxAttempts \in Nat \ {0} /\ try \in Nat /\ try + 1 <= MaxAttempts
  BY ProductStep, NIsPositive, MaxAttemptsIsPositive DEF Typed, TypeOK, Candidates
<1>2. \A error : FallBack(error) =>
        \/ at' = "prepare" /\ try' = try /\ (cand' - 1) * MaxAttempts = before + MaxAttempts
        \/ at' = "done" /\ try' = try /\ cand' = cand
  BY ProductStep, NIsPositive DEF FallBack, Typed, TypeOK, Candidates
<1>3. Retry => at' = "reserve" /\ try' = try + 1 /\ cand' = cand
  BY DEF Retry
<1>4. Escape => at' = "done" /\ try' = try /\ cand' = cand
  BY DEF Escape
<1>5. CASE PrepareRaises
  BY <1>1, <1>2, <1>5 DEF PrepareRaises, Work
<1>6. CASE Prepared
  BY <1>1, <1>6 DEF Prepared, Work
<1>7. CASE Reserved
  BY <1>1, <1>7 DEF Reserved, Work
<1>8. CASE RateLimited
  BY <1>1, <1>2, <1>8 DEF RateLimited, Work
<1>9. CASE SendRaises
  BY <1>1, <1>2, <1>3, <1>9 DEF SendRaises, Work
<1>10. CASE PrepareEscapes \/ SendEscapes \/ RefreshEscapes \/ ResendEscapes \/ BodyEscapes
  BY <1>1, <1>4, <1>10
  DEF PrepareEscapes, SendEscapes, RefreshEscapes, ResendEscapes, BodyEscapes, Work
<1>11. CASE SendReturns \/ Refreshed \/ Resent
  BY <1>1, <1>11 DEF SendReturns, Refreshed, Resent, Work
<1>12. CASE RefreshRaises
  BY <1>1, <1>2, <1>12 DEF RefreshRaises, Work
<1>13. CASE ResendRaises
  BY <1>1, <1>2, <1>3, <1>13 DEF ResendRaises, Work
<1>14. CASE FailedStatus
  BY <1>1, <1>2, <1>3, <1>14 DEF FailedStatus, Work
<1>15. CASE SemanticFailure
  BY <1>1, <1>2, <1>15 DEF SemanticFailure, Work
<1>16. CASE Succeeds \/ StreamOpens
  BY <1>1, <1>16 DEF Succeeds, StreamOpens, Finish, Work
<1>17. CASE Generator
  BY <1>1, <1>17 DEF Generator, StreamCompletes, StreamFails, ClientLeaves,
                     ClientLeavesFailedStream, EndsAt, StreamUnrecorded, StreamCredited,
                     StreamSticks, StreamBlamed, FinallyInterrupted, FinallyGoesTo, Work
<1>18. CASE UNCHANGED vars
  BY <1>18 DEF vars, Work
<1> QED  BY <1>5, <1>6, <1>7, <1>8, <1>9, <1>10, <1>11, <1>12, <1>13, <1>14, <1>15,
            <1>16, <1>17, <1>18 DEF Next, Walk

-----------------------------------------------------------------------------
(* What a step writes.                                                     *)

Failures == {"502", "429", "upstream"}

Writes(outcome)  == log' = Append(log, Row(order', outcome))
Judges(n, good)  == verdicts' = Append(verdicts, Verdict(n, good))

\* The response has reached the client whole.
Serves ==
    /\ at \in Open /\ at' = "done" /\ reply' \in {"ok", "stream"}
    /\ order' = order /\ cand' = cand /\ sticky' = cand
    /\ Writes("success") /\ Judges(order, TRUE)

\* A streamed one has, and its finally block has still to credit the key.
Completes ==
    /\ at = "stream" /\ at' = "credit" /\ reply' = reply
    /\ order' = order /\ cand' = cand
    /\ Writes("success") /\ verdicts' = verdicts

\* That finally block goes on or is interrupted.
Finishes ==
    /\ at \in {"credit", "stick"} /\ at' \in {"stick", "done"} /\ reply' = reply
    /\ order' = order /\ cand' = cand /\ log' = log
    /\ \/ at = "credit" /\ Judges(order, TRUE) /\ UNCHANGED <<sticky, requestLogs>>
       \/ /\ at' = "done" /\ verdicts' = verdicts
          /\ (at = "stick" /\ sticky' = cand) \/ UNCHANGED <<sticky, requestLogs>>

\* The candidate is given up.
Leaves ==
    \/ cand' = cand + 1 /\ reply' \notin Failures
    \/ cand' = cand /\ cand = N

\* It has not, or not yet: at most one row and one verdict on the attempt that
\* ends, and at least one of them when the candidate is given up.
GoesOn ==
    /\ at \notin {"credit", "stick"} /\ at' \notin {"credit", "stick"} /\ sticky' = sticky
    /\ order' = order \/ (order' = order + 1 /\ at \notin Unjudged)
    /\ at' \in Open => (at \in Open \/ order' = order + 1)
    /\ at' = "blame" => at = "stream"
    /\ \/ log' = log
       \/ /\ \E o \in Outcomes \ {"success"} : Writes(o)
          /\ at' \notin Open
          /\ at \in Open \/ order' = order + 1
    /\ \/ verdicts' = verdicts
       \/ /\ Judges(order, FALSE)
          /\ at' \notin Unjudged /\ at \in Unjudged /\ order' = order
       \/ Judges(0, FALSE) /\ at' \notin Unjudged
    /\ \/ cand' = cand /\ reply' \notin Failures
       \/ /\ Leaves
          /\ \/ \E o \in Outcomes : Writes(o)
             \/ Judges(order, FALSE)
             \/ Judges(0, FALSE)

LEMMA FallBackGoes ==
  ASSUME Typed, Answered, at \in {"prepare", "reserve"} \cup Open, at # "stream",
         NEW error, FallBack(error)
  PROVE  at' \notin Unjudged /\ at' \notin {"credit", "stick"} /\ Leaves
BY NIsPositive
DEF Typed, TypeOK, Candidates, FallBack, Open, Unjudged, Answered, Failures, Leaves

LEMMA StepWrites ==
  ASSUME Typed, Answered, Next
  PROVE  Serves \/ Completes \/ Finishes \/ GoesOn
<1>0. order \in Nat /\ "retry" \in Outcomes /\ "fallback" \in Outcomes /\ "error" \in Outcomes
      /\ "returned" \in Outcomes /\ "cancelled" \in Outcomes
  BY DEF Typed, TypeOK, Outcomes
<1> USE DEF Open, Unjudged, GoesOn
<1>1. CASE PrepareRaises
  <2>1. /\ at = "prepare" /\ order' = order /\ log' = log /\ Judges(0, FALSE)
        /\ FallBack("502") /\ sticky' = sticky
    BY <1>1 DEF PrepareRaises, Judges
  <2> QED  BY <2>1, FallBackGoes
<1>2. CASE Prepared \/ Reserved \/ SendReturns \/ Refreshed \/ Resent \/ StreamOpens
  BY <1>0, <1>2 DEF Prepared, Reserved, SendReturns, Refreshed, Resent, StreamOpens,
                    records, Answered, Failures
<1>3. CASE RateLimited
  <2>1. /\ at = "reserve" /\ order' = order + 1 /\ verdicts' = verdicts /\ FallBack("429")
        /\ sticky' = sticky
        /\ \E o \in Outcomes \ {"success"} : Writes(o)
    BY <1>0, <1>3 DEF RateLimited, Writes
  <2> QED  BY <2>1, FallBackGoes
<1>4. CASE SendRaises
  <2>1. /\ at = "send" /\ order' = order /\ Judges(order, FALSE) /\ sticky' = sticky
        /\ \E o \in Outcomes \ {"success"} : Writes(o)
    BY <1>0, <1>4 DEF SendRaises, Log, Writes, Blame, Judges
  <2>2. Retry \/ FallBack("502")
    BY <1>4 DEF SendRaises
  <2>3. Retry => at' = "reserve" /\ cand' = cand /\ reply' \notin Failures
    BY <2>1 DEF Retry, Answered, Failures
  <2> QED  BY <2>1, <2>2, <2>3, FallBackGoes
<1>5. CASE PrepareEscapes \/ SendEscapes \/ RefreshEscapes \/ ResendEscapes
  BY <1>5 DEF PrepareEscapes, SendEscapes, RefreshEscapes, ResendEscapes, Escape, records, Failures
<1>6. CASE RefreshRaises
  <2>1. /\ at = "refresh" /\ order' = order /\ log' = log /\ Judges(order, FALSE)
        /\ FallBack("502") /\ sticky' = sticky
    BY <1>6 DEF RefreshRaises, Blame, Judges
  <2> QED  BY <2>1, FallBackGoes
<1>7. CASE ResendRaises
  <2>1. /\ at = "resend" /\ order' = order /\ log' = log /\ Judges(order, FALSE)
        /\ sticky' = sticky
    BY <1>7 DEF ResendRaises, Blame, Judges
  <2>2. Retry \/ FallBack("502")
    BY <1>7 DEF ResendRaises
  <2>3. Retry => at' = "reserve" /\ cand' = cand /\ reply' \notin Failures
    BY <2>1 DEF Retry, Answered, Failures
  <2> QED  BY <2>1, <2>2, <2>3, FallBackGoes
<1>8. CASE FailedStatus
  <2>1. /\ at = "classify" /\ order' = order /\ sticky' = sticky
        /\ verdicts' = verdicts \/ Judges(order, FALSE)
        /\ \E o \in Outcomes \ {"success"} : Writes(o)
    BY <1>0, <1>8 DEF FailedStatus, Log, Writes, BlameStatus, Blame, Judges
  <2>2. Retry \/ FallBack("upstream")
    BY <1>8 DEF FailedStatus
  <2>3. Retry => at' = "reserve" /\ cand' = cand /\ reply' \notin Failures
    BY <2>1 DEF Retry, Answered, Failures
  <2> QED  BY <2>1, <2>2, <2>3, FallBackGoes
<1>9. CASE BodyEscapes
  <2>1. verdicts' = verdicts \/ Judges(order, FALSE)
    BY <1>9 DEF BodyEscapes, BlameStatus, Blame, Judges
  <2> QED  BY <1>9, <2>1 DEF BodyEscapes, Escape, Failures
<1>10. CASE SemanticFailure
  <2>1. /\ at = "classify" /\ order' = order /\ Judges(order, FALSE) /\ FallBack("upstream")
        /\ sticky' = sticky
        /\ \E o \in Outcomes \ {"success"} : Writes(o)
    BY <1>0, <1>10 DEF SemanticFailure, Log, Writes, Blame, Judges
  <2> QED  BY <2>1, FallBackGoes
<1>11. CASE Succeeds
  BY <1>11 DEF Serves, Succeeds, Finish, Log, Credit, Writes, Judges, Answered
<1>12. CASE StreamCompletes
  BY <1>12 DEF Completes, StreamCompletes, EndsAt, Log, Writes
<1>13. CASE StreamFails \/ ClientLeaves \/ ClientLeavesFailedStream
  <2>1. /\ at = "stream" /\ at' \in {"blame", "done"} /\ order' = order /\ cand' = cand
        /\ sticky' = sticky /\ verdicts' = verdicts /\ reply' \notin Failures
    BY <1>13 DEF StreamFails, ClientLeaves, ClientLeavesFailedStream, EndsAt, Answered, Failures
  <2>2. \E o \in Outcomes \ {"success"} : Writes(o)
    BY <1>0, <1>13, <2>1
    DEF StreamFails, ClientLeaves, ClientLeavesFailedStream, EndsAt, Log, Writes
  <2> QED  BY <2>1, <2>2
<1>14. CASE StreamUnrecorded
  BY <1>14 DEF StreamUnrecorded, records, Answered, Failures
<1>15. CASE StreamCredited \/ StreamSticks
  BY <1>15 DEF Finishes, StreamCredited, StreamSticks, FinallyGoesTo, Judges
<1>16. CASE StreamBlamed
  BY <1>16 DEF StreamBlamed, FinallyGoesTo, Blame, Judges, Answered, Failures
<1>17. CASE FinallyInterrupted
  <2>1. /\ at \in {"blame", "credit", "stick"} /\ at' = "done" /\ reply' = reply
        /\ order' = order /\ cand' = cand /\ log' = log /\ requestLogs' = requestLogs
    BY <1>17 DEF FinallyInterrupted, FinallyGoesTo
  <2>2. CASE at = "blame"
    <3>1. sticky' = sticky /\ (verdicts' = verdicts \/ Judges(order, FALSE))
      BY <1>17, <2>2 DEF FinallyInterrupted, Judges
    <3> QED  BY <2>1, <2>2, <3>1 DEF Answered, Failures
  <2>3. CASE at = "credit"
    <3>1. sticky' = sticky /\ (verdicts' = verdicts \/ Judges(order, TRUE))
      BY <1>17, <2>3 DEF FinallyInterrupted, Judges
    <3> QED  BY <2>1, <2>3, <3>1 DEF Finishes
  <2>4. CASE at = "stick"
    BY <1>17, <2>1, <2>4 DEF Finishes, FinallyInterrupted
  <2> QED  BY <2>1, <2>2, <2>3, <2>4
<1> QED  BY <1>1, <1>2, <1>3, <1>4, <1>5, <1>6, <1>7, <1>8, <1>9, <1>10, <1>11, <1>12, <1>13,
            <1>14, <1>15, <1>16, <1>17
         DEF Next, Walk, Generator

LEMMA Appended ==
  ASSUME NEW S, NEW s \in Seq(S), NEW x \in S
  PROVE  /\ Append(s, x) \in Seq(S) /\ Len(Append(s, x)) = Len(s) + 1
         /\ DOMAIN Append(s, x) = DOMAIN s \cup {Len(s) + 1}
         /\ Len(s) \in Nat /\ \A i \in DOMAIN s : i \in Nat /\ i <= Len(s)
         /\ \A i \in DOMAIN s : Append(s, x)[i] = s[i]
         /\ Append(s, x)[Len(s) + 1] = x
<1>1. /\ Append(s, x) \in Seq(S) /\ Len(Append(s, x)) = Len(s) + 1
      /\ \A i \in 1..Len(s) : Append(s, x)[i] = s[i]
      /\ Append(s, x)[Len(s) + 1] = x
  BY AppendProperties
<1>2. DOMAIN s = 1..Len(s) /\ Len(s) \in Nat
  OBVIOUS
<1>3. DOMAIN Append(s, x) = 1..(Len(s) + 1)
  BY <1>1, <1>2
<1> QED  BY <1>1, <1>2, <1>3

\* The row of a new attempt keeps the rows in the order of the attempts.
LEMMA AscendingAppend ==
  ASSUME NEW S, \A r \in S : r.order \in Nat,
         NEW rows \in Seq(S), NEW x \in S, NEW bound \in Nat,
         Ascending(rows), \A i \in DOMAIN rows : rows[i].order <= bound,
         x.order <= bound,
         x.order = 0 \/ \A i \in DOMAIN rows : rows[i].order < x.order
  PROVE  /\ Ascending(Append(rows, x))
         /\ \A i \in DOMAIN Append(rows, x) : Append(rows, x)[i].order <= bound
<1> DEFINE all == Append(rows, x)
<1>1. /\ DOMAIN all = DOMAIN rows \cup {Len(rows) + 1}
      /\ Len(rows) \in Nat /\ \A i \in DOMAIN rows : i \in Nat /\ i <= Len(rows)
      /\ \A i \in DOMAIN rows : all[i] = rows[i]
      /\ all[Len(rows) + 1] = x
  BY Appended
<1> HIDE DEF all
<1>2. ASSUME NEW i \in DOMAIN all, NEW j \in DOMAIN all, i < j,
             all[i].order # 0, all[j].order # 0
      PROVE  all[i].order < all[j].order
  <2>1. i \in DOMAIN rows
    BY <1>1, <1>2
  <2>2. CASE j \in DOMAIN rows
    BY <1>1, <1>2, <2>1, <2>2 DEF Ascending
  <2>3. CASE j = Len(rows) + 1
    BY <1>1, <1>2, <2>1, <2>3
  <2> QED  BY <1>1, <2>2, <2>3
<1>3. \A i \in DOMAIN all : all[i].order <= bound
  BY <1>1
<1> QED  BY <1>2, <1>3 DEF Ascending, all

-----------------------------------------------------------------------------
(* The records.                                                            *)

LEMMA NumberedStep ==
  ASSUME Typed, Answered, Numbered(log, Open), Numbered(verdicts, Unjudged), Next
  PROVE  Numbered(log, Open)' /\ Numbered(verdicts, Unjudged)'
<1>1. /\ order \in Nat /\ order' \in Nat /\ log \in Seq(LogRows) /\ verdicts \in Seq(Verdicts)
      /\ cand \in Candidates
  BY TypedStep DEF Typed, TypeOK
<1>2. /\ \A r \in LogRows : r.order \in Nat
      /\ \A r \in Verdicts : r.order \in Nat
  BY DEF LogRows, Verdicts
<1>a. /\ \A i \in DOMAIN log : log[i].order \in Nat
      /\ \A i \in DOMAIN verdicts : verdicts[i].order \in Nat
  BY <1>1, <1>2
<1>3. Serves \/ Completes \/ Finishes \/ GoesOn
  BY StepWrites
<1>4. /\ order' = order \/ (order' = order + 1 /\ at \notin Unjudged)
      /\ at' \in Open => (at \in Open \/ order' = order + 1)
      /\ at' \in Unjudged => (at \in Unjudged \/ order' = order + 1)
  BY <1>3 DEF Serves, Completes, Finishes, GoesOn, Open, Unjudged
<1>b. order <= order'
  BY <1>1, <1>4
<1>5. ASSUME log' = log PROVE Numbered(log, Open)'
  <2>1. \A i \in DOMAIN log : log[i].order <= order' /\ (at' \in Open => log[i].order < order')
    BY <1>1, <1>a, <1>4, <1>b DEF Numbered
  <2> QED  BY <1>5, <2>1 DEF Numbered, Ascending, Open
<1>6. ASSUME verdicts' = verdicts PROVE Numbered(verdicts, Unjudged)'
  <2>1. \A i \in DOMAIN verdicts :
            verdicts[i].order <= order' /\ (at' \in Unjudged => verdicts[i].order < order')
    BY <1>1, <1>a, <1>4, <1>b DEF Numbered
  <2> QED  BY <1>6, <2>1 DEF Numbered, Ascending, Open, Unjudged
<1>7. ASSUME NEW o \in Outcomes, Writes(o), at' \notin Open, at \in Open \/ order' = order + 1
      PROVE  Numbered(log, Open)'
  <2> DEFINE x == Row(order', o)
  <2>1. x \in LogRows /\ x.order = order'
    BY <1>1 DEF Row, LogRows
  <2>2. \A i \in DOMAIN log : log[i].order < order' /\ log[i].order <= order'
    BY <1>1, <1>a, <1>4, <1>7 DEF Numbered
  <2>3. log' = Append(log, x) /\ Ascending(log)
    BY <1>7 DEF Writes, Numbered
  <2>4. x.order <= order' /\ (x.order = 0 \/ \A i \in DOMAIN log : log[i].order < x.order)
    BY <1>1, <2>1, <2>2
  <2> HIDE DEF x
  <2>5. /\ Ascending(Append(log, x))
        /\ \A i \in DOMAIN Append(log, x) : Append(log, x)[i].order <= order'
    BY <1>1, <1>2, <2>1, <2>2, <2>3, <2>4, AscendingAppend
  <2> QED  BY <1>7, <2>3, <2>5 DEF Numbered, Ascending, Open
<1>8. ASSUME NEW n \in {0, order}, NEW good \in BOOLEAN, Judges(n, good), at' \notin Unjudged,
             n = 0 \/ (at \in Unjudged /\ order' = order)
      PROVE  Numbered(verdicts, Unjudged)'
  <2> DEFINE x == Verdict(n, good)
  <2>1. x \in Verdicts /\ x.order = n
    BY <1>1 DEF Verdict, Verdicts
  <2>2. \A i \in DOMAIN verdicts : /\ verdicts[i].order <= order'
                                   /\ n = 0 \/ verdicts[i].order < n
    BY <1>1, <1>a, <1>b, <1>8 DEF Numbered
  <2>3. verdicts' = Append(verdicts, x) /\ Ascending(verdicts)
    BY <1>8 DEF Judges, Numbered
  <2>4. x.order <= order' /\ (x.order = 0 \/ \A i \in DOMAIN verdicts : verdicts[i].order < x.order)
    BY <1>1, <1>b, <1>8, <2>1, <2>2
  <2> HIDE DEF x
  <2>5. /\ Ascending(Append(verdicts, x))
        /\ \A i \in DOMAIN Append(verdicts, x) : Append(verdicts, x)[i].order <= order'
    BY <1>1, <1>2, <2>1, <2>2, <2>3, <2>4, AscendingAppend
  <2> QED  BY <1>8, <2>3, <2>5 DEF Numbered, Ascending, Open, Unjudged
<1>9. /\ "success" \in Outcomes /\ TRUE \in BOOLEAN /\ FALSE \in BOOLEAN
      /\ order \in {0, order} /\ 0 \in {0, order}
  BY DEF Outcomes
<1>10. CASE Serves
  <2>1. "done" \notin Open /\ "done" \notin Unjudged /\ at \in Unjudged
    BY <1>10 DEF Serves, Open, Unjudged
  <2> QED  BY <1>7, <1>8, <1>9, <1>10, <2>1 DEF Serves
<1>11. CASE Completes
  <2>1. at \in Open /\ at' \notin Open
    BY <1>11 DEF Completes, Open
  <2> QED  BY <1>6, <1>7, <1>9, <1>11, <2>1 DEF Completes
<1>12. CASE Finishes
  <2>1. at' \notin Unjudged /\ (at = "credit" => at \in Unjudged)
    BY <1>12 DEF Finishes, Open, Unjudged
  <2> QED  BY <1>5, <1>6, <1>8, <1>9, <1>12, <2>1 DEF Finishes
<1>13. CASE GoesOn
  <2>1. Numbered(log, Open)'
    BY <1>5, <1>7, <1>13 DEF GoesOn
  <2>2. Numbered(verdicts, Unjudged)'
    BY <1>6, <1>8, <1>9, <1>13 DEF GoesOn
  <2> QED  BY <2>1, <2>2
<1> QED  BY <1>3, <1>10, <1>11, <1>12, <1>13

LEMMA NotDone ==
  ASSUME Next
  PROVE  at # "done"
BY DEF Next, Walk, Generator, PrepareEscapes, PrepareRaises, Prepared, Reserved, RateLimited,
       SendRaises, SendEscapes, SendReturns, RefreshEscapes, RefreshRaises, Refreshed,
       ResendRaises, ResendEscapes, Resent, FailedStatus, BodyEscapes, SemanticFailure,
       Succeeds, StreamOpens, StreamCompletes, StreamFails, ClientLeaves,
       ClientLeavesFailedStream, EndsAt, StreamUnrecorded, StreamCredited, StreamSticks,
       StreamBlamed, FinallyInterrupted

\* What a row is, once written.
LEMMA Written ==
  ASSUME Typed, Typed', NEW o \in Outcomes, Writes(o)
  PROVE  /\ DOMAIN log' = DOMAIN log \cup {Len(log) + 1}
         /\ Len(log) + 1 \in DOMAIN log' /\ Len(log) + 1 \notin DOMAIN log
         /\ \A i \in DOMAIN log : log'[i] = log[i]
         /\ log'[Len(log) + 1].order = order' /\ log'[Len(log) + 1].cand = cand
         /\ log'[Len(log) + 1].outcome = o
<1>1. Row(order', o) \in LogRows /\ log \in Seq(LogRows)
  BY DEF Typed, TypeOK, Row, LogRows
<1>2. log' = Append(log, Row(order', o))
  BY DEF Writes
<1>3. /\ DOMAIN log' = DOMAIN log \cup {Len(log) + 1}
      /\ Len(log) \in Nat /\ \A i \in DOMAIN log : i \in Nat /\ i <= Len(log)
      /\ \A i \in DOMAIN log : log'[i] = log[i]
      /\ log'[Len(log) + 1] = Row(order', o)
  BY <1>1, <1>2, Appended
<1> QED  BY <1>3 DEF Row

LEMMA Judged ==
  ASSUME Typed, NEW n \in {0, order}, NEW good \in BOOLEAN, Judges(n, good)
  PROVE  /\ DOMAIN verdicts' = DOMAIN verdicts \cup {Len(verdicts) + 1}
         /\ Len(verdicts) + 1 \in DOMAIN verdicts' /\ Len(verdicts') = Len(verdicts) + 1
         /\ Len(verdicts) + 1 \notin DOMAIN verdicts
         /\ \A i \in DOMAIN verdicts : verdicts'[i] = verdicts[i]
         /\ verdicts'[Len(verdicts) + 1].order = n
         /\ verdicts'[Len(verdicts) + 1].cand = cand
         /\ verdicts'[Len(verdicts) + 1].good = good
<1>1. Verdict(n, good) \in Verdicts /\ verdicts \in Seq(Verdicts)
  BY DEF Typed, TypeOK, Verdict, Verdicts
<1>2. verdicts' = Append(verdicts, Verdict(n, good))
  BY DEF Judges
<1>3. /\ DOMAIN verdicts' = DOMAIN verdicts \cup {Len(verdicts) + 1}
      /\ Len(verdicts') = Len(verdicts) + 1
      /\ Len(verdicts) \in Nat /\ \A i \in DOMAIN verdicts : i \in Nat /\ i <= Len(verdicts)
      /\ \A i \in DOMAIN verdicts : verdicts'[i] = verdicts[i]
      /\ verdicts'[Len(verdicts) + 1] = Verdict(n, good)
  BY <1>1, <1>2, Appended
<1> QED  BY <1>3 DEF Verdict

\* A step that does not serve adds no success to either record.
LEMMA NoneServed ==
  ASSUME Typed, Typed', Unserved, at # "done", GoesOn
  PROVE  /\ \A i \in DOMAIN log' : log'[i].outcome # "success"
         /\ \A i \in DOMAIN verdicts' : ~verdicts'[i].good
<1>1. /\ \A i \in DOMAIN log : log[i].outcome # "success"
      /\ \A i \in DOMAIN verdicts : ~verdicts[i].good
  BY DEF Unserved, GoesOn
<1>3. ASSUME NEW o \in Outcomes \ {"success"}, Writes(o)
      PROVE  \A i \in DOMAIN log' : log'[i].outcome # "success"
  BY <1>1, <1>3, Written
<1>5. ASSUME NEW n \in {0, order}, Judges(n, FALSE)
      PROVE  \A i \in DOMAIN verdicts' : ~verdicts'[i].good
  <2>1. FALSE \in BOOLEAN
    OBVIOUS
  <2> QED  BY <1>1, <1>5, <2>1, Judged
<1>6. \A i \in DOMAIN log' : log'[i].outcome # "success"
  <2>1. log' = log \/ \E o \in Outcomes \ {"success"} : Writes(o)
    BY DEF GoesOn
  <2> QED  BY <1>1, <2>1, <1>3
<1>7. \A i \in DOMAIN verdicts' : ~verdicts'[i].good
  <2>1. verdicts' = verdicts \/ Judges(order, FALSE) \/ Judges(0, FALSE)
    BY DEF GoesOn
  <2>2. order \in {0, order} /\ 0 \in {0, order}
    OBVIOUS
  <2> QED  BY <1>1, <1>5, <2>1, <2>2
<1> QED  BY <1>6, <1>7

\* The records only grow.
LEMMA TracesStay ==
  ASSUME Typed, Typed', Serves \/ Completes \/ Finishes \/ GoesOn, NEW c, Tried(c)
  PROVE  Tried(c)'
<1>0. /\ "success" \in Outcomes /\ TRUE \in BOOLEAN /\ FALSE \in BOOLEAN
      /\ order \in {0, order} /\ 0 \in {0, order}
  BY DEF Outcomes
<1>1. log' = log \/ \E o \in Outcomes : Writes(o)
  BY <1>0 DEF Serves, Completes, Finishes, GoesOn
<1>2. verdicts' = verdicts \/ \E n \in {0, order}, good \in BOOLEAN : Judges(n, good)
  BY <1>0 DEF Serves, Completes, Finishes, GoesOn
<1>3. ASSUME NEW i \in DOMAIN log, log[i].cand = c PROVE Tried(c)'
  <2>1. i \in DOMAIN log' /\ log'[i] = log[i]
    BY <1>1, Written
  <2> QED  BY <1>3, <2>1 DEF Tried
<1>4. ASSUME NEW i \in DOMAIN verdicts, verdicts[i].cand = c PROVE Tried(c)'
  <2>1. i \in DOMAIN verdicts' /\ verdicts'[i] = verdicts[i]
    BY <1>2, Judged
  <2> QED  BY <1>4, <2>1 DEF Tried
<1> QED  BY <1>3, <1>4 DEF Tried

\* The candidate that is given up leaves a trace.
LEMMA TraceLeft ==
  ASSUME Typed, Typed', \/ \E o \in Outcomes : Writes(o)
                        \/ Judges(order, FALSE)
                        \/ Judges(0, FALSE),
         NEW c, c = cand
  PROVE  Tried(c)'
<1>1. ASSUME NEW o \in Outcomes, Writes(o) PROVE Tried(c)'
  BY <1>1, Written DEF Tried
<1>2. ASSUME NEW n \in {0, order}, Judges(n, FALSE) PROVE Tried(c)'
  <2>1. FALSE \in BOOLEAN
    OBVIOUS
  <2> QED  BY <1>2, <2>1, Judged DEF Tried
<1>3. order \in {0, order} /\ 0 \in {0, order}
  OBVIOUS
<1> QED  BY <1>1, <1>2, <1>3

-----------------------------------------------------------------------------
(* What the client is told.                                                *)

LEMMA UnservedStep ==
  ASSUME Typed, Typed', Unserved, Next, Serves \/ Completes \/ Finishes \/ GoesOn
  PROVE  Unserved'
<1>1. CASE Serves
  BY <1>1 DEF Serves, Unserved
<1>2. CASE Completes
  BY <1>2 DEF Completes, Unserved
<1>3. CASE Finishes
  BY <1>3 DEF Finishes, Unserved
<1>4. CASE GoesOn
  BY <1>4, NotDone, NoneServed DEF Unserved
<1> QED  BY <1>1, <1>2, <1>3, <1>4

LEMMA FinishingStep ==
  ASSUME Typed, Typed', Unserved, Finishing, Next, Serves \/ Completes \/ Finishes \/ GoesOn
  PROVE  Finishing'
<1>1. CASE Serves \/ GoesOn
  BY <1>1 DEF Serves, GoesOn, Finishing
<1>2. CASE Completes
  <2>1. "success" \in Outcomes /\ Writes("success") /\ at' = "credit" /\ order' = order
    BY <1>2 DEF Completes, Outcomes
  <2>2. \A i \in DOMAIN log : log[i].outcome # "success"
    BY <1>2 DEF Completes, Unserved
  <2> DEFINE row == Len(log) + 1
  <2>3. /\ DOMAIN log' = DOMAIN log \cup {row}
        /\ \A i \in DOMAIN log : log'[i] = log[i]
        /\ log'[row].order = order /\ log'[row].outcome = "success"
    BY <2>1, Written
  <2> QED  BY <2>1, <2>2, <2>3 DEF Finishing
<1>3. CASE Finishes
  <2>1. /\ log' = log /\ order' = order
        /\ \E i \in DOMAIN log : log[i].outcome = "success" /\ log[i].order = order
        /\ \A i \in DOMAIN log : log[i].outcome = "success" => log[i].order = order
    BY <1>3 DEF Finishes, Finishing
  <2>2. ASSUME at' = "stick"
        PROVE  \E i \in DOMAIN verdicts' : verdicts'[i].good /\ verdicts'[i].order = order
    <3>1. Judges(order, TRUE) /\ order \in {0, order} /\ TRUE \in BOOLEAN
      BY <1>3, <2>2 DEF Finishes
    <3> QED  BY <3>1, Judged
  <2> QED  BY <2>1, <2>2 DEF Finishing
<1> QED  BY <1>1, <1>2, <1>3

LEMMA PassedStep ==
  ASSUME Typed, Typed', Passed, Serves \/ Completes \/ Finishes \/ GoesOn
  PROVE  Passed'
<1>1. cand \in Nat /\ cand' \in Nat
  BY NIsPositive DEF Typed, TypeOK, Candidates
<1>2. CASE cand' = cand
  <2>1. ASSUME NEW c \in 1..(cand - 1) PROVE Tried(c)'
    <3>1. Tried(c)
      BY DEF Passed
    <3> QED  BY <3>1, TracesStay
  <2> QED  BY <1>2, <2>1 DEF Passed
<1>3. CASE cand' # cand
  <2>1. /\ cand' = cand + 1
        /\ (\E o \in Outcomes : Writes(o)) \/ Judges(order, FALSE) \/ Judges(0, FALSE)
    BY <1>3 DEF Serves, Completes, Finishes, GoesOn, Leaves
  <2>2. ASSUME NEW c \in 1..(cand' - 1) PROVE Tried(c)'
    <3>1. CASE c = cand
      BY <2>1, <3>1, TraceLeft
    <3>2. CASE c \in 1..(cand - 1)
      <4>1. Tried(c)
        BY <3>2 DEF Passed
      <4> QED  BY <4>1, TracesStay
    <3> QED  BY <1>1, <2>1, <3>1, <3>2
  <2> QED  BY <2>2 DEF Passed
<1> QED  BY <1>2, <1>3

LEMMA AgreesStep ==
  ASSUME Typed, Typed', Unserved, Finishing, Numbered(log, Open), Numbered(verdicts, Unjudged),
         LogAgreesWithBreaker, Next, Serves \/ Completes \/ Finishes \/ GoesOn
  PROVE  LogAgreesWithBreaker'
<1>0. /\ "success" \in Outcomes /\ TRUE \in BOOLEAN /\ order \in {0, order}
      /\ order \in Nat /\ \A i \in DOMAIN log : log[i].order \in Nat
      /\ \A i \in DOMAIN verdicts : verdicts[i].order \in Nat
  <2>1. log \in Seq(LogRows) /\ \A r \in LogRows : r.order \in Nat
    BY DEF Typed, TypeOK, LogRows
  <2>2. verdicts \in Seq(Verdicts) /\ \A r \in Verdicts : r.order \in Nat
    BY DEF Typed, TypeOK, Verdicts
  <2> QED  BY <2>1, <2>2 DEF Typed, TypeOK, Outcomes
<1> DEFINE row == Len(log) + 1
           verdict == Len(verdicts) + 1
<1>1. CASE Serves
  <2>1. /\ \A i \in DOMAIN log : log[i].outcome # "success"
        /\ \A i \in DOMAIN verdicts : ~verdicts[i].good /\ verdicts[i].order # order
    BY <1>0, <1>1 DEF Unserved, Numbered, Serves, Open, Unjudged
  <2>2. Writes("success") /\ Judges(order, TRUE) /\ order' = order
    BY <1>1 DEF Serves
  <2>3. /\ DOMAIN log' = DOMAIN log \cup {row}
        /\ \A i \in DOMAIN log : log'[i] = log[i]
        /\ log'[row].order = order /\ log'[row].outcome = "success"
    BY <1>0, <2>2, Written
  <2>4. /\ DOMAIN verdicts' = DOMAIN verdicts \cup {verdict}
        /\ \A i \in DOMAIN verdicts : verdicts'[i] = verdicts[i]
        /\ verdicts'[verdict].order = order /\ verdicts'[verdict].good = TRUE
    BY <1>0, <2>2, Judged
  <2> HIDE DEF row, verdict
  <2> QED  BY <2>1, <2>3, <2>4 DEF LogAgreesWithBreaker
<1>2. CASE Completes
  <2>1. /\ \A i \in DOMAIN log : log[i].outcome # "success"
        /\ \A i \in DOMAIN verdicts : ~verdicts[i].good /\ verdicts[i].order # order
        /\ at' # "done"
    BY <1>0, <1>2 DEF Unserved, Numbered, Completes, Open, Unjudged
  <2>2. Writes("success") /\ verdicts' = verdicts /\ order' = order
    BY <1>2 DEF Completes
  <2>3. /\ DOMAIN log' = DOMAIN log \cup {row}
        /\ \A i \in DOMAIN log : log'[i] = log[i]
        /\ log'[row].order = order /\ log'[row].outcome = "success"
    BY <1>0, <2>2, Written
  <2>4. requestLogs' = 0
    BY <2>1 DEF Typed
  <2> HIDE DEF row
  <2> QED  BY <2>1, <2>2, <2>3, <2>4 DEF LogAgreesWithBreaker
<1>3. CASE Finishes
  <2>1. /\ log' = log
        /\ \E i \in DOMAIN log : log[i].outcome = "success" /\ log[i].order = order
        /\ \A i \in DOMAIN log : log[i].outcome = "success" => log[i].order = order
    BY <1>3 DEF Finishes, Finishing
  <2>2. CASE at = "credit" /\ Judges(order, TRUE)
    <3>1. /\ DOMAIN verdicts' = DOMAIN verdicts \cup {verdict}
          /\ \A i \in DOMAIN verdicts : verdicts'[i] = verdicts[i]
          /\ verdicts'[verdict].order = order /\ verdicts'[verdict].good = TRUE
      BY <1>0, <2>2, Judged
    <3> HIDE DEF verdict
    <3> QED  BY <2>1, <3>1 DEF LogAgreesWithBreaker
  <2>3. CASE verdicts' = verdicts /\ requestLogs' = requestLogs
    BY <2>1, <2>3 DEF LogAgreesWithBreaker
  <2>4. CASE verdicts' = verdicts /\ at = "stick"
    <3>1. \E j \in DOMAIN verdicts : verdicts[j].good /\ verdicts[j].order = order
      BY <2>4 DEF Finishing
    <3> QED  BY <2>1, <2>4, <3>1 DEF LogAgreesWithBreaker
  <2> QED  BY <1>3, <2>2, <2>3, <2>4 DEF Finishes
<1>4. CASE GoesOn
  BY <1>4, NotDone, NoneServed DEF LogAgreesWithBreaker
<1> QED  BY <1>1, <1>2, <1>3, <1>4

LEMMA ServedStep ==
  ASSUME Typed, Typed', Answered, Unserved, Finishing, SuccessIsServed, Next,
         Serves \/ Completes \/ Finishes \/ GoesOn
  PROVE  SuccessIsServed'
<1>0. TRUE \in BOOLEAN /\ order \in {0, order}
  OBVIOUS
<1>1. ASSUME at \notin {"stick", "done"}, Judges(order, TRUE), cand' = cand,
             at' \in {"stick", "done"}, reply' \in {"ok", "stream"},
             sticky' = cand \/ (sticky' = 0 /\ requestLogs' = 0)
      PROVE  SuccessIsServed'
  <2>1. \A i \in DOMAIN verdicts : ~verdicts[i].good
    BY <1>1 DEF Unserved
  <2> DEFINE verdict == Len(verdicts) + 1
  <2>2. /\ DOMAIN verdicts' = DOMAIN verdicts \cup {verdict} /\ Len(verdicts') = verdict
        /\ \A i \in DOMAIN verdicts : verdicts'[i] = verdicts[i]
        /\ verdicts'[verdict].cand = cand /\ verdicts'[verdict].good = TRUE
    BY <1>0, <1>1, Judged
  <2> HIDE DEF verdict
  <2>3. ASSUME NEW i \in DOMAIN verdicts', verdicts'[i].good
        PROVE  i = verdict
    BY <2>1, <2>2, <2>3
  <2> QED  BY <1>1, <2>2, <2>3 DEF SuccessIsServed
<1>2. CASE Serves
  BY <1>1, <1>2 DEF Serves, Open
<1>3. CASE Completes
  BY <1>3 DEF Completes, Unserved, SuccessIsServed, Typed
<1>4. CASE Finishes
  <2>1. /\ at # "done" /\ reply = "stream" /\ reply' = reply /\ cand' = cand
        /\ sticky = 0 /\ requestLogs = 0
    BY <1>4, NotDone DEF Typed, Answered, Finishes
  <2>2. CASE at = "credit" /\ Judges(order, TRUE) /\ UNCHANGED <<sticky, requestLogs>>
    BY <1>1, <1>4, <2>1, <2>2 DEF Finishes
  <2>3. CASE at' = "done" /\ verdicts' = verdicts /\ UNCHANGED <<sticky, requestLogs>>
    BY <2>1, <2>3 DEF SuccessIsServed
  <2>4. CASE at' = "done" /\ verdicts' = verdicts /\ at = "stick" /\ sticky' = cand
    <3>1. \E i \in DOMAIN verdicts : verdicts[i].good /\ verdicts[i].cand = cand
      BY <2>4 DEF Finishing, SuccessIsServed
    <3> QED  BY <2>1, <2>4, <3>1 DEF SuccessIsServed
  <2> QED  BY <1>4, <2>2, <2>3, <2>4 DEF Finishes
<1>5. CASE GoesOn
  <2>1. sticky' = 0
    BY <1>5, NotDone DEF GoesOn, Typed
  <2> QED  BY <1>5, <2>1, NotDone, NoneServed DEF SuccessIsServed
<1> QED  BY <1>2, <1>3, <1>4, <1>5

LEMMA AllTriedStep ==
  ASSUME Typed, Typed', Answered, Unserved, Passed, Next,
         Serves \/ Completes \/ Finishes \/ GoesOn
  PROVE  FailureMeansAllTried'
<1>1. CASE Serves \/ Completes \/ Finishes
  BY <1>1 DEF Serves, Completes, Finishes, Answered, FailureMeansAllTried
<1>2. CASE GoesOn /\ reply' \notin Failures
  BY <1>2 DEF FailureMeansAllTried, Failures
<1>3. CASE GoesOn /\ reply' \in Failures
  <2>1. /\ cand' = cand /\ cand = N
        /\ (\E o \in Outcomes : Writes(o)) \/ Judges(order, FALSE) \/ Judges(0, FALSE)
    BY <1>3 DEF GoesOn, Leaves
  <2>2. ASSUME NEW c \in Candidates PROVE Tried(c)'
    <3>1. CASE c = cand
      BY <2>1, <3>1, TraceLeft
    <3>2. CASE c # cand
      <4>1. c \in 1..(cand - 1)
        BY <2>1, <3>2, NIsPositive DEF Candidates
      <4>2. Tried(c)
        BY <4>1 DEF Passed
      <4> QED  BY <1>3, <4>2, TracesStay
    <3> QED  BY <3>1, <3>2
  <2>3. \A i \in DOMAIN verdicts' : ~verdicts'[i].good
    BY <1>3, NotDone, NoneServed
  <2> QED  BY <2>2, <2>3 DEF FailureMeansAllTried, Tried
<1> QED  BY <1>1, <1>2, <1>3

-----------------------------------------------------------------------------

LEMMA InitInv ==
  ASSUME Init
  PROVE  IInv
<1>1. DOMAIN log = {} /\ DOMAIN verdicts = {}
  BY DEF Init
<1>2. Typed
  BY NIsPositive, MaxAttemptsIsPositive
  DEF Init, Typed, TypeOK, Candidates, Phases, Statuses, Replies
<1>3. Answered
  BY DEF Init, Answered
<1>4. Work
  BY MaxAttemptsIsPositive DEF Init, Work
<1>5. Numbered(log, Open) /\ Numbered(verdicts, Unjudged)
  BY <1>1 DEF Numbered, Ascending
<1>6. Unserved /\ Finishing /\ LogAgreesWithBreaker /\ SuccessIsServed
  BY <1>1 DEF Init, Unserved, Finishing, LogAgreesWithBreaker, SuccessIsServed
<1>7. Passed /\ FailureMeansAllTried
  BY DEF Init, Passed, FailureMeansAllTried
<1> QED  BY <1>2, <1>3, <1>4, <1>5, <1>6, <1>7 DEF IInv

LEMMA NextInv ==
  ASSUME IInv, [Next]_vars
  PROVE  IInv'
<1> USE DEF IInv
<1>1. Typed' /\ Answered' /\ Work'
  BY TypedStep, AnsweredStep, WorkStep
<1>2. CASE Next
  <2>1. Serves \/ Completes \/ Finishes \/ GoesOn
    BY <1>2, StepWrites
  <2>2. Numbered(log, Open)' /\ Numbered(verdicts, Unjudged)'
    BY <1>2, NumberedStep
  <2>3. Unserved' /\ Finishing' /\ Passed'
    BY <1>1, <1>2, <2>1, UnservedStep, FinishingStep, PassedStep
  <2>4. LogAgreesWithBreaker' /\ SuccessIsServed' /\ FailureMeansAllTried'
    BY <1>1, <1>2, <2>1, AgreesStep, ServedStep, AllTriedStep
  <2> QED  BY <1>1, <2>2, <2>3, <2>4
<1>3. CASE UNCHANGED vars
  <2>1. Numbered(log, Open)' /\ Numbered(verdicts, Unjudged)'
    BY <1>3 DEF vars, Numbered, Ascending, Open, Unjudged
  <2>2. Unserved' /\ Finishing' /\ Passed' /\ LogAgreesWithBreaker' /\ SuccessIsServed'
    BY <1>3 DEF vars, Unserved, Finishing, Passed, Tried, LogAgreesWithBreaker, SuccessIsServed
  <2>3. FailureMeansAllTried'
    BY <1>3 DEF vars, FailureMeansAllTried
  <2> QED  BY <1>1, <2>1, <2>2, <2>3
<1> QED  BY <1>2, <1>3

LEMMA Invariance == Spec => []IInv
BY InitInv, NextInv, PTL DEF Spec

\* The variables keep their types.
THEOREM TypeCorrect == Spec => []TypeOK
<1>1. IInv => TypeOK
  BY DEF IInv, Typed
<1> QED  BY <1>1, Invariance, PTL

\* However many candidates there are and whatever they answer, the attempt log
\* and the breaker get at most one row and one verdict per attempt, in order.
THEOREM OneRowPerAttempt == Spec => []EachAttemptOnce
<1>1. IInv => EachAttemptOnce
  BY DEF IInv, EachAttemptOnce, Numbered
<1> QED  BY <1>1, Invariance, PTL

\* Only an attempt logged as a success is a good one for the breaker, which hears
\* of it before the request log is written, wherever the client interrupts.
THEOREM SameStory == Spec => []LogAgreesWithBreaker
<1>1. IInv => LogAgreesWithBreaker
  BY DEF IInv
<1> QED  BY <1>1, Invariance, PTL

\* Only the key whose response the client has got to its end is credited, and only
\* a credited key is made the sticky one.
THEOREM CreditIsServed == Spec => []SuccessIsServed
<1>1. IInv => SuccessIsServed
  BY DEF IInv
<1> QED  BY <1>1, Invariance, PTL

\* A client is told of a failure only after every candidate has left a trace.
THEOREM FailureIsFinal == Spec => []FailureMeansAllTried
<1>1. IInv => FailureMeansAllTried
  BY DEF IInv
<1> QED  BY <1>1, Invariance, PTL

\* N * MaxAttempts attempts and twice as many requests are the most one client
\* request can cause.
THEOREM WorkIsBounded == Spec => []BoundedWork
<1>1. IInv => BoundedWork
  BY DEF IInv, Work, BoundedWork
<1> QED  BY <1>1, Invariance, PTL

\* Nothing is sent upstream once the client has been given anything.
THEOREM NoRetryAfterReply == Spec => NothingAfterReply
<1>1. IInv /\ [Next]_vars => [reply # "none" => UNCHANGED <<cand, try, order, sends, reply>>]_vars
  <2> SUFFICES ASSUME IInv, Next, reply # "none"
               PROVE  UNCHANGED <<cand, try, order, sends, reply>>
    BY DEF vars
  <2>1. at \in {"stream", "blame", "credit", "stick", "done"}
    BY DEF IInv, Answered
  <2>2. Generator
    BY <2>1, NotDone DEF Next, Walk, PrepareEscapes, PrepareRaises, Prepared, Reserved,
       RateLimited, SendRaises, SendEscapes, SendReturns, RefreshEscapes, RefreshRaises,
       Refreshed, ResendRaises, ResendEscapes, Resent, FailedStatus, BodyEscapes,
       SemanticFailure, Succeeds, StreamOpens
  <2> QED  BY <2>2 DEF Generator, StreamCompletes, StreamFails, ClientLeaves,
       ClientLeavesFailedStream, EndsAt, StreamUnrecorded, StreamCredited, StreamSticks,
       StreamBlamed, FinallyInterrupted, FinallyGoesTo
<1> QED  BY <1>1, Invariance, PTL DEF Spec, NothingAfterReply
=============================================================================
