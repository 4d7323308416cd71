--------------------------- MODULE AgentTransport ---------------------------
(***************************************************************************)
(* The reverse channel between the factory and one remote agent:           *)
(*   - AgentManager (services/agent_transport.py): the table of            *)
(*     connections by agent name, the pending futures and streams of each  *)
(*     connection, send_request, handle_message, unregister, shutdown;     *)
(*   - the websocket endpoint agent_ws (route_modules/agent_handlers.py);  *)
(*   - the agent's own loop (services/agent_client.py) and its request     *)
(*     worker (services/agent_worker.py).                                  *)
(*                                                                         *)
(* Names are independent of each other in AgentManager, so one agent name  *)
(* is modelled; Channels are the websockets that agent opens in turn.  A   *)
(* step is what asyncio runs between two awaits.                           *)
(***************************************************************************)
EXTENDS Naturals, Sequences

CONSTANTS
    Channels,       \* websockets the agent may open, each used once
    Plain,          \* requests sent with AgentRequest.stream = False
    Streams,        \* requests sent with AgentRequest.stream = True
    None,           \* no connection, no job
    MaxChunks       \* bound: chunks an upstream sends in one stream

Requests == Plain \cup Streams

ASSUME DistinctKinds == Plain \cap Streams = {}
ASSUME NoneIsFresh == None \notin Channels \cup Requests
ASSUME MaxChunksIsNat == MaxChunks \in Nat

VARIABLES
    \* ---- factory: AgentManager
    current,        \* _connections.get(name)
    pending,        \* pending[c]: keys of AgentConnection.pending
    \* ---- factory: one agent_ws coroutine per websocket
    handler,
    \* ---- factory: one send_request call per request, and its reader
    call,           \* progress of send_request
    conn,           \* the AgentConnection the call captured
    signal,         \* state of the future, or of AgentStream._started
    refused,        \* the status code stored is an error status
    queue,          \* AgentStream._queue
    reader,         \* the coroutine iterating the stream
    got,            \* chunks the reader has yielded
    \* ---- the wire and the agent process
    link,           \* the websocket as the agent's side sees it
    down, up,       \* frames in flight, per direction
    job,            \* request the agent's loop is serving on the channel
    sent,           \* stream chunks the agent has sent for a request
    source,         \* what the agent has made of a request
    running,        \* the agent process has not been told to stop
    \* ---- admin
    deletion,       \* progress of DELETE /admin/agents/{id}
    \* ---- history
    cut             \* streams AgentManager.shutdown ended

manager == <<current, pending>>
calls   == <<call, conn, signal, refused>>
streams == <<queue, reader, got>>
wire    == <<link, down, up>>
agent   == <<job, sent, source, running>>
vars    == <<current, pending, handler, call, conn, signal, refused, queue,
             reader, got, link, down, up, job, sent, source, running,
             deletion, cut>>

-----------------------------------------------------------------------------
(* Frames, queue items and the states of the parts.                        *)

Chunk(i) == [kind |-> "chunk", index |-> i]
EOF      == [kind |-> "eof",   index |-> 0]      \* None in the queue
Failure  == [kind |-> "error", index |-> 0]      \* an AgentStreamError
Items    == {Chunk(i) : i \in 1..MaxChunks} \cup {EOF, Failure}

\* Frames agent -> factory.  "start" and "refuse" are both proxy_response: the
\* second carries an error status.
Frame(type, r, i) == [type |-> type, req |-> r, index |-> i]
Register          == Frame("register", None, 0)
UpFrames ==
    {Register}
    \cup {Frame(t, r, 0) : t \in {"start", "refuse", "end", "error"}, r \in Requests}
    \cup {Frame("chunk", r, i) : r \in Requests, i \in 1..MaxChunks}

Shutdown   == "shutdown"
DownFrames == Requests \cup {Shutdown}

HandlerStates == {"unused", "accepted", "registered", "closed"}
LinkStates    == {"unused", "up", "lost"}
CallStates    == {"idle", "sending", "waiting", "returned", "unavailable",
                  "cancelled", "raised"}
SignalStates  == {"none", "set", "exception", "cancelled"}
ReaderStates  == {"none", "reading", "complete", "failed", "abandoned"}
SourceStates  == {"none", "open", "ended", "failed", "answered"}

TypeOK ==
    /\ current \in Channels \cup {None}
    /\ pending \in [Channels -> SUBSET Requests]
    /\ handler \in [Channels -> HandlerStates]
    /\ call \in [Requests -> CallStates]
    /\ conn \in [Requests -> Channels \cup {None}]
    /\ signal \in [Requests -> SignalStates]
    /\ refused \in [Requests -> BOOLEAN]
    /\ queue \in [Requests -> Seq(Items)]
    /\ reader \in [Requests -> ReaderStates]
    /\ got \in [Requests -> Seq(1..MaxChunks)]
    /\ link \in [Channels -> LinkStates]
    /\ down \in [Channels -> Seq(DownFrames)]
    /\ up \in [Channels -> Seq(UpFrames)]
    /\ job \in [Channels -> Requests \cup {None}]
    /\ sent \in [Requests -> 0..MaxChunks]
    /\ source \in [Requests -> SourceStates]
    /\ running \in BOOLEAN
    /\ deletion \in {"no", "signalled", "committed"}
    /\ cut \in SUBSET Streams

Init ==
    /\ current = None
    /\ pending = [c \in Channels |-> {}]
    /\ handler = [c \in Channels |-> "unused"]
    /\ call = [r \in Requests |-> "idle"]
    /\ conn = [r \in Requests |-> None]
    /\ signal = [r \in Requests |-> "none"]
    /\ refused = [r \in Requests |-> FALSE]
    /\ queue = [r \in Requests |-> <<>>]
    /\ reader = [r \in Requests |-> "none"]
    /\ got = [r \in Requests |-> <<>>]
    /\ link = [c \in Channels |-> "unused"]
    /\ down = [c \in Channels |-> <<>>]
    /\ up = [c \in Channels |-> <<>>]
    /\ job = [c \in Channels |-> None]
    /\ sent = [r \in Requests |-> 0]
    /\ source = [r \in Requests |-> "none"]
    /\ running = TRUE
    /\ deletion = "no"
    /\ cut = {}

-----------------------------------------------------------------------------
(* AgentManager.                                                           *)

\* Mutant: nobody pops the entry.
ForgetNothing(r) == pending

\* connection.pending.pop(request_id) on the connection the call captured.
Forget(r) == [c \in Channels |-> IF c = conn[r] THEN pending[c] \ {r} ELSE pending[c]]

\* Mutants of Unregister: the name stays bound; streams end as if they were whole.
UnregisterKeepsName ==
    IF current = None
    THEN UNCHANGED <<current, pending, signal, queue>>
    ELSE /\ pending' = [pending EXCEPT ![current] = {}]
         /\ UNCHANGED <<current, signal, queue>>

UnregisterEndsCleanly ==
    IF current = None
    THEN UNCHANGED <<current, pending, signal, queue>>
    ELSE /\ current' = None
         /\ pending' = [pending EXCEPT ![current] = {}]
         /\ queue' = [r \in Requests |->
                IF r \in pending[current] \cap Streams
                THEN Append(queue[r], EOF) ELSE queue[r]]
         /\ UNCHANGED signal

\* unregister(name): fails what is pending on the connection the name has NOW.
Unregister ==
    IF current = None
    THEN UNCHANGED <<current, pending, signal, queue>>
    ELSE /\ current' = None
         /\ pending' = [pending EXCEPT ![current] = {}]
         /\ signal' = [r \in Requests |->
                IF r \in pending[current] \cap Plain /\ signal[r] = "none"
                THEN "exception" ELSE signal[r]]
         /\ queue' = [r \in Requests |->
                IF r \in pending[current] \cap Streams
                THEN Append(queue[r], Failure) ELSE queue[r]]

\* shutdown(name), then channel.close(): streams end like a clean end of stream,
\* futures are cancelled, the agent is told to stop.
ShutdownConnection ==
    /\ current' = None
    /\ IF current = None
       THEN UNCHANGED <<pending, signal, queue, down, cut>>
       ELSE /\ pending' = [pending EXCEPT ![current] = {}]
            /\ signal' = [r \in Requests |->
                   IF r \in pending[current] \cap Plain /\ signal[r] = "none"
                   THEN "cancelled" ELSE signal[r]]
            /\ queue' = [r \in Requests |->
                   IF r \in pending[current] \cap Streams
                   THEN Append(queue[r], EOF) ELSE queue[r]]
            /\ cut' = cut \cup (pending[current] \cap Streams)
            /\ down' = IF link[current] = "up"
                       THEN [down EXCEPT ![current] = Append(@, Shutdown)]
                       ELSE down

\* send_request: look the connection up, record the call as pending on it and
\* write the frame; the coroutine then waits for the transport to drain.
Call(r) ==
    /\ call[r] = "idle"
    /\ IF current = None
       THEN /\ call' = [call EXCEPT ![r] = "unavailable"]
            /\ UNCHANGED <<conn, pending, down>>
       ELSE /\ call' = [call EXCEPT ![r] = "sending"]
            /\ conn' = [conn EXCEPT ![r] = current]
            /\ pending' = [pending EXCEPT ![current] = @ \cup {r}]
            /\ down' = IF link[current] = "up"
                       THEN [down EXCEPT ![current] = Append(@, r)]
                       ELSE down
    /\ UNCHANGED <<current, handler, signal, refused, streams, link, up, agent,
                   deletion, cut>>

SendReturns(r) ==
    /\ call[r] = "sending"
    /\ call' = [call EXCEPT ![r] = "waiting"]
    /\ UNCHANGED <<manager, handler, conn, signal, refused, streams, wire, agent,
                   deletion, cut>>

\* What the except clauses of send_request do.
GiveUp(r) ==
    /\ pending' = Forget(r)
    /\ IF r \in Streams
       THEN queue' = [queue EXCEPT ![r] = Append(@, EOF)] /\ UNCHANGED signal
       ELSE /\ signal' = [signal EXCEPT ![r] = IF @ = "none" THEN "cancelled" ELSE @]
            /\ UNCHANGED queue
    /\ UNCHANGED <<current, handler, conn, refused, reader, got, wire, agent,
                   deletion, cut>>

\* The websocket turns out to be dead: the exception of send() is not an
\* AgentUnavailableError and leaves send_request as it is.
SendRaises(r) ==
    /\ call[r] = "sending"
    /\ link[conn[r]] = "lost"
    /\ call' = [call EXCEPT ![r] = "raised"]
    /\ GiveUp(r)

\* wait_for returns, or raises what the future holds.  A cancelled future is a
\* CancelledError, which "except Exception" does not catch.
Wake(r) ==
    /\ call[r] = "waiting"
    /\ signal[r] # "none"
    /\ call' = [call EXCEPT ![r] =
           CASE signal[r] = "set"       -> "returned"
             [] signal[r] = "exception" -> "unavailable"
             [] signal[r] = "cancelled" -> "cancelled"]
    /\ reader' = IF r \in Streams THEN [reader EXCEPT ![r] = "reading"] ELSE reader
    /\ pending' = IF signal[r] = "exception" THEN Forget(r) ELSE pending
    /\ UNCHANGED <<current, handler, conn, signal, refused, queue, got, wire,
                   agent, deletion, cut>>

\* Mutants of Timeout: the entry stays, or only a future is waited for with a timer.
TimeoutKeepsEntry(r) ==
    /\ call[r] = "waiting"
    /\ call' = [call EXCEPT ![r] = "unavailable"]
    /\ UNCHANGED <<manager, handler, conn, signal, refused, streams, wire, agent,
                   deletion, cut>>

TimeoutNotForStreams(r) ==
    /\ r \in Plain
    /\ call[r] = "waiting"
    /\ call' = [call EXCEPT ![r] = "unavailable"]
    /\ GiveUp(r)

\* The timer of wait_for fires.  When the answer has been set but the coroutine
\* has not run yet, Python 3.12 and later drop the answer, 3.11 returns it: both
\* happen here (Wake is enabled too).
Timeout(r) ==
    /\ call[r] = "waiting"
    /\ call' = [call EXCEPT ![r] = "unavailable"]
    /\ GiveUp(r)

-----------------------------------------------------------------------------
(* AgentStream.iter_bytes, driven by the proxy's streaming response.       *)

\* queue.get() returns: a chunk is yielded, None and an error end the iteration.
ReadItem(r) ==
    /\ reader[r] = "reading"
    /\ queue[r] # <<>>
    /\ queue' = [queue EXCEPT ![r] = Tail(@)]
    /\ LET item == Head(queue[r]) IN
       /\ got' = IF item.kind = "chunk"
                 THEN [got EXCEPT ![r] = Append(@, item.index)] ELSE got
       /\ reader' = CASE item.kind = "chunk" -> reader
                      [] item.kind = "eof"   -> [reader EXCEPT ![r] = "complete"]
                      [] item.kind = "error" -> [reader EXCEPT ![r] = "failed"]
    /\ UNCHANGED <<manager, handler, calls, wire, agent, deletion, cut>>

\* Mutant: no idle timer.
IdleTimeoutOff(r) == FALSE

\* The queue stays empty for the whole idle timeout.
IdleTimeout(r) ==
    /\ reader[r] = "reading"
    /\ queue[r] = <<>>
    /\ reader' = [reader EXCEPT ![r] = "failed"]
    /\ pending' = Forget(r)
    /\ UNCHANGED <<current, handler, calls, queue, got, wire, agent, deletion, cut>>

\* Nobody reads on: the downstream client hangs up, or the stream is an upstream's
\* 401, which the retry with a fresh OAuth token drops unread.  The other streams
\* with an error status are read in full.
Abandon(r) ==
    /\ reader[r] = "reading"
    /\ refused[r] => source[r] # "answered"
    /\ reader' = [reader EXCEPT ![r] = "abandoned"]
    /\ UNCHANGED <<manager, handler, calls, queue, got, wire, agent, deletion, cut>>

-----------------------------------------------------------------------------
(* agent_ws: one coroutine per websocket.                                  *)

ReceiveRegister(c) ==
    /\ handler[c] = "accepted"
    /\ up[c] # <<>>
    /\ up' = [up EXCEPT ![c] = Tail(@)]
    /\ IF deletion = "committed"
       THEN /\ handler' = [handler EXCEPT ![c] = "closed"]      \* unauthorized
            /\ link' = [link EXCEPT ![c] = "lost"]
            /\ UNCHANGED current
       ELSE /\ handler' = [handler EXCEPT ![c] = "registered"]
            /\ current' = c
            /\ UNCHANGED link
    /\ UNCHANGED <<pending, calls, streams, down, agent, deletion, cut>>

\* The entry handle_message finds: on the connection the name has now, which
\* need not be the one the frame arrived on.
Entry(r) == current # None /\ r \in pending[current]

\* Mutant: the entry of a stream outlives its last frame.
EndStreamKeepsEntry(r, item) ==
    /\ queue' = [queue EXCEPT ![r] = Append(@, item)]
    /\ UNCHANGED pending

\* proxy_stream_end and proxy_stream_error.
EndStream(r, item) ==
    /\ queue' = [queue EXCEPT ![r] = Append(@, item)]
    /\ pending' = [pending EXCEPT ![current] = @ \ {r}]

\* handle_message.
ReceiveFrame(c) ==
    /\ handler[c] = "registered"
    /\ up[c] # <<>>
    /\ up' = [up EXCEPT ![c] = Tail(@)]
    /\ LET m == Head(up[c])  r == m.req IN
       \/ /\ ~Entry(r)
          /\ UNCHANGED <<pending, signal, refused, queue>>
       \/ /\ Entry(r) /\ m.type \in {"start", "refuse"}
          /\ signal' = [signal EXCEPT ![r] = IF @ = "none" THEN "set" ELSE @]
          /\ refused' = [refused EXCEPT ![r] = (m.type = "refuse")]
          /\ pending' = IF r \in Plain
                        THEN [pending EXCEPT ![current] = @ \ {r}] ELSE pending
          /\ UNCHANGED queue
       \/ /\ Entry(r) /\ m.type = "chunk"
          /\ queue' = [queue EXCEPT ![r] = Append(@, Chunk(m.index))]
          /\ UNCHANGED <<pending, signal, refused>>
       \/ /\ Entry(r) /\ m.type \in {"end", "error"}
          /\ EndStream(r, IF m.type = "end" THEN EOF ELSE Failure)
          /\ UNCHANGED <<signal, refused>>
    /\ UNCHANGED <<current, handler, call, conn, reader, got, link, down, agent,
                   deletion, cut>>

\* WebSocketDisconnect, once the frames received before it are consumed.
Disconnect(c) ==
    /\ link[c] = "lost"
    /\ up[c] = <<>>
    /\ handler[c] \in {"accepted", "registered"}
    /\ handler' = [handler EXCEPT ![c] = "closed"]
    /\ IF handler[c] = "registered"
       THEN Unregister
       ELSE UNCHANGED <<current, pending, signal, queue>>
    /\ UNCHANGED <<call, conn, refused, reader, got, wire, agent, deletion, cut>>

\* admin_delete_agent: shutdown first, the row is deleted and committed later.
DeleteSignals ==
    /\ deletion = "no"
    /\ deletion' = "signalled"
    /\ ShutdownConnection
    /\ UNCHANGED <<handler, call, conn, refused, reader, got, link, up, agent>>

DeleteCommits ==
    /\ deletion = "signalled"
    /\ deletion' = "committed"
    /\ UNCHANGED <<manager, handler, calls, streams, wire, agent, cut>>

-----------------------------------------------------------------------------
(* AgentClient.run and handle_proxy_request.  The client has one websocket  *)
(* at a time and serves one request after the other.                        *)

AgentConnects(c) ==
    /\ running
    /\ link[c] = "unused"
    /\ \A d \in Channels : link[d] # "up"
    /\ link' = [link EXCEPT ![c] = "up"]
    /\ up' = [up EXCEPT ![c] = <<Register>>]
    /\ handler' = [handler EXCEPT ![c] = "accepted"]
    /\ UNCHANGED <<manager, calls, streams, down, agent, deletion, cut>>

AgentTakes(c) ==
    /\ link[c] = "up"
    /\ job[c] = None
    /\ down[c] # <<>>
    /\ down' = [down EXCEPT ![c] = Tail(@)]
    /\ IF Head(down[c]) = Shutdown
       THEN /\ running' = FALSE
            /\ link' = [link EXCEPT ![c] = "lost"]
            /\ UNCHANGED job
       ELSE /\ job' = [job EXCEPT ![c] = Head(down[c])]
            /\ UNCHANGED <<running, link>>
    /\ UNCHANGED <<manager, handler, calls, streams, up, sent, source, deletion, cut>>

Emit(c, frames) == up' = [up EXCEPT ![c] = @ \o frames]

\* One proxy_response and nothing after it: the answer of a plain request, or
\* _send_error (400, 403), which does not end the stream it refuses.
AgentAnswers(c) ==
    LET r == job[c] IN
    /\ r # None
    /\ source[r] = "none"
    /\ \/ r \in Plain /\ Emit(c, <<Frame("start", r, 0)>>)
       \/ Emit(c, <<Frame("refuse", r, 0)>>)
    /\ source' = [source EXCEPT ![r] = "answered"]
    /\ job' = [job EXCEPT ![c] = None]
    /\ UNCHANGED <<manager, handler, calls, streams, link, down, sent, running,
                   deletion, cut>>

AgentStarts(c) ==
    LET r == job[c] IN
    /\ r \in Streams
    /\ source[r] = "none"
    /\ \E type \in {"start", "refuse"} : Emit(c, <<Frame(type, r, 0)>>)
    /\ source' = [source EXCEPT ![r] = "open"]
    /\ UNCHANGED <<manager, handler, calls, streams, link, down, job, sent, running,
                   deletion, cut>>

AgentSendsChunk(c) ==
    LET r == job[c] IN
    /\ r \in Streams
    /\ source[r] = "open"
    /\ sent[r] < MaxChunks
    /\ sent' = [sent EXCEPT ![r] = @ + 1]
    /\ Emit(c, <<Frame("chunk", r, sent[r] + 1)>>)
    /\ UNCHANGED <<manager, handler, calls, streams, link, down, job, source,
                   running, deletion, cut>>

\* The upstream stream ends; or an HTTPError interrupts it, in which case a
\* response that has not started is answered with 502 first.
AgentEnds(c) ==
    LET r == job[c] IN
    /\ r \in Streams
    /\ \/ /\ source[r] = "open"
          /\ Emit(c, <<Frame("end", r, 0)>>)
          /\ source' = [source EXCEPT ![r] = "ended"]
       \/ /\ source[r] = "open"
          /\ Emit(c, <<Frame("error", r, 0)>>)
          /\ source' = [source EXCEPT ![r] = "failed"]
       \/ /\ source[r] = "none"
          /\ Emit(c, <<Frame("refuse", r, 0), Frame("error", r, 0)>>)
          /\ source' = [source EXCEPT ![r] = "answered"]
    /\ job' = [job EXCEPT ![c] = None]
    /\ UNCHANGED <<manager, handler, calls, streams, link, down, sent, running,
                   deletion, cut>>

AgentWorks(c) ==
    \/ AgentTakes(c) \/ AgentAnswers(c) \/ AgentStarts(c)
    \/ AgentSendsChunk(c) \/ AgentEnds(c)

\* The network path dies, the agent process crashes, or an exception leaves its
\* loop: the request it was serving is lost, and so is any suffix of the frames
\* on the way.  The factory learns of it later, in Disconnect.
LinkLost(c) ==
    /\ link[c] = "up"
    /\ link' = [link EXCEPT ![c] = "lost"]
    /\ \E n \in 0..Len(up[c]) : up' = [up EXCEPT ![c] = SubSeq(@, 1, n)]
    /\ down' = [down EXCEPT ![c] = <<>>]
    /\ job' = [job EXCEPT ![c] = None]
    /\ UNCHANGED <<manager, handler, calls, streams, sent, source, running,
                   deletion, cut>>

-----------------------------------------------------------------------------

CallStep(r)    == Call(r) \/ SendReturns(r) \/ SendRaises(r) \/ Wake(r) \/ Timeout(r)
ReaderStep(r)  == ReadItem(r) \/ IdleTimeout(r) \/ Abandon(r)
ServerStep(c)  == ReceiveRegister(c) \/ ReceiveFrame(c) \/ Disconnect(c)
AgentStep(c)   == AgentConnects(c) \/ AgentWorks(c) \/ LinkLost(c)

Next ==
    \/ \E r \in Requests : CallStep(r)
    \/ \E r \in Streams : ReaderStep(r)
    \/ \E c \in Channels : ServerStep(c) \/ AgentStep(c)
    \/ DeleteSignals
    \/ DeleteCommits

Spec == Init /\ [][Next]_vars

(* The event loop runs what is ready and fires its timers; a dead websocket  *)
(* is found by keepalive pings.                                             *)
FactoryFairness ==
    /\ \A r \in Requests : /\ WF_vars(SendReturns(r) \/ SendRaises(r))
                           /\ WF_vars(Wake(r) \/ Timeout(r))
    /\ \A r \in Streams : WF_vars(ReadItem(r) \/ IdleTimeout(r))
    /\ \A c \in Channels : WF_vars(ServerStep(c))

(* The agent's HTTP client bounds every wait on an upstream.                *)
AgentFairness == \A c \in Channels : WF_vars(AgentWorks(c))

FairSpec == Spec /\ FactoryFairness

-----------------------------------------------------------------------------
(* Properties.                                                             *)

Settled == {"returned", "unavailable", "cancelled", "raised"}

\* No connection keeps an entry for a call that is over: whatever the race of
\* answer, timeout, disconnect, deletion and re-registration, send_request,
\* handle_message, unregister, shutdown and the idle timeout leave only the
\* streams that nobody reads on in AgentConnection.pending.
SettledIsForgotten ==
    \A c \in Channels : \A r \in pending[c] :
        /\ r \in Plain => call[r] \notin Settled
        /\ r \in Streams => \/ call[r] \notin Settled
                            \/ reader[r] \in {"reading", "abandoned"}

\* The name is bound to a connection only while that connection's websocket is
\* served: a send never goes to a socket whose coroutine has returned.
BoundMeansServed == current # None => handler[current] = "registered"

\* An answer that arrives after send_request gave up on it (timeout, dead
\* socket, disconnect) changes nothing of that call any more.
LateAnswerIsDropped ==
    [][\A r \in Requests :
          call[r] \in {"unavailable", "raised", "cancelled"}
          => UNCHANGED <<call[r], signal[r], queue[r], reader[r]>>]_vars

\* A stream is reported complete only when the agent ended it and every chunk
\* it sent was yielded, in order.  Deleting the agent is no exception.
CompleteMeansWhole ==
    \A r \in Streams : reader[r] = "complete" =>
        /\ source[r] = "ended"
        /\ got[r] = [i \in 1..sent[r] |-> i]

\* A websocket that is gone leaves nothing pending on its connection.
DisconnectFailsItsPending ==
    \A c \in Channels : handler[c] = "closed" => pending[c] = {}

\* What the caller knows of a request, and the chunks a reader was given.
StateOf(r) ==
    CASE call[r] = "idle"                                 -> "idle"
      [] call[r] \in {"sending", "waiting"}               -> "open"
      [] call[r] = "returned" /\ r \in Plain              -> "answered"
      [] call[r] = "returned" /\ r \in Streams /\ reader[r] = "reading"  -> "streaming"
      [] call[r] = "returned" /\ r \in Streams /\ reader[r] = "complete" -> "complete"
      [] OTHER                                            -> "failed"

CallerState == [r \in Requests |-> StateOf(r)]
ReaderGiven == [r \in Streams |-> got[r]]

\* The calls and streams implement AgentCallContract.
Contract == INSTANCE AgentCallContract WITH
    state <- CallerState, given <- ReaderGiven, produced <- sent
ImplementsContract == Contract!Spec

\* Whatever the agent and the network do, a call returns or raises, and a
\* stream handed to a reader comes to an end.
EveryCallSettles ==
    \A r \in Requests : call[r] = "sending" ~> call[r] \in Settled
EveryStreamEnds ==
    \A r \in Streams : reader[r] = "reading" ~> reader[r] # "reading"

\* The entry of a stream whose client hung up goes away, with the end of the
\* upstream's stream or with the connection, if the agent keeps working.
AbandonedStreamsDrain == AgentFairness =>
    \A r \in Streams :
        reader[r] = "abandoned" ~> current = None \/ r \notin pending[current]
=============================================================================
