------------------------ MODULE AgentTransport_proofs ------------------------
(***************************************************************************)
(* Proofs about AgentTransport, for any number of websockets, requests and *)
(* chunks: type correctness, BoundMeansServed, SettledIsForgotten and      *)
(* LateAnswerIsDropped from one inductive invariant, and from two more the *)
(* refinement: AgentTransport implements AgentCallContract.                *)
(***************************************************************************)
EXTENDS AgentTransport, SequenceTheorems, TLAPS

(***************************************************************************)
(* The invariant.  An entry is pending only on the connection its call     *)
(* captured and only while somebody waits for it; a future that is still   *)
(* pending has not been set; and a stream whose last item has been queued  *)
(* is no longer pending, so that its reader leaves nothing behind.         *)
(***************************************************************************)
OwnedEntries ==
    \A c \in Channels : \A r \in pending[c] :
        /\ conn[r] = c
        /\ r \in Plain => call[r] \in {"sending", "waiting"} /\ signal[r] = "none"
        /\ r \in Streams => \/ call[r] \in {"sending", "waiting"}
                            \/ call[r] = "returned" /\ reader[r] \in {"reading", "abandoned"}

IdleCalls ==
    \A r \in Requests : call[r] = "idle" => queue[r] = <<>> /\ signal[r] = "none"

ConnectedCalls ==
    \A r \in Requests : call[r] \in {"sending", "waiting", "returned"} => conn[r] \in Channels

Ended(q) == \E i \in 1..Len(q) : q[i].kind # "chunk"

EndedStreams ==
    \A r \in Streams : Ended(queue[r]) => \A c \in Channels : r \notin pending[c]

UnusedChannels ==
    \A c \in Channels : link[c] = "unused" => handler[c] = "unused"

StreamSignals ==
    \A r \in Streams : signal[r] \in {"none", "set"}

Readers ==
    \A r \in Requests : reader[r] # "none" => r \in Streams /\ call[r] = "returned"

IInv ==
    /\ TypeOK
    /\ BoundMeansServed
    /\ OwnedEntries
    /\ IdleCalls
    /\ ConnectedCalls
    /\ EndedStreams
    /\ StreamSignals
    /\ Readers
    /\ UnusedChannels

-----------------------------------------------------------------------------

LEMMA ItemTypes ==
  /\ EOF \in Items
  /\ Failure \in Items
  /\ \A i \in 1..MaxChunks : Chunk(i) \in Items
  BY DEF Items

LEMMA FrameTypes ==
  /\ Register \in UpFrames
  /\ \A r \in Requests : \A t \in {"start", "refuse", "end", "error"} :
        Frame(t, r, 0) \in UpFrames
  /\ \A r \in Requests : \A i \in 1..MaxChunks : Frame("chunk", r, i) \in UpFrames
  BY DEF UpFrames

\* What a frame is made of.
LEMMA FrameFields ==
  ASSUME NEW m \in UpFrames
  PROVE  /\ m.type \in {"register", "start", "refuse", "end", "error", "chunk"}
         /\ m.req \in Requests \cup {None}
         /\ m.type = "chunk" => m.index \in 1..MaxChunks
  BY DEF UpFrames, Frame, Register

LEMMA ItemFields ==
  ASSUME NEW i \in Items
  PROVE  /\ i.kind \in {"chunk", "eof", "error"}
         /\ i.kind = "chunk" => i.index \in 1..MaxChunks
  BY DEF Items, Chunk, EOF, Failure

LEMMA ForgetType ==
  ASSUME NEW r, pending \in [Channels -> SUBSET Requests]
  PROVE  Forget(r) \in [Channels -> SUBSET Requests]
  BY DEF Forget

LEMMA InitIInv == Init => IInv
<1> SUFFICES ASSUME Init PROVE IInv
  OBVIOUS
<1>1. TypeOK
  BY MaxChunksIsNat
  DEF Init, TypeOK, HandlerStates, LinkStates, CallStates, SignalStates,
      ReaderStates, SourceStates
<1>2. OwnedEntries /\ IdleCalls /\ ConnectedCalls /\ EndedStreams
  BY DEF Init, OwnedEntries, IdleCalls, ConnectedCalls, EndedStreams
<1>3. BoundMeansServed /\ StreamSignals /\ Readers /\ UnusedChannels
  BY DEF Init, BoundMeansServed, StreamSignals, Readers, UnusedChannels, Requests
<1> QED  BY <1>1, <1>2, <1>3 DEF IInv

-----------------------------------------------------------------------------
(* Type correctness.                                                       *)

LEMMA CallType ==
  ASSUME TypeOK, NEW r \in Requests, CallStep(r)
  PROVE  TypeOK'
<1>q. /\ queue \in [Requests -> Seq(Items)]
      /\ pending \in [Channels -> SUBSET Requests]
  BY DEF TypeOK
<1>1. CASE Call(r)
  <2>1. current # None => Append(down[current], r) \in Seq(DownFrames)
    BY DEF TypeOK, DownFrames
  <2>2. CASE current = None
    BY <1>1, <2>2 DEF TypeOK, Call, streams, agent, CallStates
  <2>3. CASE current # None
    <3>1. down' \in [Channels -> Seq(DownFrames)]
      BY <1>1, <2>1, <2>3 DEF TypeOK, Call
    <3>2. /\ call' \in [Requests -> CallStates]
          /\ conn' \in [Requests -> Channels \cup {None}]
      BY <1>1, <2>3 DEF TypeOK, Call, CallStates
    <3>3. pending' \in [Channels -> SUBSET Requests]
      <4>1. pending' = [pending EXCEPT ![current] = @ \cup {r}]
        BY <1>1, <2>3 DEF TypeOK, Call
      <4> QED  BY <4>1, <1>q
    <3> QED  BY <1>1, <3>1, <3>2, <3>3 DEF TypeOK, Call, streams, agent
  <2> QED  BY <2>2, <2>3
<1>2. CASE SendReturns(r)
  BY <1>2 DEF TypeOK, SendReturns, manager, streams, wire, agent, CallStates
<1>3. CASE SendRaises(r) \/ Timeout(r)
  <2>1. EOF \in Items
    BY ItemTypes
  <2>2. call' \in [Requests -> CallStates] /\ signal' \in [Requests -> SignalStates]
    <3>1. /\ call \in [Requests -> CallStates] /\ signal \in [Requests -> SignalStates]
          /\ {"raised", "unavailable"} \subseteq CallStates /\ "cancelled" \in SignalStates
      BY DEF TypeOK, CallStates, SignalStates
    <3>2. call' = [call EXCEPT ![r] = "raised"] \/ call' = [call EXCEPT ![r] = "unavailable"]
      BY <1>3 DEF SendRaises, Timeout
    <3>3. \/ signal' = signal
          \/ signal' = [signal EXCEPT ![r] = IF @ = "none" THEN "cancelled" ELSE @]
      BY <1>3 DEF SendRaises, Timeout, GiveUp
    <3>4. call' \in [Requests -> CallStates]
      BY <3>1, <3>2
    <3>5. signal' \in [Requests -> SignalStates]
      BY <3>1, <3>3
    <3> QED  BY <3>4, <3>5
  <2>3. pending' \in [Channels -> SUBSET Requests]
    <3>1. pending' = Forget(r)
      BY <1>3 DEF SendRaises, Timeout, GiveUp
    <3> QED  BY <3>1, <1>q, ForgetType
  <2>4. queue' \in [Requests -> Seq(Items)]
    <3>1. queue' = queue \/ queue' = [queue EXCEPT ![r] = Append(@, EOF)]
      BY <1>3 DEF TypeOK, SendRaises, Timeout, GiveUp
    <3>2. CASE queue' = [queue EXCEPT ![r] = Append(@, EOF)]
      BY <2>1, <3>2, <1>q
    <3> QED  BY <3>1, <3>2, <1>q
  <2> QED  BY <1>3, <2>2, <2>3, <2>4 DEF TypeOK, SendRaises, Timeout, GiveUp, wire, agent
<1>4. CASE Wake(r)
  BY <1>4 DEF TypeOK, Wake, Forget, wire, agent, CallStates, SignalStates, ReaderStates
<1> QED  BY <1>1, <1>2, <1>3, <1>4 DEF CallStep

LEMMA ReaderType ==
  ASSUME TypeOK, NEW r \in Streams, ReaderStep(r)
  PROVE  TypeOK'
<1>q. /\ queue \in [Requests -> Seq(Items)]
      /\ pending \in [Channels -> SUBSET Requests]
  BY DEF TypeOK
<1> USE DEF Requests
<1>1. CASE ReadItem(r)
  <2>1. Head(queue[r]) \in Items /\ Tail(queue[r]) \in Seq(Items)
    BY <1>1 DEF TypeOK, ReadItem
  <2>2. got' \in [Requests -> Seq(1..MaxChunks)]
    BY <1>1, <2>1, ItemFields DEF TypeOK, ReadItem
  <2>3. reader' \in [Requests -> ReaderStates]
    BY <1>1, <2>1, ItemFields DEF TypeOK, ReadItem, ReaderStates
  <2> QED  BY <1>1, <2>1, <2>2, <2>3 DEF TypeOK, ReadItem, manager, calls, wire, agent
<1>2. CASE IdleTimeout(r)
  BY <1>2 DEF TypeOK, IdleTimeout, Forget, calls, wire, agent, ReaderStates
<1>3. CASE Abandon(r)
  BY <1>3 DEF TypeOK, Abandon, manager, calls, wire, agent, ReaderStates
<1> QED  BY <1>1, <1>2, <1>3 DEF ReaderStep

LEMMA ServerType ==
  ASSUME TypeOK, NEW c \in Channels, ServerStep(c)
  PROVE  TypeOK'
<1>q. /\ queue \in [Requests -> Seq(Items)]
      /\ pending \in [Channels -> SUBSET Requests]
  BY DEF TypeOK
<1>1. CASE ReceiveRegister(c)
  <2>1. Tail(up[c]) \in Seq(UpFrames)
    BY <1>1 DEF TypeOK, ReceiveRegister
  <2> QED  BY <1>1, <2>1 DEF TypeOK, ReceiveRegister, calls, streams, agent, LinkStates, HandlerStates
<1>2. CASE ReceiveFrame(c)
  <2> DEFINE m == Head(up[c])
             r == m.req
  <2>1. m \in UpFrames /\ Tail(up[c]) \in Seq(UpFrames)
    BY <1>2 DEF TypeOK, ReceiveFrame, EndStream
  <2>2. /\ m.type \in {"register", "start", "refuse", "end", "error", "chunk"}
        /\ m.type = "chunk" => m.index \in 1..MaxChunks
    BY <2>1, FrameFields
  <2>3. up' \in [Channels -> Seq(UpFrames)]
    <3>1. up' = [up EXCEPT ![c] = Tail(@)] /\ up \in [Channels -> Seq(UpFrames)]
      BY <1>2 DEF TypeOK, ReceiveFrame
    <3> QED  BY <2>1, <3>1
  <2>4. pending' \in [Channels -> SUBSET Requests]
    <3>1. pending' = pending \/ pending' = [pending EXCEPT ![current] = @ \ {r}]
      BY <1>2 DEF ReceiveFrame, EndStream
    <3> QED  BY <1>q, <3>1
  <2>5. signal' \in [Requests -> SignalStates]
    <3>1. \/ signal' = signal
          \/ signal' = [signal EXCEPT ![r] = IF @ = "none" THEN "set" ELSE @]
      BY <1>2 DEF ReceiveFrame, EndStream
    <3> QED  BY <3>1 DEF TypeOK, SignalStates
  <2>7. refused' \in [Requests -> BOOLEAN]
    <3>1. refused' = refused \/ refused' = [refused EXCEPT ![r] = (m.type = "refuse")]
      BY <1>2 DEF TypeOK, ReceiveFrame, EndStream
    <3> QED  BY <3>1 DEF TypeOK
  <2>6. queue' \in [Requests -> Seq(Items)]
    <3>1. /\ m.type = "chunk" => Chunk(m.index) \in Items
          /\ EOF \in Items /\ Failure \in Items
      BY <2>2, ItemTypes
    <3>2. queue' = queue \/ \E i \in Items : queue' = [queue EXCEPT ![r] = Append(@, i)]
      BY <1>2, <3>1 DEF TypeOK, ReceiveFrame, EndStream
    <3>3. CASE \E i \in Items : queue' = [queue EXCEPT ![r] = Append(@, i)]
      <4>1. PICK i \in Items : queue' = [queue EXCEPT ![r] = Append(@, i)]
        BY <3>3
      <4>2. CASE r \in Requests
        BY <4>1, <4>2, <1>q
      <4>3. CASE r \notin Requests
        BY <4>1, <4>3, <1>q
      <4> QED  BY <4>2, <4>3
    <3> QED  BY <3>2, <3>3, <1>q
  <2> QED  BY <1>2, <2>3, <2>4, <2>5, <2>6, <2>7 DEF TypeOK, ReceiveFrame, EndStream, agent
<1>3. CASE Disconnect(c)
  <2>1. /\ current' \in Channels \cup {None}
        /\ pending' \in [Channels -> SUBSET Requests]
        /\ signal' \in [Requests -> SignalStates]
    BY <1>3 DEF TypeOK, Disconnect, Unregister, SignalStates
  <2>2. queue' \in [Requests -> Seq(Items)]
    <3>1. Failure \in Items
      BY ItemTypes
    <3>2. queue' = queue \/ \E S : queue' =
              [s \in Requests |-> IF s \in S THEN Append(queue[s], Failure) ELSE queue[s]]
      BY <1>3 DEF TypeOK, Disconnect, Unregister
    <3>3. ASSUME NEW S,
                 queue' = [s \in Requests |->
                              IF s \in S THEN Append(queue[s], Failure) ELSE queue[s]]
          PROVE  queue' \in [Requests -> Seq(Items)]
      BY <3>1, <3>3, <1>q
    <3> QED  BY <3>2, <3>3, <1>q
  <2> QED  BY <1>3, <2>1, <2>2 DEF TypeOK, Disconnect, wire, agent, HandlerStates
<1> QED  BY <1>1, <1>2, <1>3 DEF ServerStep

LEMMA DeleteType ==
  ASSUME TypeOK, DeleteSignals \/ DeleteCommits
  PROVE  TypeOK'
<1>q. /\ queue \in [Requests -> Seq(Items)]
      /\ pending \in [Channels -> SUBSET Requests]
  BY DEF TypeOK
<1>1. CASE DeleteSignals
  <2>1. /\ current' \in Channels \cup {None}
        /\ pending' \in [Channels -> SUBSET Requests]
        /\ signal' \in [Requests -> SignalStates]
        /\ cut' \in SUBSET Streams
    BY <1>1 DEF TypeOK, DeleteSignals, ShutdownConnection, SignalStates
  <2>2. queue' \in [Requests -> Seq(Items)]
    <3>1. EOF \in Items
      BY ItemTypes
    <3>2. queue' = queue \/ \E S : queue' =
              [s \in Requests |-> IF s \in S THEN Append(queue[s], EOF) ELSE queue[s]]
      BY <1>1 DEF TypeOK, DeleteSignals, ShutdownConnection
    <3>3. ASSUME NEW S,
                 queue' = [s \in Requests |->
                              IF s \in S THEN Append(queue[s], EOF) ELSE queue[s]]
          PROVE  queue' \in [Requests -> Seq(Items)]
      BY <3>1, <3>3, <1>q
    <3> QED  BY <3>2, <3>3, <1>q
  <2>3. down' \in [Channels -> Seq(DownFrames)]
    <3>1. current # None => Append(down[current], Shutdown) \in Seq(DownFrames)
      BY DEF TypeOK, DownFrames
    <3> QED  BY <1>1, <3>1 DEF TypeOK, DeleteSignals, ShutdownConnection
  <2> QED  BY <1>1, <2>1, <2>2, <2>3 DEF TypeOK, DeleteSignals, agent
<1>2. CASE DeleteCommits
  BY <1>2 DEF TypeOK, DeleteCommits, manager, calls, streams, wire, agent
<1> QED  BY <1>1, <1>2

LEMMA AgentType ==
  ASSUME TypeOK, NEW c \in Channels, AgentStep(c)
  PROVE  TypeOK'
<1>u. up \in [Channels -> Seq(UpFrames)] /\ down \in [Channels -> Seq(DownFrames)]
  BY DEF TypeOK
<1>e. ASSUME NEW frames \in Seq(UpFrames), Emit(c, frames)
      PROVE  up' \in [Channels -> Seq(UpFrames)]
  BY <1>u, <1>e DEF Emit
<1>1. CASE AgentConnects(c)
  <2>1. <<Register>> \in Seq(UpFrames)
    BY FrameTypes
  <2>2. up' \in [Channels -> Seq(UpFrames)]
    BY <1>1, <1>u, <2>1 DEF AgentConnects
  <2> QED  BY <1>1, <2>2 DEF TypeOK, AgentConnects, manager, calls, streams, agent,
                            LinkStates, HandlerStates
<1>2. CASE AgentTakes(c)
  <2>1. Tail(down[c]) \in Seq(DownFrames) /\ Head(down[c]) \in DownFrames
    BY <1>2, <1>u DEF AgentTakes
  <2>2. down' \in [Channels -> Seq(DownFrames)]
    BY <1>2, <1>u, <2>1 DEF AgentTakes
  <2>3. link' \in [Channels -> LinkStates] /\ job' \in [Channels -> Requests \cup {None}]
    BY <1>2, <2>1 DEF TypeOK, AgentTakes, LinkStates, DownFrames
  <2>4. running' \in BOOLEAN
    BY <1>2 DEF TypeOK, AgentTakes
  <2> QED  BY <1>2, <2>2, <2>3, <2>4 DEF TypeOK, AgentTakes, manager, calls, streams
<1>3. CASE AgentAnswers(c)
  <2>1. job[c] \in Requests
    BY <1>3 DEF TypeOK, AgentAnswers
  <2>2. \A t \in {"start", "refuse"} : <<Frame(t, job[c], 0)>> \in Seq(UpFrames)
    BY <2>1, FrameTypes
  <2>3. up' \in [Channels -> Seq(UpFrames)]
    BY <1>3, <1>e, <2>2 DEF AgentAnswers
  <2> QED  BY <1>3, <2>1, <2>3
           DEF TypeOK, AgentAnswers, manager, calls, streams, SourceStates
<1>4. CASE AgentStarts(c)
  <2>1. job[c] \in Requests
    BY <1>4 DEF TypeOK, AgentStarts, Requests
  <2>2. \A t \in {"start", "refuse"} : <<Frame(t, job[c], 0)>> \in Seq(UpFrames)
    BY <2>1, FrameTypes
  <2>3. up' \in [Channels -> Seq(UpFrames)]
    BY <1>4, <1>e, <2>2 DEF AgentStarts
  <2> QED  BY <1>4, <2>1, <2>3
           DEF TypeOK, AgentStarts, manager, calls, streams, SourceStates
<1>5. CASE AgentSendsChunk(c)
  <2>1. /\ job[c] \in Requests
        /\ sent[job[c]] + 1 \in 1..MaxChunks
    BY <1>5, MaxChunksIsNat DEF TypeOK, AgentSendsChunk, Requests
  <2>2. <<Frame("chunk", job[c], sent[job[c]] + 1)>> \in Seq(UpFrames)
    BY <2>1, FrameTypes
  <2>3. up' \in [Channels -> Seq(UpFrames)]
    BY <1>5, <1>e, <2>2 DEF AgentSendsChunk
  <2>4. sent' \in [Requests -> 0..MaxChunks]
    BY <1>5, <2>1 DEF TypeOK, AgentSendsChunk
  <2> QED  BY <1>5, <2>3, <2>4 DEF TypeOK, AgentSendsChunk, manager, calls, streams
<1>6. CASE AgentEnds(c)
  <2>1. job[c] \in Requests
    BY <1>6 DEF TypeOK, AgentEnds, Requests
  <2>2. /\ \A t \in {"end", "error"} : <<Frame(t, job[c], 0)>> \in Seq(UpFrames)
        /\ <<Frame("refuse", job[c], 0), Frame("error", job[c], 0)>> \in Seq(UpFrames)
    BY <2>1, FrameTypes
  <2>3. up' \in [Channels -> Seq(UpFrames)]
    BY <1>6, <1>e, <2>2 DEF AgentEnds
  <2>4. source' \in [Requests -> SourceStates] /\ job' \in [Channels -> Requests \cup {None}]
    <3>1. /\ \/ source' = [source EXCEPT ![job[c]] = "ended"]
             \/ source' = [source EXCEPT ![job[c]] = "failed"]
             \/ source' = [source EXCEPT ![job[c]] = "answered"]
          /\ job' = [job EXCEPT ![c] = None]
      BY <1>6 DEF AgentEnds
    <3> QED  BY <2>1, <3>1 DEF TypeOK, SourceStates
  <2> QED  BY <1>6, <2>3, <2>4 DEF TypeOK, AgentEnds, manager, calls, streams
<1>7. CASE LinkLost(c)
  <2>1. up' \in [Channels -> Seq(UpFrames)]
    <3>1. PICK n \in 0..Len(up[c]) : up' = [up EXCEPT ![c] = SubSeq(@, 1, n)]
      BY <1>7 DEF LinkLost
    <3>2. \A i \in 1..n : up[c][i] \in UpFrames
      BY <1>u
    <3>3. SubSeq(up[c], 1, n) \in Seq(UpFrames)
      BY <3>2, SubSeqProperties
    <3> QED  BY <1>u, <3>1, <3>3
  <2>2. down' \in [Channels -> Seq(DownFrames)]
    BY <1>7, <1>u DEF LinkLost
  <2>3. link' \in [Channels -> LinkStates] /\ job' \in [Channels -> Requests \cup {None}]
    BY <1>7 DEF TypeOK, LinkLost, LinkStates
  <2> QED  BY <1>7, <2>1, <2>2, <2>3 DEF TypeOK, LinkLost, manager, calls, streams
<1> QED  BY <1>1, <1>2, <1>3, <1>4, <1>5, <1>6, <1>7 DEF AgentStep, AgentWorks

LEMMA StutterType == ASSUME TypeOK, UNCHANGED vars PROVE TypeOK'
  BY DEF TypeOK, vars

LEMMA NextType == ASSUME TypeOK, [Next]_vars PROVE TypeOK'
  BY CallType, ReaderType, ServerType, DeleteType, AgentType, StutterType DEF Next

\* Every variable keeps its type in every reachable state.
THEOREM TypeCorrect == Spec => []TypeOK
<1>1. Init => TypeOK
  BY InitIInv DEF IInv
<1>2. TypeOK /\ [Next]_vars => TypeOK'
  BY NextType
<1> QED  BY <1>1, <1>2, PTL DEF Spec

-----------------------------------------------------------------------------
(* The other conjuncts of IInv.                                            *)

LEMMA EndedAppend ==
  ASSUME NEW q \in Seq(Items), NEW i \in Items
  PROVE  Ended(Append(q, i)) <=> Ended(q) \/ i.kind # "chunk"
  BY DEF Ended

LEMMA EndedTail ==
  ASSUME NEW q \in Seq(Items), q # <<>>
  PROVE  /\ Ended(Tail(q)) => Ended(q)
         /\ Head(q).kind # "chunk" => Ended(q)
  BY DEF Ended

LEMMA NotEndedEmpty == ~Ended(<<>>)
  BY DEF Ended

Rest ==
    /\ BoundMeansServed
    /\ OwnedEntries
    /\ IdleCalls
    /\ ConnectedCalls
    /\ EndedStreams
    /\ StreamSignals
    /\ Readers
    /\ UnusedChannels

\* The types the proofs below use, so that they need not expand TypeOK.
Types ==
    /\ pending \in [Channels -> SUBSET Requests]
    /\ call \in [Requests -> CallStates]
    /\ conn \in [Requests -> Channels \cup {None}]
    /\ signal \in [Requests -> SignalStates]
    /\ queue \in [Requests -> Seq(Items)]
    /\ reader \in [Requests -> ReaderStates]

\* A step of one request alone that leaves it pending nowhere.
Alone(r) ==
    /\ \A c \in Channels : pending'[c] \subseteq pending[c] /\ r \notin pending'[c]
    /\ \A s \in Requests \ {r} : /\ call'[s] = call[s]
                                 /\ signal'[s] = signal[s]
                                 /\ queue'[s] = queue[s]
                                 /\ reader'[s] = reader[s]
    /\ UNCHANGED <<conn, current, handler, link>>

LEMMA AloneRest ==
  ASSUME IInv, NEW r \in Requests, Alone(r),
         call'[r] # "idle",
         call'[r] \in {"sending", "waiting", "returned"} => conn[r] \in Channels,
         r \in Streams => signal'[r] \in {"none", "set"},
         reader'[r] # "none" => r \in Streams /\ call'[r] = "returned"
  PROVE  Rest'
<1>t. Types
  BY DEF IInv, TypeOK, Types
<1>1. OwnedEntries'
  <2> SUFFICES ASSUME NEW c \in Channels, NEW s \in pending'[c]
               PROVE  /\ conn[s] = c
                      /\ s \in Plain => call'[s] \in {"sending", "waiting"} /\ signal'[s] = "none"
                      /\ s \in Streams =>
                            \/ call'[s] \in {"sending", "waiting"}
                            \/ /\ call'[s] = "returned"
                               /\ reader'[s] \in {"reading", "abandoned"}
    BY DEF OwnedEntries, Alone
  <2>1. s \in pending[c] /\ s \in Requests \ {r}
    BY <1>t DEF Alone, Types
  <2> QED  BY <2>1 DEF Alone, IInv, OwnedEntries
<1>2. EndedStreams'
  <2> SUFFICES ASSUME NEW s \in Streams, Ended(queue'[s]), NEW c \in Channels
               PROVE  s \notin pending'[c]
    BY DEF EndedStreams
  <2>1. CASE s = r
    BY <2>1 DEF Alone
  <2>2. CASE s # r
    BY <2>2 DEF Alone, IInv, EndedStreams, Requests
  <2> QED  BY <2>1, <2>2
<1>3. BoundMeansServed' /\ UnusedChannels'
  BY DEF Alone, IInv, BoundMeansServed, UnusedChannels
<1>4. IdleCalls' /\ ConnectedCalls'
  BY DEF Alone, IInv, IdleCalls, ConnectedCalls
<1>5. StreamSignals' /\ Readers'
  BY DEF Alone, IInv, StreamSignals, Readers, Requests
<1> QED  BY <1>1, <1>2, <1>3, <1>4, <1>5 DEF Rest

LEMMA ForgetLeaves ==
  ASSUME IInv, NEW r \in Requests, pending' = Forget(r)
  PROVE  \A c \in Channels : pending'[c] \subseteq pending[c] /\ r \notin pending'[c]
  BY DEF Forget, IInv, OwnedEntries, TypeOK

LEMMA CallRest ==
  ASSUME IInv, NEW r \in Requests, Call(r)
  PROVE  Rest'
<1>t. Types /\ current \in Channels \cup {None}
  BY DEF IInv, TypeOK, Types
<1>1. CASE current = None
  <2>1. UNCHANGED <<pending, conn, signal, queue, reader, current, handler, link>>
        /\ call' = [call EXCEPT ![r] = "unavailable"] /\ call[r] = "idle"
    BY <1>1 DEF Call, streams
  <2> QED  BY <1>t, <2>1 DEF Types, IInv, Rest, BoundMeansServed, OwnedEntries, IdleCalls,
                  ConnectedCalls, EndedStreams, StreamSignals, Readers, UnusedChannels
<1>2. CASE current # None
  <2>1. /\ call[r] = "idle"
        /\ call' = [call EXCEPT ![r] = "sending"]
        /\ conn' = [conn EXCEPT ![r] = current]
        /\ pending' = [pending EXCEPT ![current] = @ \cup {r}]
        /\ UNCHANGED <<signal, queue, reader, current, handler, link>>
    BY <1>2 DEF Call, streams
  <2>2. /\ current \in Channels
        /\ signal[r] = "none" /\ queue[r] = <<>>
        /\ \A c \in Channels : r \notin pending[c]
    BY <1>t, <1>2, <2>1 DEF IInv, IdleCalls, OwnedEntries, Requests
  <2>3. OwnedEntries'
    <3> SUFFICES ASSUME NEW c \in Channels, NEW s \in pending'[c]
                 PROVE  /\ conn'[s] = c
                        /\ s \in Plain => call'[s] \in {"sending", "waiting"} /\ signal'[s] = "none"
                        /\ s \in Streams =>
                              \/ call'[s] \in {"sending", "waiting"}
                              \/ /\ call'[s] = "returned"
                                 /\ reader'[s] \in {"reading", "abandoned"}
      BY DEF OwnedEntries
    <3>1. CASE s = r
      BY <1>t, <2>1, <2>2, <3>1 DEF Types
    <3>2. CASE s # r
      <4>1. s \in pending[c] /\ s \in Requests
        BY <1>t, <2>1, <2>2, <3>2 DEF Types
      <4>2. call'[s] = call[s] /\ conn'[s] = conn[s] /\ signal'[s] = signal[s]
            /\ reader'[s] = reader[s]
        BY <1>t, <2>1, <3>2, <4>1 DEF Types
      <4> QED  BY <4>1, <4>2 DEF IInv, OwnedEntries
    <3> QED  BY <3>1, <3>2
  <2>4. EndedStreams'
    <3> SUFFICES ASSUME NEW s \in Streams, Ended(queue[s]), NEW c \in Channels
                 PROVE  s \notin pending'[c]
      BY <2>1 DEF EndedStreams
    <3>1. s # r
      BY <2>2, NotEndedEmpty
    <3>2. s \notin pending[c]
      BY DEF IInv, EndedStreams
    <3> QED  BY <1>t, <2>1, <3>1, <3>2 DEF Types
  <2>5. BoundMeansServed' /\ IdleCalls' /\ ConnectedCalls'
    BY <1>t, <2>1, <2>2 DEF Types, IInv, BoundMeansServed, IdleCalls, ConnectedCalls
  <2>6. StreamSignals' /\ Readers' /\ UnusedChannels'
    BY <1>t, <2>1 DEF Types, IInv, StreamSignals, Readers, UnusedChannels
  <2> QED  BY <2>3, <2>4, <2>5, <2>6 DEF Rest
<1> QED  BY <1>1, <1>2

LEMMA SendReturnsRest ==
  ASSUME IInv, NEW r \in Requests, SendReturns(r)
  PROVE  Rest'
<1>t. Types
  BY DEF IInv, TypeOK, Types
<1>1. /\ call[r] = "sending"
      /\ call' = [call EXCEPT ![r] = "waiting"]
      /\ UNCHANGED <<current, pending, handler, link, conn, signal, queue, reader>>
  BY DEF SendReturns, manager, streams, wire
<1>2. OwnedEntries'
  BY <1>t, <1>1 DEF Types, IInv, OwnedEntries
<1>3. BoundMeansServed' /\ EndedStreams' /\ StreamSignals' /\ UnusedChannels'
  BY <1>1 DEF IInv, BoundMeansServed, EndedStreams, StreamSignals, UnusedChannels
<1>4. IdleCalls' /\ ConnectedCalls' /\ Readers'
  BY <1>t, <1>1 DEF Types, IInv, IdleCalls, ConnectedCalls, Readers
<1> QED  BY <1>2, <1>3, <1>4 DEF Rest

LEMMA GiveUpRest ==
  ASSUME IInv, NEW r \in Requests, SendRaises(r) \/ Timeout(r)
  PROVE  Rest'
<1>t. Types
  BY DEF IInv, TypeOK, Types
<1>1. /\ call[r] \in {"sending", "waiting"}
      /\ pending' = Forget(r)
      /\ UNCHANGED <<current, handler, link, conn, reader>>
  BY DEF SendRaises, Timeout, GiveUp, wire
<1>2. /\ \/ call' = [call EXCEPT ![r] = "raised"]
         \/ call' = [call EXCEPT ![r] = "unavailable"]
      /\ \/ r \in Streams /\ UNCHANGED signal
                          /\ queue' = [queue EXCEPT ![r] = Append(@, EOF)]
         \/ /\ r \notin Streams /\ UNCHANGED queue
            /\ signal' = [signal EXCEPT ![r] = IF @ = "none" THEN "cancelled" ELSE @]
  BY DEF SendRaises, Timeout, GiveUp
<1>3. Alone(r)
  BY <1>t, <1>1, <1>2, ForgetLeaves DEF Types, Alone
<1>4. reader'[r] = "none"
  BY <1>1 DEF IInv, Readers
<1> QED  BY <1>t, <1>1, <1>2, <1>3, <1>4, AloneRest DEF Types, IInv, StreamSignals

LEMMA WakeRest ==
  ASSUME IInv, NEW r \in Requests, Wake(r)
  PROVE  Rest'
<1>t. Types
  BY DEF IInv, TypeOK, Types
<1>1. /\ call[r] = "waiting" /\ signal[r] # "none"
      /\ call' = [call EXCEPT ![r] =
             CASE signal[r] = "set"       -> "returned"
               [] signal[r] = "exception" -> "unavailable"
               [] signal[r] = "cancelled" -> "cancelled"]
      /\ UNCHANGED <<current, handler, link, conn, signal, queue>>
  BY DEF Wake, wire
<1>2. conn[r] \in Channels
  BY <1>1 DEF IInv, ConnectedCalls
<1>3. CASE r \in Streams
  <2>1. /\ signal[r] = "set"
        /\ call' = [call EXCEPT ![r] = "returned"]
        /\ reader' = [reader EXCEPT ![r] = "reading"]
        /\ UNCHANGED pending
    BY <1>1, <1>3 DEF IInv, StreamSignals, Wake
  <2>2. OwnedEntries'
    BY <1>t, <1>1, <1>3, <2>1, DistinctKinds DEF Types, IInv, OwnedEntries
  <2>3. BoundMeansServed' /\ EndedStreams' /\ StreamSignals' /\ UnusedChannels'
    BY <1>1, <2>1 DEF IInv, BoundMeansServed, EndedStreams, StreamSignals, UnusedChannels
  <2>4. IdleCalls' /\ ConnectedCalls' /\ Readers'
    BY <1>t, <1>1, <1>2, <1>3, <2>1 DEF Types, IInv, IdleCalls, ConnectedCalls, Readers
  <2> QED  BY <2>2, <2>3, <2>4 DEF Rest
<1>4. CASE r \notin Streams
  <2>1. r \in Plain /\ UNCHANGED reader
    BY <1>4 DEF Requests, Wake
  <2>2. \A c \in Channels : r \notin pending[c]
    BY <1>1, <2>1 DEF IInv, OwnedEntries
  <2>3. \A c \in Channels : pending'[c] \subseteq pending[c] /\ r \notin pending'[c]
    BY <2>2, ForgetLeaves DEF Wake
  <2>4. Alone(r)
    BY <1>t, <1>1, <2>1, <2>3 DEF Alone, Types
  <2>5. call'[r] \in {"returned", "unavailable", "cancelled"}
    BY <1>t, <1>1 DEF Types, SignalStates
  <2>6. reader'[r] = "none"
    BY <1>1, <2>1 DEF IInv, Readers
  <2> QED  BY <1>2, <1>4, <2>4, <2>5, <2>6, AloneRest
<1> QED  BY <1>3, <1>4

LEMMA CallStepRest ==
  ASSUME IInv, NEW r \in Requests, CallStep(r)
  PROVE  Rest'
  BY CallRest, SendReturnsRest, GiveUpRest, WakeRest DEF CallStep

LEMMA ReaderRest ==
  ASSUME IInv, NEW r \in Streams, ReaderStep(r)
  PROVE  Rest'
<1>t. Types /\ r \in Requests
  BY DEF IInv, TypeOK, Types, Requests
<1>1. /\ reader[r] = "reading"
      /\ UNCHANGED <<current, handler, link, call, conn, signal>>
  BY DEF ReaderStep, ReadItem, IdleTimeout, Abandon, manager, calls, wire
<1>2. call[r] = "returned" /\ conn[r] \in Channels
  BY <1>t, <1>1 DEF IInv, Readers, ConnectedCalls
<1>3. CASE ReadItem(r) /\ Head(queue[r]).kind = "chunk"
  <2>1. /\ UNCHANGED <<pending, reader>>
        /\ queue[r] # <<>>
        /\ queue' = [queue EXCEPT ![r] = Tail(@)]
    BY <1>3 DEF ReadItem, manager
  <2>2. queue[r] \in Seq(Items) /\ queue'[r] = Tail(queue[r])
    BY <1>t, <2>1 DEF Types
  <2>3. \A s \in Streams : Ended(queue'[s]) => Ended(queue[s])
    BY <1>t, <2>1, <2>2, EndedTail DEF Types, Requests
  <2>4. OwnedEntries' /\ EndedStreams'
    BY <1>1, <2>1, <2>3 DEF IInv, OwnedEntries, EndedStreams
  <2>5. IdleCalls'
    BY <1>t, <1>1, <1>2, <2>1 DEF Types, IInv, IdleCalls
  <2>6. BoundMeansServed' /\ ConnectedCalls' /\ StreamSignals' /\ Readers' /\ UnusedChannels'
    BY <1>1, <2>1 DEF IInv, BoundMeansServed, ConnectedCalls, StreamSignals, Readers,
                      UnusedChannels
  <2> QED  BY <2>4, <2>5, <2>6 DEF Rest
<1>4. CASE ReadItem(r) /\ Head(queue[r]).kind # "chunk"
  <2>1. /\ UNCHANGED pending
        /\ queue[r] # <<>>
        /\ queue' = [queue EXCEPT ![r] = Tail(@)]
    BY <1>4 DEF ReadItem, manager
  <2>2. \A s \in Requests \ {r} : reader'[s] = reader[s]
    <3>1. Head(queue[r]).kind \in {"eof", "error"}
      BY <1>t, <1>4, <2>1, ItemFields, HeadTailProperties DEF Types
    <3>2. \/ reader' = [reader EXCEPT ![r] = "complete"]
          \/ reader' = [reader EXCEPT ![r] = "failed"]
      BY <1>4, <3>1 DEF ReadItem
    <3> QED  BY <1>t, <3>2 DEF Types
  <2>3. \A c \in Channels : r \notin pending[c]
    BY <1>t, <1>4, <2>1, EndedTail DEF Types, IInv, EndedStreams
  <2>4. Alone(r)
    BY <1>t, <1>1, <2>1, <2>2, <2>3 DEF Types, Alone
  <2> QED  BY <1>t, <1>1, <1>2, <2>4, AloneRest DEF IInv, StreamSignals
<1>5. CASE IdleTimeout(r)
  <2>1. /\ pending' = Forget(r)
        /\ UNCHANGED queue
        /\ reader' = [reader EXCEPT ![r] = "failed"]
    BY <1>5 DEF IdleTimeout
  <2>2. Alone(r)
    BY <1>t, <1>1, <2>1, ForgetLeaves DEF Types, Alone
  <2> QED  BY <1>t, <1>1, <1>2, <2>2, AloneRest DEF IInv, StreamSignals
<1>6. CASE Abandon(r)
  <2>1. /\ UNCHANGED <<pending, queue>>
        /\ reader' = [reader EXCEPT ![r] = "abandoned"]
    BY <1>6 DEF Abandon, manager
  <2>2. OwnedEntries'
    BY <1>t, <1>1, <1>2, <2>1 DEF Types, IInv, OwnedEntries
  <2>3. BoundMeansServed' /\ ConnectedCalls' /\ StreamSignals' /\ UnusedChannels' /\ IdleCalls'
    BY <1>1, <2>1 DEF IInv, BoundMeansServed, ConnectedCalls, StreamSignals, UnusedChannels,
                      IdleCalls
  <2>4. EndedStreams' /\ Readers'
    BY <1>t, <1>1, <1>2, <2>1 DEF Types, IInv, EndedStreams, Readers
  <2> QED  BY <2>2, <2>3, <2>4 DEF Rest
<1> QED  BY <1>3, <1>4, <1>5, <1>6 DEF ReaderStep

\* unregister and shutdown: everything pending on the current connection ends.
LEMMA PurgeRest ==
  ASSUME IInv, current \in Channels,
         pending' = [pending EXCEPT ![current] = {}],
         UNCHANGED <<call, conn, reader>>,
         \A s \in Requests : s \notin pending[current] =>
            signal'[s] = signal[s] /\ queue'[s] = queue[s],
         \A s \in Streams : signal'[s] = signal[s]
  PROVE  /\ OwnedEntries' /\ IdleCalls' /\ ConnectedCalls' /\ EndedStreams'
         /\ StreamSignals' /\ Readers'
<1>t. Types
  BY DEF IInv, TypeOK, Types
<1>1. \A c \in Channels : \A s \in pending'[c] :
         c # current /\ s \in pending[c] /\ s \in Requests /\ s \notin pending[current]
  BY <1>t DEF Types, IInv, OwnedEntries
<1>2. OwnedEntries'
  BY <1>1 DEF IInv, OwnedEntries
<1>3. EndedStreams'
  BY <1>1 DEF IInv, EndedStreams
<1>4. IdleCalls'
  <2> SUFFICES ASSUME NEW s \in Requests, call[s] = "idle"
               PROVE  queue'[s] = <<>> /\ signal'[s] = "none"
    BY DEF IdleCalls
  <2>1. s \notin pending[current]
    BY DEF IInv, OwnedEntries, Requests
  <2> QED  BY <2>1 DEF IInv, IdleCalls
<1>5. ConnectedCalls' /\ StreamSignals' /\ Readers'
  BY DEF IInv, ConnectedCalls, StreamSignals, Readers
<1> QED  BY <1>2, <1>3, <1>4, <1>5

LEMMA ServerRest ==
  ASSUME IInv, NEW c \in Channels, ServerStep(c)
  PROVE  Rest'
<1>t. Types /\ handler \in [Channels -> HandlerStates] /\ link \in [Channels -> LinkStates]
  BY DEF IInv, TypeOK, Types
<1>1. CASE ReceiveRegister(c)
  <2>1. UNCHANGED <<pending, call, conn, signal, queue, reader>>
    BY <1>1 DEF ReceiveRegister, calls, streams
  <2>2. BoundMeansServed'
    BY <1>t, <1>1, NoneIsFresh DEF ReceiveRegister, IInv, BoundMeansServed, TypeOK
  <2>3. UnusedChannels'
    BY <1>t, <1>1 DEF ReceiveRegister, IInv, UnusedChannels
  <2> QED  BY <2>1, <2>2, <2>3 DEF Rest, IInv, OwnedEntries, IdleCalls, ConnectedCalls,
                                  EndedStreams, StreamSignals, Readers
<1>2. CASE ReceiveFrame(c)
  <2> DEFINE m == Head(up[c])
             r == m.req
  <2>1. UNCHANGED <<current, handler, link, call, conn, reader>>
    BY <1>2 DEF ReceiveFrame, EndStream
  <2>2. CASE UNCHANGED <<pending, signal, queue>>
    BY <2>1, <2>2 DEF Rest, IInv, BoundMeansServed, OwnedEntries, IdleCalls, ConnectedCalls,
                      EndedStreams, StreamSignals, Readers, UnusedChannels
  <2>3. CASE Entry(r)
    <3>1. /\ current \in Channels /\ r \in pending[current] /\ r \in Requests
          /\ conn[r] = current
          /\ call[r] \in {"sending", "waiting", "returned"}
      BY <1>t, <2>3 DEF Entry, Types, IInv, TypeOK, OwnedEntries, Requests
    <3>2. \A d \in Channels \ {current} : r \notin pending[d]
      BY <3>1 DEF IInv, OwnedEntries
    <3>3. CASE r \in Plain /\ m.type \in {"start", "refuse"}
      <4>1. /\ signal' = [signal EXCEPT ![r] = IF @ = "none" THEN "set" ELSE @]
            /\ pending' = [pending EXCEPT ![current] = @ \ {r}]
            /\ UNCHANGED queue
        BY <1>2, <2>3, <3>3 DEF ReceiveFrame, EndStream
      <4>2. Alone(r)
        BY <1>t, <2>1, <3>1, <3>2, <4>1 DEF Types, Alone
      <4> QED  BY <2>1, <3>1, <3>3, <4>2, AloneRest, DistinctKinds
               DEF IInv, Readers, ConnectedCalls
    <3>4. CASE r \in Streams /\ m.type \in {"start", "refuse"}
      <4>1. /\ signal' = [signal EXCEPT ![r] = IF @ = "none" THEN "set" ELSE @]
            /\ UNCHANGED <<pending, queue>>
        BY <1>2, <2>3, <3>4, DistinctKinds DEF ReceiveFrame, EndStream
      <4>2. OwnedEntries' /\ IdleCalls' /\ StreamSignals'
        BY <1>t, <2>1, <3>1, <3>4, <4>1, DistinctKinds
        DEF Types, IInv, OwnedEntries, IdleCalls, StreamSignals, Requests
      <4> QED  BY <2>1, <4>1, <4>2 DEF Rest, IInv, BoundMeansServed, ConnectedCalls,
                                      EndedStreams, Readers, UnusedChannels
    <3>5. CASE m.type = "chunk"
      <4>1. /\ queue' = [queue EXCEPT ![r] = Append(@, Chunk(m.index))]
            /\ UNCHANGED <<pending, signal>>
        BY <1>2, <2>3, <3>5 DEF ReceiveFrame, EndStream
      <4>2. Chunk(m.index) \in Items /\ Chunk(m.index).kind = "chunk"
        <5>1. m \in UpFrames
          BY <1>2 DEF ReceiveFrame, EndStream, IInv, TypeOK
        <5> QED  BY <3>5, <5>1, FrameFields, ItemTypes DEF Chunk
      <4>3. \A s \in Streams : Ended(queue'[s]) => Ended(queue[s])
        <5> SUFFICES ASSUME NEW s \in Streams, Ended(queue'[s]) PROVE Ended(queue[s])
          OBVIOUS
        <5>1. s \in Requests /\ queue[s] \in Seq(Items)
          BY <1>t DEF Types, Requests
        <5>2. queue'[s] = queue[s] \/ queue'[s] = Append(queue[s], Chunk(m.index))
          BY <1>t, <4>1, <5>1 DEF Types
        <5> QED  BY <4>2, <5>1, <5>2, EndedAppend
      <4>4. EndedStreams' /\ IdleCalls'
        BY <1>t, <2>1, <3>1, <4>1, <4>3 DEF Types, IInv, EndedStreams, IdleCalls
      <4> QED  BY <2>1, <4>1, <4>4 DEF Rest, IInv, OwnedEntries, BoundMeansServed,
                  ConnectedCalls, StreamSignals, Readers, UnusedChannels
    <3>6. CASE m.type \in {"end", "error"}
      <4>1. /\ \E i \in Items : queue' = [queue EXCEPT ![r] = Append(@, i)]
            /\ pending' = [pending EXCEPT ![current] = @ \ {r}]
            /\ UNCHANGED signal
        BY <1>2, <2>3, <3>6, ItemTypes DEF ReceiveFrame, EndStream
      <4>2. Alone(r)
        BY <1>t, <2>1, <3>1, <3>2, <4>1 DEF Types, Alone
      <4> QED  BY <2>1, <3>1, <4>1, <4>2, AloneRest
               DEF IInv, Readers, ConnectedCalls, StreamSignals
    <3>7. m.type \in {"start", "refuse", "chunk", "end", "error"}
      BY <1>2, <2>3 DEF ReceiveFrame, EndStream
    <3> QED  BY <3>1, <3>3, <3>4, <3>5, <3>6, <3>7 DEF Requests
  <2>4. UNCHANGED <<pending, signal, queue>> \/ Entry(r)
    BY <1>2 DEF ReceiveFrame, EndStream
  <2> QED  BY <2>2, <2>3, <2>4
<1>3. CASE Disconnect(c) /\ (handler[c] = "accepted" \/ current = None)
  <2>1. UNCHANGED <<current, pending, call, conn, signal, queue, reader, link>>
        /\ handler' = [handler EXCEPT ![c] = "closed"]
        /\ link[c] = "lost"
    BY <1>3 DEF Disconnect, Unregister, wire
  <2>2. BoundMeansServed'
    BY <1>t, <1>3, <2>1 DEF IInv, BoundMeansServed
  <2>3. UnusedChannels'
    BY <1>t, <2>1 DEF IInv, UnusedChannels
  <2> QED  BY <2>1, <2>2, <2>3 DEF Rest, IInv, OwnedEntries, IdleCalls, ConnectedCalls,
                                  EndedStreams, StreamSignals, Readers
<1>4. CASE Disconnect(c) /\ handler[c] = "registered" /\ current # None
  <2>1. /\ current \in Channels /\ current' = None
        /\ pending' = [pending EXCEPT ![current] = {}]
        /\ UNCHANGED <<call, conn, reader, link>>
        /\ handler' = [handler EXCEPT ![c] = "closed"]
        /\ link[c] = "lost"
    BY <1>4 DEF Disconnect, Unregister, wire, IInv, TypeOK
  <2>2. /\ signal' = [s \in Requests |->
               IF s \in pending[current] \cap Plain /\ signal[s] = "none"
               THEN "exception" ELSE signal[s]]
        /\ queue' = [s \in Requests |->
               IF s \in pending[current] \cap Streams
               THEN Append(queue[s], Failure) ELSE queue[s]]
    BY <1>4 DEF Disconnect, Unregister
  <2>3. /\ \A s \in Requests : s \notin pending[current] =>
              signal'[s] = signal[s] /\ queue'[s] = queue[s]
        /\ \A s \in Streams : signal'[s] = signal[s]
    BY <2>2, DistinctKinds DEF Requests
  <2>4. BoundMeansServed' /\ UnusedChannels'
    BY <1>t, <2>1 DEF IInv, BoundMeansServed, UnusedChannels
  <2> QED  BY <2>1, <2>3, <2>4, PurgeRest DEF Rest
<1> QED  BY <1>1, <1>2, <1>3, <1>4 DEF ServerStep, Disconnect

LEMMA DeleteRest ==
  ASSUME IInv, DeleteSignals \/ DeleteCommits
  PROVE  Rest'
<1>1. CASE DeleteCommits \/ (DeleteSignals /\ current = None)
  <2>1. UNCHANGED <<current, pending, handler, link, call, conn, signal, queue, reader>>
    BY <1>1 DEF DeleteCommits, DeleteSignals, ShutdownConnection, manager, calls, streams, wire
  <2> QED  BY <2>1 DEF Rest, IInv, BoundMeansServed, OwnedEntries, IdleCalls, ConnectedCalls,
                      EndedStreams, StreamSignals, Readers, UnusedChannels
<1>2. CASE DeleteSignals /\ current # None
  <2>1. /\ current \in Channels /\ current' = None
        /\ pending' = [pending EXCEPT ![current] = {}]
        /\ UNCHANGED <<call, conn, reader, link, handler>>
    BY <1>2 DEF DeleteSignals, ShutdownConnection, IInv, TypeOK
  <2>2. /\ signal' = [s \in Requests |->
               IF s \in pending[current] \cap Plain /\ signal[s] = "none"
               THEN "cancelled" ELSE signal[s]]
        /\ queue' = [s \in Requests |->
               IF s \in pending[current] \cap Streams
               THEN Append(queue[s], EOF) ELSE queue[s]]
    BY <1>2 DEF DeleteSignals, ShutdownConnection
  <2>3. /\ \A s \in Requests : s \notin pending[current] =>
              signal'[s] = signal[s] /\ queue'[s] = queue[s]
        /\ \A s \in Streams : signal'[s] = signal[s]
    BY <2>2, DistinctKinds DEF Requests
  <2>4. BoundMeansServed' /\ UnusedChannels'
    BY <2>1 DEF IInv, BoundMeansServed, UnusedChannels
  <2> QED  BY <2>1, <2>3, <2>4, PurgeRest DEF Rest
<1> QED  BY <1>1, <1>2

LEMMA AgentRest ==
  ASSUME IInv, NEW c \in Channels, AgentStep(c)
  PROVE  Rest'
<1>t. handler \in [Channels -> HandlerStates] /\ link \in [Channels -> LinkStates]
  BY DEF IInv, TypeOK
<1>1. UNCHANGED <<current, pending, call, conn, signal, queue, reader>>
  BY DEF AgentStep, AgentConnects, AgentWorks, AgentTakes, AgentAnswers, AgentStarts,
         AgentSendsChunk, AgentEnds, LinkLost, manager, calls, streams
<1>2. BoundMeansServed' /\ UnusedChannels'
  <2>1. CASE AgentConnects(c)
    <3>1. /\ handler' = [handler EXCEPT ![c] = "accepted"]
          /\ link' = [link EXCEPT ![c] = "up"]
          /\ handler[c] = "unused"
      BY <2>1 DEF AgentConnects, IInv, UnusedChannels
    <3> QED  BY <1>t, <1>1, <3>1 DEF IInv, BoundMeansServed, UnusedChannels
  <2>2. CASE ~AgentConnects(c)
    <3>1. /\ UNCHANGED handler
          /\ link' = link \/ link' = [link EXCEPT ![c] = "lost"]
          /\ link'[c] = "unused" => link[c] = "unused"
      BY <1>t, <2>2 DEF AgentStep, AgentWorks, AgentTakes, AgentAnswers, AgentStarts,
         AgentSendsChunk, AgentEnds, LinkLost
    <3> QED  BY <1>t, <1>1, <3>1 DEF IInv, BoundMeansServed, UnusedChannels
  <2> QED  BY <2>1, <2>2
<1> QED  BY <1>1, <1>2 DEF Rest, IInv, OwnedEntries, IdleCalls, ConnectedCalls,
                          EndedStreams, StreamSignals, Readers

LEMMA StutterRest == ASSUME IInv, UNCHANGED vars PROVE Rest'
  BY DEF vars, Rest, IInv, BoundMeansServed, OwnedEntries, IdleCalls, ConnectedCalls,
         EndedStreams, StreamSignals, Readers, UnusedChannels

\* IInv is preserved by every step.
THEOREM Inductive == IInv /\ [Next]_vars => IInv'
<1> SUFFICES ASSUME IInv, [Next]_vars PROVE IInv'
  OBVIOUS
<1>1. TypeOK'
  BY NextType DEF IInv
<1>2. Rest'
  BY CallStepRest, ReaderRest, ServerRest, AgentRest, DeleteRest, StutterRest DEF Next
<1> QED  BY <1>1, <1>2 DEF IInv, Rest

THEOREM Invariance == Spec => []IInv
  BY InitIInv, Inductive, PTL DEF Spec

-----------------------------------------------------------------------------
(* The properties.                                                         *)

\* The name is only ever bound to a connection whose websocket is served.
THEOREM BoundIsServed == Spec => []BoundMeansServed
<1>1. IInv => BoundMeansServed
  BY DEF IInv
<1> QED  BY <1>1, Invariance, PTL

\* Nothing but the streams whose client hung up stays in a pending table.
THEOREM NothingLeftBehind == Spec => []SettledIsForgotten
<1>1. IInv => SettledIsForgotten
  BY DistinctKinds DEF IInv, OwnedEntries, SettledIsForgotten, Settled
<1> QED  BY <1>1, Invariance, PTL

\* A call that send_request gave up is not touched by anything that comes late.
THEOREM LateAnswersDropped == Spec => LateAnswerIsDropped
<1> DEFINE GivenUp == {"unavailable", "raised", "cancelled"}
           Untouched == \A r \in Requests :
              call[r] \in GivenUp => UNCHANGED <<call[r], signal[r], queue[r], reader[r]>>
<1>1. IInv /\ [Next]_vars => Untouched
  <2> SUFFICES ASSUME IInv, [Next]_vars, NEW r \in Requests, call[r] \in GivenUp
               PROVE  UNCHANGED <<call[r], signal[r], queue[r], reader[r]>>
    OBVIOUS
  <2>t. Types
    BY DEF IInv, TypeOK, Types
  <2>1. reader[r] = "none" /\ \A c \in Channels : r \notin pending[c]
    BY DEF IInv, Readers, OwnedEntries, Requests
  <2>2. ASSUME NEW s \in Requests, CallStep(s) PROVE s # r
    BY <2>2 DEF CallStep, Call, SendReturns, SendRaises, Wake, Timeout, GiveUp
  <2>3. ASSUME NEW s \in Requests, CallStep(s)
        PROVE  UNCHANGED <<call[r], signal[r], queue[r], reader[r]>>
    BY <2>t, <2>2, <2>3 DEF Types, CallStep, Call, SendReturns, SendRaises, Wake, Timeout, GiveUp, streams
  <2>4. ASSUME NEW s \in Streams, ReaderStep(s)
        PROVE  UNCHANGED <<call[r], signal[r], queue[r], reader[r]>>
    <3>1. s # r /\ UNCHANGED <<call, signal>>
      BY <2>1, <2>4 DEF ReaderStep, ReadItem, IdleTimeout, Abandon, calls
    <3>2. CASE ReadItem(s)
      <4>1. queue'[r] = queue[r]
        <5>1. queue' = [queue EXCEPT ![s] = Tail(@)]
          BY <3>2 DEF ReadItem
        <5> QED  BY <2>t, <3>1, <5>1 DEF Types
      <4>2. reader'[r] = reader[r]
        <5>1. \/ reader' = reader
              \/ reader' = [reader EXCEPT ![s] = "complete"]
              \/ reader' = [reader EXCEPT ![s] = "failed"]
          <6>1. queue[s] \in Seq(Items) /\ queue[s] # <<>>
            BY <2>t, <3>2 DEF Types, ReadItem, Requests
          <6>2. Head(queue[s]) \in Items
            BY <6>1, HeadTailProperties
          <6>3. Head(queue[s]).kind \in {"chunk", "eof", "error"}
            BY <6>2 DEF Items, Chunk, EOF, Failure
          <6> QED  BY <3>2, <6>3 DEF ReadItem
        <5> QED  BY <2>t, <3>1, <5>1 DEF Types
      <4> QED  BY <3>1, <4>1, <4>2
    <3>3. CASE IdleTimeout(s) \/ Abandon(s)
      BY <2>t, <3>1, <3>3 DEF Types, IdleTimeout, Abandon
    <3> QED  BY <2>4, <3>2, <3>3 DEF ReaderStep
  <2>5. ASSUME NEW c \in Channels, ServerStep(c)
        PROVE  UNCHANGED <<call[r], signal[r], queue[r], reader[r]>>
    <3>1. CASE ReceiveRegister(c)
      BY <3>1 DEF ReceiveRegister, calls, streams
    <3>2. CASE ReceiveFrame(c)
      <4>1. Entry(Head(up[c]).req) => Head(up[c]).req # r
        BY <2>1 DEF Entry, IInv, TypeOK
      <4> QED  BY <2>t, <3>2, <4>1 DEF Types, ReceiveFrame, EndStream
    <3>3. CASE Disconnect(c)
      BY <2>t, <2>1, <3>3 DEF Disconnect, Unregister, IInv, TypeOK
    <3> QED  BY <2>5, <3>1, <3>2, <3>3 DEF ServerStep
  <2>6. ASSUME DeleteSignals \/ DeleteCommits
        PROVE  UNCHANGED <<call[r], signal[r], queue[r], reader[r]>>
    BY <2>t, <2>1, <2>6 DEF DeleteSignals, DeleteCommits, ShutdownConnection, calls, streams,
                           IInv, TypeOK
  <2>7. ASSUME NEW c \in Channels, AgentStep(c)
        PROVE  UNCHANGED <<call[r], signal[r], queue[r], reader[r]>>
    BY <2>7 DEF AgentStep, AgentConnects, AgentWorks, AgentTakes, AgentAnswers, AgentStarts,
                AgentSendsChunk, AgentEnds, LinkLost, calls, streams
  <2> QED  BY <2>3, <2>4, <2>5, <2>6, <2>7 DEF Next, vars
<1>2. Untouched => [Untouched]_vars
  OBVIOUS
<1> QED  BY <1>1, Invariance, PTL DEF Spec, LateAnswerIsDropped

(***************************************************************************)
(* AgentTransport implements AgentCallContract, for any number of          *)
(* websockets, requests and chunks: what a reader yields is the agent's    *)
(* stream, in order and without a gap.                                     *)
(***************************************************************************)

(***************************************************************************)
(* The frames of one stream on a websocket.  q is what is on the way, r a  *)
(* stream, n the index of the chunk its queue expects next and m the       *)
(* number of chunks the agent has sent.                                    *)
(***************************************************************************)
ChunkOf(r, i) == Frame("chunk", r, i)

\* Every chunk on the way is the expected one or follows its predecessor.
Gapless(q, r, n) ==
    \A p \in 1..Len(q) : q[p].type = "chunk" /\ q[p].req = r =>
        /\ q[p].index >= n
        /\ q[p].index = n \/ \E k \in 1..(p - 1) : q[k] = ChunkOf(r, q[p].index - 1)

\* Nothing of the stream is missing before its end frame.
EndLast(q, r, n, m) ==
    \A p \in 1..Len(q) : q[p].type = "end" /\ q[p].req = r =>
        n = m + 1 \/ \E k \in 1..(p - 1) : q[k] = ChunkOf(r, m)

\* Nothing of what the agent has sent is missing.
Reaches(q, r, n, m) == n = m + 1 \/ \E k \in 1..Len(q) : q[k] = ChunkOf(r, m)

\* No chunk is on the way twice.
Distinct(q) ==
    \A p, k \in 1..Len(q) : q[p].type = "chunk" /\ q[p] = q[k] => p = k

LEMMA ChunkFields ==
  ASSUME NEW r, NEW i
  PROVE  /\ ChunkOf(r, i).type = "chunk"
         /\ ChunkOf(r, i).req = r
         /\ ChunkOf(r, i).index = i
  BY DEF ChunkOf, Frame

LEMMA ChunkIs ==
  ASSUME NEW f \in UpFrames, f.type = "chunk"
  PROVE  f = ChunkOf(f.req, f.index)
  BY DEF UpFrames, Frame, Register, ChunkOf

\* The expected chunk is taken from the front.
LEMMA TakeChunk ==
  ASSUME NEW q \in Seq(UpFrames), q # <<>>, NEW r \in Requests, NEW n \in Nat, NEW m \in Nat,
         Head(q).type = "chunk", Head(q).req = r, Head(q).index <= m,
         Distinct(q), Gapless(q, r, n)
  PROVE  /\ Head(q).index = n
         /\ Gapless(Tail(q), r, n + 1)
         /\ EndLast(q, r, n, m) => EndLast(Tail(q), r, n + 1, m)
         /\ Reaches(q, r, n, m) => Reaches(Tail(q), r, n + 1, m)
<1>1. /\ 1 \in 1..Len(q) /\ Head(q) = q[1]
      /\ Len(Tail(q)) = Len(q) - 1
      /\ \A p \in 1..Len(Tail(q)) : Tail(q)[p] = q[p + 1] /\ p + 1 \in 1..Len(q)
  OBVIOUS
<1>2. Head(q).index = n /\ Head(q) = ChunkOf(r, n)
  <2>1. q[1].index = n \/ \E k \in 1..(1 - 1) : q[k] = ChunkOf(r, q[1].index - 1)
    BY <1>1 DEF Gapless
  <2> QED  BY <1>1, <2>1, ChunkIs
<1>3. ASSUME NEW p \in 1..Len(q), p # 1, q[p].type = "chunk", q[p].req = r
      PROVE  q[p].index # n
  <2>1. q[p] \in UpFrames
    OBVIOUS
  <2>2. q[p] = ChunkOf(r, q[p].index)
    BY <1>3, <2>1, ChunkIs
  <2> QED  BY <1>1, <1>2, <1>3, <2>2 DEF Distinct
<1>i. \A p \in 1..Len(q) : q[p].type = "chunk" => q[p].index \in 1..MaxChunks
  BY FrameFields
<1>4. ASSUME NEW i, i # n, NEW p \in 1..Len(Tail(q)), \E k \in 1..p : q[k] = ChunkOf(r, i)
      PROVE  \E k \in 1..(p - 1) : Tail(q)[k] = ChunkOf(r, i)
  <2>1. PICK k \in 1..p : q[k] = ChunkOf(r, i)
    BY <1>4
  <2>2. k # 1
    BY <1>1, <1>2, <1>4, <2>1, ChunkFields
  <2>3. k - 1 \in 1..(p - 1) /\ Tail(q)[k - 1] = q[k]
    BY <1>1, <2>2
  <2> QED  BY <2>1, <2>3
<1>5. Gapless(Tail(q), r, n + 1)
  <2> SUFFICES ASSUME NEW p \in 1..Len(Tail(q)),
                      Tail(q)[p].type = "chunk", Tail(q)[p].req = r
               PROVE  /\ Tail(q)[p].index >= n + 1
                      /\ \/ Tail(q)[p].index = n + 1
                         \/ \E k \in 1..(p - 1) : Tail(q)[k] = ChunkOf(r, Tail(q)[p].index - 1)
    BY DEF Gapless
  <2>1. /\ p + 1 \in 1..Len(q) /\ p + 1 # 1 /\ Tail(q)[p] = q[p + 1]
        /\ p + 1 - 1 = p
    BY <1>1
  <2>2. q[p + 1].index # n /\ q[p + 1].index \in Nat
    BY <1>3, <1>i, <2>1, MaxChunksIsNat
  <2>3. /\ q[p + 1].index >= n
        /\ q[p + 1].index = n \/ \E k \in 1..p : q[k] = ChunkOf(r, q[p + 1].index - 1)
    BY <2>1 DEF Gapless
  <2>4. CASE q[p + 1].index - 1 = n
    BY <2>1, <2>2, <2>4
  <2>5. CASE q[p + 1].index - 1 # n
    <3>1. \E k \in 1..(p - 1) : Tail(q)[k] = ChunkOf(r, q[p + 1].index - 1)
      BY <1>4, <2>2, <2>3, <2>5
    <3> QED  BY <2>1, <2>2, <2>3, <3>1
  <2> QED  BY <2>4, <2>5
<1>6. ASSUME EndLast(q, r, n, m) PROVE EndLast(Tail(q), r, n + 1, m)
  <2> SUFFICES ASSUME NEW p \in 1..Len(Tail(q)),
                      Tail(q)[p].type = "end", Tail(q)[p].req = r, m # n
               PROVE  \E k \in 1..(p - 1) : Tail(q)[k] = ChunkOf(r, m)
    BY DEF EndLast
  <2>1. p + 1 \in 1..Len(q) /\ Tail(q)[p] = q[p + 1] /\ p + 1 - 1 = p
    BY <1>1
  <2>2. n = m + 1 \/ \E k \in 1..p : q[k] = ChunkOf(r, m)
    BY <1>6, <2>1 DEF EndLast
  <2>3. n # m + 1
    BY <1>1, <1>2
  <2> QED  BY <1>4, <2>2, <2>3
<1>7. ASSUME Reaches(q, r, n, m) PROVE Reaches(Tail(q), r, n + 1, m)
  <2>1. n # m + 1
    BY <1>1, <1>2
  <2>2. PICK k \in 1..Len(q) : q[k] = ChunkOf(r, m)
    BY <1>7, <2>1 DEF Reaches
  <2>3. CASE k = 1
    <3>1. n = m
      BY <1>1, <1>2, <2>2, <2>3, ChunkFields
    <3> QED  BY <3>1 DEF Reaches
  <2>4. CASE k # 1
    <3>1. k - 1 \in 1..Len(Tail(q)) /\ Tail(q)[k - 1] = q[k]
      BY <1>1, <2>4
    <3> QED  BY <2>2, <3>1 DEF Reaches
  <2> QED  BY <2>3, <2>4
<1> QED  BY <1>2, <1>5, <1>6, <1>7

\* Any other frame is taken from the front.
LEMMA TakeOther ==
  ASSUME NEW q \in Seq(UpFrames), q # <<>>, NEW r, NEW n, NEW m,
         ~(Head(q).type = "chunk" /\ Head(q).req = r)
  PROVE  /\ Gapless(q, r, n) => Gapless(Tail(q), r, n)
         /\ EndLast(q, r, n, m) => EndLast(Tail(q), r, n, m)
         /\ Reaches(q, r, n, m) => Reaches(Tail(q), r, n, m)
<1>1. /\ 1 \in 1..Len(q) /\ Head(q) = q[1]
      /\ Len(Tail(q)) = Len(q) - 1
      /\ \A p \in 1..Len(Tail(q)) : Tail(q)[p] = q[p + 1] /\ p + 1 \in 1..Len(q)
  OBVIOUS
<1>2. \A i : q[1] # ChunkOf(r, i)
  BY <1>1, ChunkFields
<1>3. ASSUME NEW i, NEW p \in 1..(Len(Tail(q)) + 1), \E k \in 1..p : q[k] = ChunkOf(r, i)
      PROVE  \E k \in 1..(p - 1) : Tail(q)[k] = ChunkOf(r, i)
  <2>1. PICK k \in 1..p : q[k] = ChunkOf(r, i)
    BY <1>3
  <2>2. k # 1
    BY <1>2, <2>1
  <2>3. k - 1 \in 1..(p - 1) /\ Tail(q)[k - 1] = q[k]
    BY <1>1, <2>2
  <2> QED  BY <2>1, <2>3
<1>4. ASSUME Gapless(q, r, n) PROVE Gapless(Tail(q), r, n)
  <2> SUFFICES ASSUME NEW p \in 1..Len(Tail(q)),
                      Tail(q)[p].type = "chunk", Tail(q)[p].req = r
               PROVE  /\ Tail(q)[p].index >= n
                      /\ \/ Tail(q)[p].index = n
                         \/ \E k \in 1..(p - 1) : Tail(q)[k] = ChunkOf(r, Tail(q)[p].index - 1)
    BY DEF Gapless
  <2>1. p + 1 \in 1..Len(q) /\ Tail(q)[p] = q[p + 1] /\ p + 1 - 1 = p /\ p \in 1..(Len(Tail(q)) + 1)
    BY <1>1
  <2>2. /\ q[p + 1].index >= n
        /\ q[p + 1].index = n \/ \E k \in 1..p : q[k] = ChunkOf(r, q[p + 1].index - 1)
    BY <1>4, <2>1 DEF Gapless
  <2>3. (\E k \in 1..p : q[k] = ChunkOf(r, q[p + 1].index - 1))
          => \E k \in 1..(p - 1) : Tail(q)[k] = ChunkOf(r, q[p + 1].index - 1)
    BY <1>3, <2>1
  <2> QED  BY <2>1, <2>2, <2>3
<1>5. ASSUME EndLast(q, r, n, m) PROVE EndLast(Tail(q), r, n, m)
  <2> SUFFICES ASSUME NEW p \in 1..Len(Tail(q)),
                      Tail(q)[p].type = "end", Tail(q)[p].req = r, n # m + 1
               PROVE  \E k \in 1..(p - 1) : Tail(q)[k] = ChunkOf(r, m)
    BY DEF EndLast
  <2>1. p + 1 \in 1..Len(q) /\ Tail(q)[p] = q[p + 1] /\ p + 1 - 1 = p /\ p \in 1..(Len(Tail(q)) + 1)
    BY <1>1
  <2>2. \E k \in 1..p : q[k] = ChunkOf(r, m)
    BY <1>5, <2>1 DEF EndLast
  <2> QED  BY <1>3, <2>1, <2>2
<1>6. ASSUME Reaches(q, r, n, m), n # m + 1
      PROVE  \E k \in 1..Len(Tail(q)) : Tail(q)[k] = ChunkOf(r, m)
  <2>1. /\ \E k \in 1..Len(q) : q[k] = ChunkOf(r, m)
        /\ Len(q) \in 1..(Len(Tail(q)) + 1) /\ Len(q) - 1 = Len(Tail(q))
    BY <1>1, <1>6 DEF Reaches
  <2> QED  BY <1>3, <2>1
<1> QED  BY <1>4, <1>5, <1>6 DEF Reaches

\* A frame is put at the end.
LEMMA PutFrame ==
  ASSUME NEW q \in Seq(UpFrames), NEW f \in UpFrames, NEW r \in Requests,
         NEW n \in Nat, NEW m \in Nat, Gapless(q, r, n), EndLast(q, r, n, m)
  PROVE  /\ ~(f.type = "chunk" /\ f.req = r) => Gapless(Append(q, f), r, n)
         /\ ~(f.type = "end" /\ f.req = r) => EndLast(Append(q, f), r, n, m)
         /\ Reaches(q, r, n, m) => /\ EndLast(Append(q, f), r, n, m)
                                   /\ Reaches(Append(q, f), r, n, m)
<1>1. /\ Len(Append(q, f)) = Len(q) + 1
      /\ Append(q, f)[Len(q) + 1] = f
      /\ \A p \in 1..Len(q) : Append(q, f)[p] = q[p]
  OBVIOUS
<1>2. ASSUME ~(f.type = "chunk" /\ f.req = r) PROVE Gapless(Append(q, f), r, n)
  BY <1>1, <1>2 DEF Gapless
<1>3. ASSUME ~(f.type = "end" /\ f.req = r) PROVE EndLast(Append(q, f), r, n, m)
  BY <1>1, <1>3 DEF EndLast
<1>4. ASSUME Reaches(q, r, n, m)
      PROVE  EndLast(Append(q, f), r, n, m) /\ Reaches(Append(q, f), r, n, m)
  BY <1>1, <1>4 DEF EndLast, Reaches
<1> QED  BY <1>2, <1>3, <1>4

\* The agent's next chunk is put at the end.
LEMMA PutChunk ==
  ASSUME NEW q \in Seq(UpFrames), NEW r \in Requests, NEW n \in Nat, NEW m \in Nat,
         ChunkOf(r, m + 1) \in UpFrames, Gapless(q, r, n), Reaches(q, r, n, m),
         \A p \in 1..Len(q) : ~(q[p].type = "end" /\ q[p].req = r)
  PROVE  /\ Gapless(Append(q, ChunkOf(r, m + 1)), r, n)
         /\ EndLast(Append(q, ChunkOf(r, m + 1)), r, n, m + 1)
         /\ Reaches(Append(q, ChunkOf(r, m + 1)), r, n, m + 1)
<1> DEFINE f == ChunkOf(r, m + 1)
           t == Append(q, f)
<1>1. /\ Len(t) = Len(q) + 1 /\ t[Len(q) + 1] = f
      /\ \A p \in 1..Len(q) : t[p] = q[p]
  OBVIOUS
<1>2. f.type = "chunk" /\ f.req = r /\ f.index = m + 1
  BY ChunkFields
<1> HIDE DEF f
<1> HIDE DEF t
<1>3. n <= m + 1 /\ (m + 1 = n \/ \E k \in 1..Len(q) : q[k] = ChunkOf(r, m))
  <2>1. CASE n = m + 1
    BY <2>1
  <2>2. CASE \E k \in 1..Len(q) : q[k] = ChunkOf(r, m)
    <3>1. PICK k \in 1..Len(q) : q[k] = ChunkOf(r, m)
      BY <2>2
    <3>2. q[k].type = "chunk" /\ q[k].req = r /\ q[k].index = m
      BY <3>1, ChunkFields
    <3>3. m >= n
      BY <3>2 DEF Gapless
    <3> QED  BY <2>2, <3>3
  <2> QED  BY <2>1, <2>2 DEF Reaches
<1>4. Gapless(t, r, n)
  <2> SUFFICES ASSUME NEW p \in 1..Len(t), t[p].type = "chunk", t[p].req = r
               PROVE  /\ t[p].index >= n
                      /\ t[p].index = n \/ \E k \in 1..(p - 1) : t[k] = ChunkOf(r, t[p].index - 1)
    BY DEF Gapless
  <2>1. CASE p = Len(q) + 1
    <3>1. t[p].index = m + 1 /\ t[p].index - 1 = m /\ p - 1 = Len(q)
      BY <1>1, <1>2, <2>1
    <3> QED  BY <1>1, <1>3, <3>1
  <2>2. CASE p \in 1..Len(q)
    <3>1. /\ q[p].index >= n
          /\ q[p].index = n \/ \E k \in 1..(p - 1) : q[k] = ChunkOf(r, q[p].index - 1)
      BY <1>1, <2>2 DEF Gapless
    <3> QED  BY <1>1, <2>2, <3>1
  <2> QED  BY <1>1, <2>1, <2>2
<1>5. EndLast(t, r, n, m + 1)
  BY <1>1, <1>2 DEF EndLast
<1>6. Reaches(t, r, n, m + 1)
  <2>1. Len(q) + 1 \in 1..Len(t) /\ t[Len(q) + 1] = ChunkOf(r, m + 1)
    BY <1>1 DEF f
  <2> QED  BY <2>1 DEF Reaches
<1> QED  BY <1>4, <1>5, <1>6 DEF t, f

\* The frames at the end are lost.
LEMMA LoseFrames ==
  ASSUME NEW q \in Seq(UpFrames), NEW l \in 0..Len(q), NEW r, NEW n, NEW m
  PROVE  /\ Gapless(q, r, n) => Gapless(SubSeq(q, 1, l), r, n)
         /\ EndLast(q, r, n, m) => EndLast(SubSeq(q, 1, l), r, n, m)
<1>1. /\ Len(SubSeq(q, 1, l)) = l
      /\ \A p \in 1..l : SubSeq(q, 1, l)[p] = q[p] /\ p \in 1..Len(q)
  BY SubSeqProperties
<1>2. ASSUME Gapless(q, r, n) PROVE Gapless(SubSeq(q, 1, l), r, n)
  <2> SUFFICES ASSUME NEW p \in 1..l, q[p].type = "chunk", q[p].req = r
               PROVE  /\ q[p].index >= n
                      /\ \/ q[p].index = n
                         \/ \E k \in 1..(p - 1) : SubSeq(q, 1, l)[k] = ChunkOf(r, q[p].index - 1)
    BY <1>1 DEF Gapless
  <2>1. /\ q[p].index >= n
        /\ q[p].index = n \/ \E k \in 1..(p - 1) : q[k] = ChunkOf(r, q[p].index - 1)
    BY <1>1, <1>2 DEF Gapless
  <2>2. \A k \in 1..(p - 1) : k \in 1..l
    OBVIOUS
  <2> QED  BY <1>1, <2>1, <2>2
<1>3. ASSUME EndLast(q, r, n, m) PROVE EndLast(SubSeq(q, 1, l), r, n, m)
  <2> SUFFICES ASSUME NEW p \in 1..l, q[p].type = "end", q[p].req = r
               PROVE  n = m + 1 \/ \E k \in 1..(p - 1) : SubSeq(q, 1, l)[k] = ChunkOf(r, m)
    BY <1>1 DEF EndLast
  <2>1. n = m + 1 \/ \E k \in 1..(p - 1) : q[k] = ChunkOf(r, m)
    BY <1>1, <1>3 DEF EndLast
  <2>2. \A k \in 1..(p - 1) : k \in 1..l
    OBVIOUS
  <2> QED  BY <1>1, <2>1, <2>2
<1> QED  BY <1>2, <1>3

LEMMA DistinctKept ==
  ASSUME NEW q \in Seq(UpFrames), Distinct(q)
  PROVE  /\ q # <<>> => Distinct(Tail(q))
         /\ \A l \in 0..Len(q) : Distinct(SubSeq(q, 1, l))
         /\ \A f \in UpFrames :
               (f.type # "chunk" \/ \A p \in 1..Len(q) : q[p] # f) => Distinct(Append(q, f))
<1>1. ASSUME q # <<>> PROVE Distinct(Tail(q))
  <2>1. /\ Len(Tail(q)) = Len(q) - 1
        /\ \A p \in 1..Len(Tail(q)) : Tail(q)[p] = q[p + 1] /\ p + 1 \in 1..Len(q)
    BY <1>1
  <2> QED  BY <2>1 DEF Distinct
<1>2. ASSUME NEW l \in 0..Len(q) PROVE Distinct(SubSeq(q, 1, l))
  <2>1. /\ Len(SubSeq(q, 1, l)) = l
        /\ \A p \in 1..l : SubSeq(q, 1, l)[p] = q[p] /\ p \in 1..Len(q)
    BY SubSeqProperties
  <2> QED  BY <2>1 DEF Distinct
<1>3. ASSUME NEW f \in UpFrames, f.type # "chunk" \/ \A p \in 1..Len(q) : q[p] # f
      PROVE  Distinct(Append(q, f))
  <2>1. /\ Len(Append(q, f)) = Len(q) + 1
        /\ Append(q, f)[Len(q) + 1] = f
        /\ \A p \in 1..Len(q) : Append(q, f)[p] = q[p]
    OBVIOUS
  <2> QED  BY <1>3, <2>1 DEF Distinct
<1> QED  BY <1>1, <1>2, <1>3

-----------------------------------------------------------------------------
(***************************************************************************)
(* The invariant.  A frame stays on the websocket its call captured, and   *)
(* the agent has made what a frame says; the queue of a stream that is     *)
(* still read, and the frames behind it on the connection the name has     *)
(* now, continue what the reader was given without a gap.                  *)
(***************************************************************************)
Connected ==
    \A r \in Requests :
        /\ conn[r] = None => source[r] = "none" /\ sent[r] = 0
        /\ conn[r] # None => handler[conn[r]] \in {"registered", "closed"}
        /\ call[r] = "idle" => conn[r] = None

Serving ==
    \A c \in Channels : job[c] # None => conn[job[c]] = c /\ link[c] = "up"

Ordered ==
    \A c \in Channels : \A p \in 1..Len(down[c]) :
        down[c][p] # Shutdown => conn[down[c][p]] = c

OnItsWay(c, f) ==
    f.req # None =>
        /\ conn[f.req] = c
        /\ source[f.req] # "none"
        /\ f.type = "chunk" => f.index <= sent[f.req]
        /\ f.type = "end" => source[f.req] = "ended"

Framed ==
    \A c \in Channels : /\ Distinct(up[c])
                        /\ \A p \in 1..Len(up[c]) : OnItsWay(c, up[c][p])

Answered ==
    \A r \in Requests :
        /\ signal[r] = "set" => source[r] # "none"
        /\ reader[r] = "none" => got[r] = <<>>

Live(r) == call[r] \in {"idle", "sending", "waiting"} \/ reader[r] = "reading"

Queued ==
    \A r \in Streams : Live(r) => \A i \in 1..Len(queue[r]) :
        /\ queue[r][i].kind = "chunk" =>
              queue[r][i].index = Len(got[r]) + i /\ Len(got[r]) + i <= sent[r]
        /\ queue[r][i].kind = "eof" =>
              r \in cut \/ (source[r] = "ended" /\ Len(got[r]) + i - 1 = sent[r])

Following(r) == Len(got[r]) + Len(queue[r]) + 1

Flows(r) ==
    /\ Gapless(up[current], r, Following(r))
    /\ EndLast(up[current], r, Following(r), sent[r])
    /\ link[current] = "up" => Reaches(up[current], r, Following(r), sent[r])

Flowing ==
    current # None => \A r \in pending[current] \cap Streams : Flows(r)

PInv ==
    /\ Connected
    /\ Serving
    /\ Ordered
    /\ Framed
    /\ Answered
    /\ Queued
    /\ Flowing

LEMMA InitPInv == Init => PInv
<1> SUFFICES ASSUME Init PROVE PInv
  OBVIOUS
<1>1. Connected /\ Serving /\ Ordered
  BY DEF Init, Connected, Serving, Ordered
<1>2. Framed /\ Answered
  BY DEF Init, Framed, Answered, Distinct
<1>3. Queued /\ Flowing
  BY DEF Init, Queued, Flowing, Requests
<1> QED  BY <1>1, <1>2, <1>3 DEF PInv

-----------------------------------------------------------------------------
(* What a step that leaves the parts of a conjunct alone preserves.        *)

LEMMA SameWire ==
  ASSUME PInv, UNCHANGED <<conn, handler, job, link, down, up, sent, source>>,
         \A r \in Requests : call'[r] = "idle" => call[r] = "idle"
  PROVE  Connected' /\ Serving' /\ Ordered' /\ Framed'
<1>1. Connected'
  BY DEF PInv, Connected
<1>2. Serving' /\ Ordered'
  BY DEF PInv, Serving, Ordered
<1>3. Framed'
  BY DEF PInv, Framed, OnItsWay
<1> QED  BY <1>1, <1>2, <1>3

LEMMA SameFlow ==
  ASSUME PInv, UNCHANGED <<current, link, up, sent>>,
         current # None => /\ pending'[current] \subseteq pending[current]
                           /\ \A r \in pending'[current] \cap Streams :
                                 Following(r)' = Following(r)
  PROVE  Flowing'
<1> SUFFICES ASSUME current # None, NEW r \in pending'[current] \cap Streams PROVE Flows(r)'
  BY DEF Flowing
<1>1. Following(r)' = Following(r) /\ Flows(r)
  BY DEF PInv, Flowing
<1> QED  BY <1>1 DEF Flows

\* The items of a queue stay right while the agent and a deletion only go on.
LEMMA SameItems ==
  ASSUME NEW r \in Streams, PInv, IInv, Live(r), queue'[r] = queue[r], got'[r] = got[r],
         sent'[r] \in Nat, sent'[r] >= sent[r],
         source[r] = "ended" => source'[r] = "ended" /\ sent'[r] = sent[r],
         cut \subseteq cut'
  PROVE  \A i \in 1..Len(queue'[r]) :
            /\ queue'[r][i].kind = "chunk" =>
                 queue'[r][i].index = Len(got'[r]) + i /\ Len(got'[r]) + i <= sent'[r]
            /\ queue'[r][i].kind = "eof" =>
                 r \in cut' \/ (source'[r] = "ended" /\ Len(got'[r]) + i - 1 = sent'[r])
<1>1. /\ queue[r] \in Seq(Items) /\ got[r] \in Seq(1..MaxChunks) /\ sent[r] \in Nat
      /\ Len(got[r]) \in Nat
  BY MaxChunksIsNat DEF IInv, TypeOK, Requests
<1> SUFFICES ASSUME NEW i \in 1..Len(queue[r])
             PROVE  /\ queue[r][i].kind = "chunk" =>
                         queue[r][i].index = Len(got[r]) + i /\ Len(got[r]) + i <= sent'[r]
                    /\ queue[r][i].kind = "eof" =>
                         r \in cut' \/ (source'[r] = "ended" /\ Len(got[r]) + i - 1 = sent'[r])
  OBVIOUS
<1>2. /\ queue[r][i].kind = "chunk" =>
           queue[r][i].index = Len(got[r]) + i /\ Len(got[r]) + i <= sent[r]
      /\ queue[r][i].kind = "eof" =>
           r \in cut \/ (source[r] = "ended" /\ Len(got[r]) + i - 1 = sent[r])
  BY DEF PInv, Queued
<1> QED  BY <1>1, <1>2

\* One more item, that continues what is there.
LEMMA MoreItems ==
  ASSUME NEW r \in Streams, PInv, IInv, Live(r), NEW x \in Items,
         queue'[r] = Append(queue[r], x), got'[r] = got[r],
         sent'[r] = sent[r], source'[r] = source[r], cut \subseteq cut',
         x.kind = "chunk" => x.index = Following(r) /\ x.index <= sent[r],
         x.kind = "eof" => r \in cut' \/ (source[r] = "ended" /\ Following(r) = sent[r] + 1)
  PROVE  \A i \in 1..Len(queue'[r]) :
            /\ queue'[r][i].kind = "chunk" =>
                 queue'[r][i].index = Len(got'[r]) + i /\ Len(got'[r]) + i <= sent'[r]
            /\ queue'[r][i].kind = "eof" =>
                 r \in cut' \/ (source'[r] = "ended" /\ Len(got'[r]) + i - 1 = sent'[r])
<1>1. /\ queue[r] \in Seq(Items) /\ got[r] \in Seq(1..MaxChunks) /\ sent[r] \in Nat
  BY MaxChunksIsNat DEF IInv, TypeOK, Requests
<1>2. PICK g \in Nat : Len(got[r]) = g
  BY <1>1, LenProperties
<1>3. PICK l \in Nat : /\ Len(queue[r]) = l /\ Len(queue'[r]) = l + 1
                       /\ queue'[r][l + 1] = x
                       /\ \A i \in 1..l : queue'[r][i] = queue[r][i]
  BY <1>1, AppendProperties, LenProperties
<1>4. Following(r) = g + l + 1
  BY <1>2, <1>3 DEF Following
<1> SUFFICES ASSUME NEW i \in 1..(l + 1)
             PROVE  /\ queue'[r][i].kind = "chunk" =>
                         queue'[r][i].index = g + i /\ g + i <= sent[r]
                    /\ queue'[r][i].kind = "eof" =>
                         r \in cut' \/ (source[r] = "ended" /\ g + i - 1 = sent[r])
  BY <1>2, <1>3
<1>5. CASE i = l + 1
  <2>1. PICK m \in Nat : sent[r] = m
    BY <1>1
  <2>2. /\ x.kind = "chunk" => x.index = g + (l + 1) /\ g + (l + 1) <= m
        /\ x.kind = "eof" => r \in cut' \/ (source[r] = "ended" /\ g + (l + 1) - 1 = m)
    BY <1>4, <2>1
  <2> QED  BY <1>3, <1>5, <2>1, <2>2
<1>6. CASE i \in 1..l
  <2>1. /\ queue[r][i].kind = "chunk" =>
             queue[r][i].index = Len(got[r]) + i /\ Len(got[r]) + i <= sent[r]
        /\ queue[r][i].kind = "eof" =>
             r \in cut \/ (source[r] = "ended" /\ Len(got[r]) + i - 1 = sent[r])
    BY <1>3, <1>6 DEF PInv, Queued
  <2> QED  BY <1>2, <1>3, <1>6, <2>1
<1>7. i = l + 1 \/ i \in 1..l
  OBVIOUS
<1> QED  BY <1>5, <1>6, <1>7

LEMMA SameQueues ==
  ASSUME PInv, IInv,
         \A r \in Streams : Live(r)' =>
            /\ Live(r) /\ queue'[r] = queue[r] /\ got'[r] = got[r]
            /\ sent'[r] \in Nat /\ sent'[r] >= sent[r]
            /\ source[r] = "ended" => source'[r] = "ended" /\ sent'[r] = sent[r],
         cut \subseteq cut'
  PROVE  Queued'
<1> SUFFICES ASSUME NEW r \in Streams, Live(r)'
             PROVE  \A i \in 1..Len(queue'[r]) :
                 /\ queue'[r][i].kind = "chunk" =>
                      queue'[r][i].index = Len(got'[r]) + i /\ Len(got'[r]) + i <= sent'[r]
                 /\ queue'[r][i].kind = "eof" =>
                      r \in cut' \/ (source'[r] = "ended" /\ Len(got'[r]) + i - 1 = sent'[r])
  BY DEF Queued
<1> QED  BY SameItems

-----------------------------------------------------------------------------
(* send_request.                                                           *)

\* The types the proofs below use.
CallTypes ==
    /\ current \in Channels \cup {None}
    /\ Types
    /\ got \in [Requests -> Seq(1..MaxChunks)]
    /\ sent \in [Requests -> 0..MaxChunks]
    /\ source \in [Requests -> SourceStates]
    /\ cut \in SUBSET Streams

LEMMA CallTyped == ASSUME IInv PROVE CallTypes
  BY DEF IInv, TypeOK, Types, CallTypes

LEMMA SentIsNat == ASSUME IInv, NEW r \in Requests PROVE sent[r] \in Nat
  BY MaxChunksIsNat DEF IInv, TypeOK

LEMMA FollowingIsNat ==
  ASSUME IInv, NEW r \in Requests
  PROVE  Following(r) \in Nat
<1>1. queue[r] \in Seq(Items) /\ got[r] \in Seq(1..MaxChunks)
  BY DEF IInv, TypeOK
<1>2. PICK l \in Nat : Len(queue[r]) = l
  BY <1>1, LenProperties
<1>3. PICK g \in Nat : Len(got[r]) = g
  BY <1>1, LenProperties
<1> QED  BY <1>2, <1>3 DEF Following

LEMMA CallFlows ==
  ASSUME IInv, PInv, NEW r \in Requests, Call(r), current # None
  PROVE  PInv'
<1>t. CallTypes /\ down \in [Channels -> Seq(DownFrames)]
  BY CallTyped DEF IInv, TypeOK
<1>1. /\ current \in Channels
      /\ call[r] = "idle"
      /\ call' = [call EXCEPT ![r] = "sending"]
      /\ conn' = [conn EXCEPT ![r] = current]
      /\ pending' = [pending EXCEPT ![current] = @ \cup {r}]
      /\ UNCHANGED <<current, handler, signal, queue, reader, got, link, up, job, sent,
                     source, cut>>
      /\ \/ down' = down
         \/ down' = [down EXCEPT ![current] = Append(@, r)]
  BY <1>t DEF Call, streams, agent, CallTypes
<1>2. /\ conn[r] = None /\ source[r] = "none" /\ sent[r] = 0
      /\ reader[r] = "none" /\ got[r] = <<>> /\ queue[r] = <<>>
  <2>1. conn[r] = None
    BY <1>1 DEF PInv, Connected
  <2>2. reader[r] = "none"
    BY <1>1 DEF IInv, Readers
  <2> QED  BY <1>1, <2>1, <2>2 DEF PInv, Connected, IInv, IdleCalls, Answered
<1>3. \A s \in Requests \ {r} : conn'[s] = conn[s] /\ call'[s] = call[s]
  BY <1>1, <1>t DEF CallTypes, Types
<1>r. conn'[r] = current /\ call'[r] = "sending"
  BY <1>1, <1>t DEF CallTypes, Types
<1>4. Connected'
  <2>1. handler[current] = "registered"
    BY <1>1 DEF IInv, BoundMeansServed
  <2>2. current # None
    OBVIOUS
  <2>3. ASSUME NEW s \in Requests
        PROVE  /\ conn'[s] = None => source'[s] = "none" /\ sent'[s] = 0
               /\ conn'[s] # None => handler'[conn'[s]] \in {"registered", "closed"}
               /\ call'[s] = "idle" => conn'[s] = None
    BY <1>1, <1>3, <1>r, <2>1, <2>2 DEF PInv, Connected
  <2> QED  BY <2>3 DEF Connected
<1>5. Serving'
  <2> SUFFICES ASSUME NEW c \in Channels, job[c] # None
               PROVE  conn'[job[c]] = c /\ link[c] = "up"
    BY <1>1 DEF Serving
  <2>1. conn[job[c]] = c /\ link[c] = "up" /\ job[c] \in Requests
    BY DEF PInv, Serving, IInv, TypeOK
  <2>2. job[c] # r
    BY <1>2, <2>1, NoneIsFresh
  <2> QED  BY <1>3, <2>1, <2>2
<1>6. Ordered'
  <2> SUFFICES ASSUME NEW c \in Channels, NEW p \in 1..Len(down'[c]), down'[c][p] # Shutdown
               PROVE  conn'[down'[c][p]] = c
    BY DEF Ordered
  <2>1. ASSUME p \in 1..Len(down[c]), down'[c][p] = down[c][p]
        PROVE  conn'[down'[c][p]] = c
    <3>1. conn[down[c][p]] = c /\ down[c][p] \in Requests
      BY <1>t, <2>1 DEF PInv, Ordered, DownFrames
    <3>2. down[c][p] # r
      BY <1>2, <3>1, NoneIsFresh
    <3> QED  BY <1>3, <2>1, <3>1, <3>2
  <2>2. CASE down'[c] = down[c]
    BY <2>1, <2>2
  <2>3. CASE c = current /\ down'[c] = Append(down[c], r)
    <3>1. CASE p \in 1..Len(down[c])
      BY <1>t, <2>1, <2>3, <3>1
    <3>2. CASE p = Len(down[c]) + 1
      BY <1>t, <1>r, <2>3, <3>2
    <3> QED  BY <1>t, <2>3, <3>1, <3>2
  <2> QED  BY <1>1, <1>t, <2>2, <2>3
<1>7. \A c \in Channels : \A p \in 1..Len(up[c]) : up[c][p].req # r
  BY <1>2, NoneIsFresh DEF PInv, Framed, OnItsWay
<1>8. Framed'
  <2> SUFFICES ASSUME NEW c \in Channels, NEW p \in 1..Len(up[c])
               PROVE  OnItsWay(c, up[c][p])'
    BY <1>1 DEF PInv, Framed
  <2>1. up[c][p] \in UpFrames
    BY DEF IInv, TypeOK
  <2>2. up[c][p].req \in (Requests \ {r}) \cup {None}
    BY <1>7, <2>1, FrameFields
  <2> QED  BY <1>1, <1>3, <2>2 DEF PInv, Framed, OnItsWay
<1>9. Answered'
  BY <1>1 DEF PInv, Answered
<1>10. Queued'
  <2> SUFFICES ASSUME NEW s \in Streams, Live(s)'
               PROVE  /\ Live(s) /\ queue'[s] = queue[s] /\ got'[s] = got[s]
                      /\ sent'[s] \in Nat /\ sent'[s] >= sent[s]
                      /\ source[s] = "ended" => source'[s] = "ended" /\ sent'[s] = sent[s]
    BY <1>1, SameQueues
  <2>1. s \in Requests /\ sent[s] \in Nat
    BY SentIsNat DEF Requests
  <2>2. Live(s)
    BY <1>1, <1>3, <2>1 DEF Live
  <2> QED  BY <1>1, <2>1, <2>2
<1>11. Flowing'
  <2> SUFFICES ASSUME NEW s \in pending'[current] \cap Streams PROVE Flows(s)'
    BY <1>1 DEF Flowing
  <2>1. CASE s = r
    <3>1. Following(r)' = 1 /\ sent'[r] = 0
      BY <1>1, <1>2 DEF Following
    <3>2. Gapless(up[current], r, 1) /\ EndLast(up[current], r, 1, 0)
      BY <1>1, <1>7 DEF Gapless, EndLast
    <3> QED  BY <1>1, <2>1, <3>1, <3>2 DEF Flows, Reaches
  <2>2. CASE s # r
    <3>1. s \in pending[current]
      BY <1>1, <1>t, <2>2 DEF CallTypes, Types
    <3>2. Flows(s)
      BY <3>1 DEF PInv, Flowing
    <3> QED  BY <1>1, <3>2 DEF Flows, Following
  <2> QED  BY <2>1, <2>2
<1> QED  BY <1>4, <1>5, <1>6, <1>8, <1>9, <1>10, <1>11 DEF PInv

LEMMA CallStepFlows ==
  ASSUME IInv, PInv, NEW r \in Requests, CallStep(r)
  PROVE  PInv'
<1>t. CallTypes
  BY CallTyped
<1>s. \A s \in Requests : sent[s] \in Nat
  BY SentIsNat
<1>1. CASE Call(r) /\ current # None
  BY <1>1, CallFlows
<1>2. CASE Call(r) /\ current = None
  <2>1. /\ call[r] = "idle" /\ call' = [call EXCEPT ![r] = "unavailable"]
        /\ UNCHANGED <<current, pending, handler, conn, signal, queue, reader, got, link, down,
                       up, job, sent, source, cut>>
    BY <1>2 DEF Call, streams, agent
  <2>2. \A s \in Requests : call'[s] = "idle" => call[s] = "idle"
    BY <1>t, <2>1 DEF CallTypes, Types
  <2>3. \A s \in Streams : Live(s)' => Live(s)
    BY <1>t, <2>1 DEF CallTypes, Types, Live, Requests
  <2>4. Queued'
    BY <1>s, <2>1, <2>3, SameQueues DEF Requests
  <2>5. Flowing'
    BY <1>2, <2>1 DEF Flowing
  <2>6. Answered'
    BY <2>1 DEF PInv, Answered
  <2> QED  BY <2>1, <2>2, <2>4, <2>5, <2>6, SameWire DEF PInv
<1>3. CASE SendReturns(r)
  <2>1. /\ call[r] = "sending" /\ call' = [call EXCEPT ![r] = "waiting"]
        /\ UNCHANGED <<current, pending, handler, conn, signal, queue, reader, got, link, down,
                       up, job, sent, source, cut>>
    BY <1>3 DEF SendReturns, manager, streams, wire, agent
  <2>2. \A s \in Requests : call'[s] = "idle" => call[s] = "idle"
    BY <1>t, <2>1 DEF CallTypes, Types
  <2>3. \A s \in Streams : Live(s)' => Live(s)
    BY <1>t, <2>1 DEF CallTypes, Types, Live, Requests
  <2>4. Queued'
    BY <1>s, <2>1, <2>3, SameQueues DEF Requests
  <2>5. Flowing'
    BY <2>1, SameFlow DEF Following
  <2>6. Answered'
    BY <2>1 DEF PInv, Answered
  <2> QED  BY <2>1, <2>2, <2>4, <2>5, <2>6, SameWire DEF PInv
<1>4. CASE SendRaises(r) \/ Timeout(r)
  <2>1. /\ call[r] \in {"sending", "waiting"}
        /\ \/ call' = [call EXCEPT ![r] = "raised"]
           \/ call' = [call EXCEPT ![r] = "unavailable"]
        /\ pending' = Forget(r)
        /\ UNCHANGED <<current, handler, conn, reader, got, link, down, up, job, sent, source,
                       cut>>
        /\ \/ signal' = signal
           \/ signal' = [signal EXCEPT ![r] = IF @ = "none" THEN "cancelled" ELSE @]
        /\ queue' = queue \/ queue' = [queue EXCEPT ![r] = Append(@, EOF)]
    BY <1>4 DEF SendRaises, Timeout, GiveUp, wire, agent
  <2>2. /\ reader[r] = "none"
        /\ \A c \in Channels : pending'[c] \subseteq pending[c] /\ r \notin pending'[c]
    BY <2>1, ForgetLeaves DEF IInv, Readers
  <2>3. \A s \in Requests \ {r} : call'[s] = call[s] /\ queue'[s] = queue[s]
    BY <1>t, <2>1 DEF CallTypes, Types
  <2>4. call'[r] \in {"raised", "unavailable"}
    BY <1>t, <2>1 DEF CallTypes, Types
  <2>5. \A s \in Requests : call'[s] = "idle" => call[s] = "idle"
    BY <2>3, <2>4
  <2>6. \A s \in Streams : Live(s)' => Live(s) /\ s # r
    BY <2>1, <2>2, <2>3, <2>4 DEF Live, Requests
  <2>7. Queued'
    BY <1>s, <2>1, <2>3, <2>6, SameQueues DEF Requests
  <2>8. Flowing'
    <3>1. ASSUME current # None
          PROVE  /\ pending'[current] \subseteq pending[current]
                 /\ \A s \in pending'[current] \cap Streams : Following(s)' = Following(s)
      <4>1. current \in Channels
        BY <1>t, <3>1 DEF CallTypes
      <4> QED  BY <2>1, <2>2, <2>3, <4>1 DEF Following, Requests
    <3> QED  BY <2>1, <3>1, SameFlow
  <2>9. Answered'
    BY <1>t, <2>1 DEF CallTypes, Types, PInv, Answered
  <2> QED  BY <2>1, <2>5, <2>7, <2>8, <2>9, SameWire DEF PInv
<1>5. CASE Wake(r)
  <2>1. /\ call[r] = "waiting" /\ signal[r] # "none"
        /\ call' = [call EXCEPT ![r] =
               CASE signal[r] = "set"       -> "returned"
                 [] signal[r] = "exception" -> "unavailable"
                 [] signal[r] = "cancelled" -> "cancelled"]
        /\ pending' = pending \/ pending' = Forget(r)
        /\ \/ reader' = reader
           \/ reader' = [reader EXCEPT ![r] = "reading"]
        /\ UNCHANGED <<current, handler, conn, signal, queue, got, link, down, up, job, sent,
                       source, cut>>
    BY <1>5 DEF Wake, wire, agent
  <2>2. call'[r] \in {"returned", "unavailable", "cancelled"}
    BY <1>t, <2>1 DEF CallTypes, Types, SignalStates
  <2>3. \A s \in Requests \ {r} : call'[s] = call[s] /\ reader'[s] = reader[s]
    BY <1>t, <2>1 DEF CallTypes, Types
  <2>4. \A s \in Requests : call'[s] = "idle" => call[s] = "idle"
    BY <2>2, <2>3
  <2>5. \A s \in Streams : Live(s)' => Live(s)
    BY <2>1, <2>3 DEF Live, Requests
  <2>6. Queued'
    BY <1>s, <2>1, <2>5, SameQueues DEF Requests
  <2>7. Flowing'
    <3>1. \A c \in Channels : pending'[c] \subseteq pending[c]
      BY <2>1, ForgetLeaves
    <3> QED  BY <1>t, <2>1, <3>1, SameFlow DEF CallTypes, Following
  <2>8. Answered'
    BY <1>t, <2>1 DEF CallTypes, Types, PInv, Answered
  <2> QED  BY <2>1, <2>4, <2>6, <2>7, <2>8, SameWire DEF PInv
<1> QED  BY <1>1, <1>2, <1>3, <1>4, <1>5 DEF CallStep

-----------------------------------------------------------------------------
(* The reader of a stream.                                                 *)

\* What queue.get() can return to the reader of a stream.
LEMMA NextItem ==
  ASSUME IInv, PInv, NEW r \in Streams, reader[r] = "reading", queue[r] # <<>>
  PROVE  /\ Head(queue[r]).kind \in {"chunk", "eof", "error"}
         /\ Head(queue[r]).kind = "chunk" =>
               /\ Head(queue[r]).index = Len(got[r]) + 1
               /\ Len(got[r]) < sent[r]
         /\ Head(queue[r]).kind = "eof" =>
               r \in cut \/ (source[r] = "ended" /\ Len(got[r]) = sent[r])
<1>1. queue[r] \in Seq(Items) /\ got[r] \in Seq(1..MaxChunks) /\ sent[r] \in Nat
  BY SentIsNat DEF IInv, TypeOK, Requests
<1>2. Head(queue[r]) = queue[r][1] /\ 1 \in 1..Len(queue[r]) /\ queue[r][1] \in Items
  BY <1>1
<1>3. queue[r][1].kind \in {"chunk", "eof", "error"}
  BY <1>2, ItemFields
<1>4. /\ queue[r][1].kind = "chunk" =>
           queue[r][1].index = Len(got[r]) + 1 /\ Len(got[r]) + 1 <= sent[r]
      /\ queue[r][1].kind = "eof" =>
           r \in cut \/ (source[r] = "ended" /\ Len(got[r]) + 1 - 1 = sent[r])
  BY <1>2 DEF PInv, Queued, Live
<1>5. Len(got[r]) \in Nat
  BY <1>1
<1> QED  BY <1>1, <1>2, <1>3, <1>4, <1>5

LEMMA ReadChunkFlows ==
  ASSUME IInv, PInv, NEW r \in Streams, ReadItem(r), Head(queue[r]).kind = "chunk"
  PROVE  PInv'
<1>t. CallTypes /\ r \in Requests
  BY CallTyped DEF Requests
<1>s. \A s \in Requests : sent[s] \in Nat
  BY SentIsNat
<1>1. /\ reader[r] = "reading" /\ queue[r] # <<>>
      /\ queue' = [queue EXCEPT ![r] = Tail(@)]
      /\ got' = [got EXCEPT ![r] = Append(@, Head(queue[r]).index)]
      /\ UNCHANGED <<current, pending, handler, call, conn, signal, reader, link, down, up, job,
                     sent, source, cut>>
  BY DEF ReadItem, manager, calls, wire, agent
<1>2. /\ queue[r] \in Seq(Items) /\ got[r] \in Seq(1..MaxChunks)
      /\ queue'[r] = Tail(queue[r]) /\ got'[r] = Append(got[r], Head(queue[r]).index)
      /\ \A s \in Requests \ {r} : queue'[s] = queue[s] /\ got'[s] = got[s]
  BY <1>1, <1>t DEF CallTypes, Types
<1>h. Head(queue[r]).index \in 1..MaxChunks
  BY <1>1, <1>2, ItemFields, HeadTailProperties
<1>g. PICK g \in Nat : Len(got[r]) = g /\ Len(got'[r]) = g + 1
  BY <1>2, <1>h, AppendProperties, LenProperties
<1>q. PICK l \in Nat : Len(queue[r]) = l /\ Len(queue'[r]) = l - 1 /\ l - 1 \in Nat
  <2>1. Len(queue[r]) \in Nat \ {0} /\ Len(Tail(queue[r])) = Len(queue[r]) - 1
    BY <1>1, <1>2, HeadTailProperties, LenProperties, EmptySeq
  <2> QED  BY <1>2, <2>1
<1>3. \A i \in 1..Len(queue'[r]) : queue'[r][i] = queue[r][i + 1] /\ i + 1 \in 1..Len(queue[r])
  BY <1>1, <1>2, <1>q, HeadTailProperties
<1>4. ASSUME NEW s \in Requests PROVE Following(s)' = Following(s)
  <2>1. CASE s = r
    <3>1. Len(got'[r]) + Len(queue'[r]) + 1 = Len(got[r]) + Len(queue[r]) + 1
      BY <1>g, <1>q
    <3> QED  BY <2>1, <3>1 DEF Following
  <2>2. CASE s # r
    BY <1>2, <2>2 DEF Following
  <2> QED  BY <2>1, <2>2
<1>5. Flowing'
  BY <1>1, <1>4, SameFlow DEF Requests
<1>6. Answered'
  BY <1>1, <1>2 DEF PInv, Answered
<1>7. Queued'
  <2> SUFFICES ASSUME NEW s \in Streams, Live(s)'
               PROVE  \A i \in 1..Len(queue'[s]) :
                 /\ queue'[s][i].kind = "chunk" =>
                      queue'[s][i].index = Len(got'[s]) + i /\ Len(got'[s]) + i <= sent'[s]
                 /\ queue'[s][i].kind = "eof" =>
                      s \in cut' \/ (source'[s] = "ended" /\ Len(got'[s]) + i - 1 = sent'[s])
    BY DEF Queued
  <2>1. Live(s) /\ s \in Requests
    BY <1>1 DEF Live, Requests
  <2>2. CASE s # r
    <3>1. queue'[s] = queue[s] /\ got'[s] = got[s]
      BY <1>2, <2>1, <2>2
    <3>2. /\ sent'[s] \in Nat /\ sent'[s] >= sent[s]
          /\ source[s] = "ended" => source'[s] = "ended" /\ sent'[s] = sent[s]
          /\ cut \subseteq cut'
      BY <1>1, <1>s, <2>1
    <3> QED  BY <2>1, <3>1, <3>2, SameItems
  <2>3. CASE s = r
    <3> SUFFICES ASSUME NEW i \in 1..Len(queue'[r])
                 PROVE  /\ queue'[r][i].kind = "chunk" =>
                             /\ queue'[r][i].index = Len(got'[r]) + i
                             /\ Len(got'[r]) + i <= sent[r]
                        /\ queue'[r][i].kind = "eof" =>
                             r \in cut \/ (source[r] = "ended" /\ Len(got'[r]) + i - 1 = sent[r])
      BY <1>1, <2>3
    <3>1. /\ queue[r][i + 1].kind = "chunk" =>
               /\ queue[r][i + 1].index = Len(got[r]) + (i + 1)
               /\ Len(got[r]) + (i + 1) <= sent[r]
          /\ queue[r][i + 1].kind = "eof" =>
               r \in cut \/ (source[r] = "ended" /\ Len(got[r]) + (i + 1) - 1 = sent[r])
      BY <1>3, <2>1, <2>3 DEF PInv, Queued
    <3>2. /\ Len(got[r]) + (i + 1) = Len(got'[r]) + i
          /\ Len(got[r]) + (i + 1) - 1 = Len(got'[r]) + i - 1
      BY <1>g, <1>q
    <3> QED  BY <1>3, <3>1, <3>2
  <2> QED  BY <2>2, <2>3
<1> QED  BY <1>1, <1>5, <1>6, <1>7, SameWire DEF PInv

\* The reader stops: at the last item, at the idle timeout, or hung up.
LEMMA StopFlows ==
  ASSUME IInv, PInv, NEW r \in Streams,
         UNCHANGED <<current, handler, call, conn, signal, got, link, down, up, job, sent, source,
                     cut>>,
         reader[r] = "reading", reader'[r] \in {"complete", "failed", "abandoned"},
         \A s \in Requests \ {r} : reader'[s] = reader[s] /\ queue'[s] = queue[s],
         current # None => pending'[current] \subseteq pending[current],
         queue'[r] = queue[r] \/ (current # None => r \notin pending'[current])
  PROVE  PInv'
<1>t. CallTypes /\ r \in Requests
  BY CallTyped DEF Requests
<1>s. \A s \in Requests : sent[s] \in Nat
  BY SentIsNat
<1>1. call[r] = "returned"
  BY <1>t DEF IInv, Readers
<1>2. \A s \in Streams : Live(s)' => Live(s) /\ s # r
  BY <1>1 DEF Live, Requests
<1>3. Queued'
  BY <1>2, <1>s, SameQueues DEF Requests
<1>4. current # None => \A s \in pending'[current] \cap Streams : Following(s)' = Following(s)
  BY DEF Following, Requests
<1>5. Flowing'
  BY <1>4, SameFlow
<1>6. Answered'
  BY <1>t DEF PInv, Answered
<1> QED  BY <1>3, <1>5, <1>6, SameWire DEF PInv

LEMMA ReaderFlows ==
  ASSUME IInv, PInv, NEW r \in Streams, ReaderStep(r)
  PROVE  PInv'
<1>t. CallTypes /\ r \in Requests
  BY CallTyped DEF Requests
<1>c. current # None => current \in Channels
  BY <1>t DEF CallTypes
<1>1. CASE ReadItem(r) /\ Head(queue[r]).kind = "chunk"
  BY <1>1, ReadChunkFlows
<1>2. CASE ReadItem(r) /\ Head(queue[r]).kind # "chunk"
  <2>1. /\ reader[r] = "reading" /\ queue[r] # <<>>
        /\ queue' = [queue EXCEPT ![r] = Tail(@)]
        /\ UNCHANGED <<current, pending, handler, call, conn, signal, got, link, down, up, job,
                       sent, source, cut>>
    BY <1>2 DEF ReadItem, manager, calls, wire, agent
  <2>2. Head(queue[r]).kind \in {"eof", "error"}
    BY <1>2, <2>1, NextItem
  <2>3. \/ reader' = [reader EXCEPT ![r] = "complete"]
        \/ reader' = [reader EXCEPT ![r] = "failed"]
    BY <1>2, <2>2 DEF ReadItem
  <2>4. \A c \in Channels : r \notin pending[c]
    BY <1>t, <1>2, <2>1, EndedTail DEF CallTypes, Types, IInv, EndedStreams
  <2>5. /\ reader'[r] \in {"complete", "failed"}
        /\ \A s \in Requests \ {r} : reader'[s] = reader[s] /\ queue'[s] = queue[s]
    BY <1>t, <2>1, <2>3 DEF CallTypes, Types
  <2> QED  BY <1>c, <2>1, <2>4, <2>5, StopFlows
<1>3. CASE IdleTimeout(r)
  <2>1. /\ reader[r] = "reading"
        /\ reader' = [reader EXCEPT ![r] = "failed"]
        /\ pending' = Forget(r)
        /\ UNCHANGED <<current, handler, call, conn, signal, queue, got, link, down, up, job,
                       sent, source, cut>>
    BY <1>3 DEF IdleTimeout, calls, wire, agent
  <2>2. \A c \in Channels : pending'[c] \subseteq pending[c]
    BY <1>t, <2>1, ForgetLeaves
  <2>3. /\ reader'[r] = "failed"
        /\ \A s \in Requests \ {r} : reader'[s] = reader[s]
    BY <1>t, <2>1 DEF CallTypes, Types
  <2> QED  BY <1>c, <2>1, <2>2, <2>3, StopFlows
<1>4. CASE Abandon(r)
  <2>1. /\ reader[r] = "reading"
        /\ reader' = [reader EXCEPT ![r] = "abandoned"]
        /\ UNCHANGED <<current, pending, handler, call, conn, signal, queue, got, link, down, up,
                       job, sent, source, cut>>
    BY <1>4 DEF Abandon, manager, calls, wire, agent
  <2>2. /\ reader'[r] = "abandoned"
        /\ \A s \in Requests \ {r} : reader'[s] = reader[s]
    BY <1>t, <2>1 DEF CallTypes, Types
  <2> QED  BY <1>c, <2>1, <2>2, StopFlows
<1> QED  BY <1>1, <1>2, <1>3, <1>4 DEF ReaderStep

-----------------------------------------------------------------------------
(* agent_ws: the frames that arrive.                                       *)

LEMMA UpTyped ==
  ASSUME IInv, NEW c \in Channels
  PROVE  /\ up[c] \in Seq(UpFrames)
         /\ up[c] # <<>> => Head(up[c]) \in UpFrames /\ Tail(up[c]) \in Seq(UpFrames)
  BY HeadTailProperties DEF IInv, TypeOK

\* The frame at the front is what the agent has made, on the call's websocket.
LEMMA FrontFrame ==
  ASSUME IInv, PInv, NEW c \in Channels, up[c] # <<>>
  PROVE  OnItsWay(c, Head(up[c]))
<1>1. Head(up[c]) = up[c][1] /\ 1 \in 1..Len(up[c])
  BY UpTyped
<1> QED  BY <1>1 DEF PInv, Framed

\* Taking it leaves the others right.
LEMMA FrontTaken ==
  ASSUME IInv, PInv, NEW c \in Channels, up[c] # <<>>, up' = [up EXCEPT ![c] = Tail(@)],
         UNCHANGED <<conn, source, sent>>
  PROVE  Framed'
<1>t. up \in [Channels -> Seq(UpFrames)] /\ up[c] \in Seq(UpFrames)
  BY DEF IInv, TypeOK
<1> SUFFICES ASSUME NEW d \in Channels
             PROVE  Distinct(up'[d]) /\ \A p \in 1..Len(up'[d]) : OnItsWay(d, up'[d][p])
  BY DEF Framed, OnItsWay
<1>1. CASE d # c
  <2>1. up'[d] = up[d]
    BY <1>t, <1>1
  <2> QED  BY <2>1 DEF PInv, Framed
<1>2. CASE d = c
  <2>1. up'[c] = Tail(up[c]) /\ Distinct(Tail(up[c]))
    BY <1>t, DistinctKept DEF PInv, Framed
  <2>2. ASSUME NEW p \in 1..Len(Tail(up[c])) PROVE OnItsWay(c, Tail(up[c])[p])
    <3>1. Tail(up[c])[p] = up[c][p + 1] /\ p + 1 \in 1..Len(up[c])
      BY <1>t
    <3> QED  BY <3>1 DEF PInv, Framed
  <2> QED  BY <1>2, <2>1, <2>2
<1> QED  BY <1>1, <1>2

LEMMA RegisterFlows ==
  ASSUME IInv, PInv, NEW c \in Channels, ReceiveRegister(c)
  PROVE  PInv'
<1>t. /\ CallTypes /\ handler \in [Channels -> HandlerStates]
      /\ link \in [Channels -> LinkStates] /\ up \in [Channels -> Seq(UpFrames)]
  BY CallTyped DEF IInv, TypeOK
<1>s. \A s \in Requests : sent[s] \in Nat
  BY SentIsNat
<1>1. /\ handler[c] = "accepted" /\ up[c] # <<>> /\ up' = [up EXCEPT ![c] = Tail(@)]
      /\ UNCHANGED <<pending, call, conn, signal, queue, reader, got, down, job, sent, source, cut>>
      /\ \/ /\ handler' = [handler EXCEPT ![c] = "closed"]
            /\ link' = [link EXCEPT ![c] = "lost"]
            /\ UNCHANGED current
         \/ /\ handler' = [handler EXCEPT ![c] = "registered"]
            /\ current' = c
            /\ UNCHANGED link
  BY DEF ReceiveRegister, calls, streams, agent
<1>2. \A r \in Requests : conn[r] # c
  BY <1>1, NoneIsFresh DEF PInv, Connected
<1>3. pending[c] = {}
  BY <1>2, <1>t DEF IInv, OwnedEntries, CallTypes, Types
<1>4. Connected'
  BY <1>t, <1>1, <1>2 DEF PInv, Connected, CallTypes, Types
<1>5. Serving'
  <2>1. \A d \in Channels : job[d] # None => d # c
    BY <1>2 DEF PInv, Serving, IInv, TypeOK
  <2>2. \A d \in Channels : d # c => link'[d] = link[d]
    BY <1>t, <1>1
  <2> QED  BY <1>1, <2>1, <2>2 DEF PInv, Serving
<1>6. Ordered' /\ Framed'
  BY <1>1, FrontTaken DEF PInv, Ordered
<1>7. Answered' /\ Queued'
  <2>1. \A s \in Streams : Live(s)' => Live(s)
    BY <1>1 DEF Live
  <2> QED  BY <1>1, <1>s, <2>1, SameQueues DEF PInv, Answered, Requests
<1>8. Flowing'
  <2> SUFFICES ASSUME current' # None, NEW r \in pending[current'] \cap Streams PROVE Flows(r)'
    BY <1>1 DEF Flowing
  <2>1. current' # c /\ current' = current /\ current \in Channels
    BY <1>1, <1>3, <1>t DEF CallTypes
  <2>2. up'[current] = up[current] /\ link'[current] = link[current]
    BY <1>t, <1>1, <2>1
  <2>3. Flows(r)
    BY <2>1 DEF PInv, Flowing
  <2> QED  BY <1>1, <2>1, <2>2, <2>3 DEF Flows, Following
<1> QED  BY <1>4, <1>5, <1>6, <1>7, <1>8 DEF PInv

\* The frames of the other streams, when one frame is taken from the front.
LEMMA OthersFlow ==
  ASSUME IInv, PInv, NEW c \in Channels, up[c] # <<>>, up' = [up EXCEPT ![c] = Tail(@)],
         UNCHANGED <<current, link, sent, got>>, current # None,
         NEW r \in pending[current] \cap Streams, queue'[r] = queue[r],
         ~(Head(up[c]).type = "chunk" /\ Head(up[c]).req = r)
  PROVE  Flows(r)'
<1>t. up \in [Channels -> Seq(UpFrames)] /\ up[c] \in Seq(UpFrames) /\ current \in Channels
  BY DEF IInv, TypeOK
<1>1. Flows(r) /\ Following(r)' = Following(r)
  BY DEF PInv, Flowing, Following
<1>2. CASE c = current
  <2>1. up'[current] = Tail(up[current])
    BY <1>t, <1>2
  <2> QED  BY <1>t, <1>1, <1>2, <2>1, TakeOther DEF Flows
<1>3. CASE c # current
  <2>1. up'[current] = up[current]
    BY <1>t, <1>3
  <2> QED  BY <1>1, <2>1 DEF Flows
<1> QED  BY <1>2, <1>3

\* A frame that leaves the queues alone.
LEMMA OtherFrameFlows ==
  ASSUME IInv, PInv, NEW c \in Channels, ReceiveFrame(c),
         ~(Entry(Head(up[c]).req) /\ Head(up[c]).type \in {"chunk", "end", "error"})
  PROVE  PInv'
<1> DEFINE m == Head(up[c])
           r == m.req
<1>t. CallTypes
  BY CallTyped
<1>s. \A s \in Requests : sent[s] \in Nat
  BY SentIsNat
<1>1. /\ up[c] # <<>> /\ up' = [up EXCEPT ![c] = Tail(@)]
      /\ UNCHANGED <<current, handler, call, conn, queue, reader, got, link, down, job, sent,
                     source, cut>>
      /\ \/ UNCHANGED <<pending, signal>> /\ ~Entry(r)
         \/ /\ Entry(r) /\ m.type \in {"start", "refuse"}
            /\ signal' = [signal EXCEPT ![r] = IF @ = "none" THEN "set" ELSE @]
            /\ pending' = pending \/ pending' = [pending EXCEPT ![current] = @ \ {r}]
  BY DEF ReceiveFrame, EndStream, agent
<1>2. Connected' /\ Serving' /\ Ordered' /\ Framed'
  <2>1. UNCHANGED <<handler, call, conn, link, down, job, sent, source>>
    BY <1>1
  <2>2. Framed'
    BY <1>1, FrontTaken
  <2>3. Connected' /\ Serving'
    BY <2>1 DEF PInv, Connected, Serving
  <2>4. Ordered'
    BY <2>1 DEF PInv, Ordered
  <2> QED  BY <2>2, <2>3, <2>4
<1>3. Answered'
  <2> SUFFICES ASSUME NEW s \in Requests, signal'[s] = "set", signal[s] # "set"
               PROVE  source[s] # "none"
    BY <1>1 DEF PInv, Answered
  <2>1. s = r
    BY <1>1, <1>t DEF CallTypes, Types
  <2>2. OnItsWay(c, m) /\ r # None
    BY <1>1, <2>1, FrontFrame, NoneIsFresh
  <2> QED  BY <2>1, <2>2 DEF OnItsWay
<1>4. Queued'
  <2>1. \A s \in Streams : Live(s)' => Live(s)
    BY <1>1 DEF Live
  <2> QED  BY <1>1, <1>s, <2>1, SameQueues DEF Requests
<1>5. Flowing'
  <2> SUFFICES ASSUME current # None, NEW s \in pending'[current] \cap Streams PROVE Flows(s)'
    BY <1>1 DEF Flowing
  <2>1. s \in pending[current] /\ current \in Channels
    BY <1>1, <1>t DEF CallTypes, Types
  <2>2. ~(m.type = "chunk" /\ r = s)
    BY <2>1, <1>1 DEF Entry
  <2> QED  BY <1>1, <2>1, <2>2, OthersFlow
<1> QED  BY <1>2, <1>3, <1>4, <1>5 DEF PInv

\* The state of a stream whose frame arrives: nothing of it is missing before.
LEMMA Arrives ==
  ASSUME IInv, PInv, NEW c \in Channels, up[c] # <<>>, Entry(Head(up[c]).req),
         Head(up[c]).req \in Streams
  PROVE  LET m == Head(up[c])  r == m.req IN
         /\ c = current
         /\ m.type = "chunk" => m.index = Following(r) /\ m.index <= sent[r]
         /\ m.type = "end" => source[r] = "ended" /\ Following(r) = sent[r] + 1
<1> DEFINE m == Head(up[c])
           r == m.req
<1>t. /\ current \in Channels /\ r \in pending[current] /\ r \in Requests
      /\ up[c] \in Seq(UpFrames) /\ m \in UpFrames
      /\ queue[r] \in Seq(Items) /\ got[r] \in Seq(1..MaxChunks) /\ sent[r] \in Nat
  BY UpTyped, SentIsNat DEF Entry, IInv, TypeOK, Requests
<1>1. conn[r] = current /\ conn[r] = c /\ OnItsWay(c, m)
  BY <1>t, FrontFrame, NoneIsFresh DEF OnItsWay, IInv, OwnedEntries
<1>2. Flows(r)
  BY <1>t, NoneIsFresh DEF PInv, Flowing
<1>3. m = up[c][1] /\ 1 \in 1..Len(up[c])
  BY <1>t
<1>4. Following(r) \in Nat
  BY <1>t, FollowingIsNat
<1>5. ASSUME m.type = "chunk" PROVE m.index = Following(r) /\ m.index <= sent[r]
  <2>1. m.index = Following(r)
    <3>1. \/ up[c][1].index = Following(r)
          \/ \E k \in 1..(1 - 1) : up[c][k] = ChunkOf(r, up[c][1].index - 1)
      BY <1>1, <1>2, <1>3, <1>5 DEF Flows, Gapless
    <3> QED  BY <1>3, <3>1
  <2>2. m.index <= sent[r]
    BY <1>1, <1>5, <1>t, NoneIsFresh DEF OnItsWay
  <2> QED  BY <2>1, <2>2
<1>6. ASSUME m.type = "end" PROVE source[r] = "ended" /\ Following(r) = sent[r] + 1
  <2>1. \/ Following(r) = sent[r] + 1
        \/ \E k \in 1..(1 - 1) : up[c][k] = ChunkOf(r, sent[r])
    BY <1>1, <1>2, <1>3, <1>6 DEF Flows, EndLast
  <2>2. source[r] = "ended"
    BY <1>1, <1>6, <1>t, NoneIsFresh DEF OnItsWay
  <2> QED  BY <2>1, <2>2
<1> QED  BY <1>1, <1>5, <1>6

\* handle_message has put an item in the queue of r, if r is a stream.
LEMMA ItemFlows ==
  ASSUME IInv, PInv, NEW c \in Channels, NEW r \in Requests, NEW x \in Items,
         queue' = [queue EXCEPT ![r] = Append(@, x)],
         UNCHANGED <<call, reader, got, sent, source, cut>>,
         r \in Streams /\ x.kind = "chunk" => x.index = Following(r) /\ x.index <= sent[r],
         r \in Streams /\ x.kind = "eof" => source[r] = "ended" /\ Following(r) = sent[r] + 1
  PROVE  Queued'
<1>t. queue \in [Requests -> Seq(Items)] /\ \A s \in Requests : sent[s] \in Nat
  BY SentIsNat DEF IInv, TypeOK
<1> SUFFICES ASSUME NEW s \in Streams, Live(s)'
             PROVE  \A i \in 1..Len(queue'[s]) :
                 /\ queue'[s][i].kind = "chunk" =>
                      queue'[s][i].index = Len(got'[s]) + i /\ Len(got'[s]) + i <= sent'[s]
                 /\ queue'[s][i].kind = "eof" =>
                      s \in cut' \/ (source'[s] = "ended" /\ Len(got'[s]) + i - 1 = sent'[s])
  BY DEF Queued
<1>1. Live(s) /\ s \in Requests
  BY DEF Live, Requests
<1>2. CASE s = r
  <2>1. queue'[s] = Append(queue[s], x)
    BY <1>t, <1>1, <1>2
  <2> QED  BY <1>1, <1>2, <2>1, MoreItems
<1>3. CASE s # r
  <2>1. queue'[s] = queue[s]
    BY <1>t, <1>1, <1>3
  <2>2. /\ sent'[s] \in Nat /\ sent'[s] >= sent[s]
        /\ source[s] = "ended" => source'[s] = "ended" /\ sent'[s] = sent[s]
        /\ cut \subseteq cut' /\ got'[s] = got[s]
    BY <1>t, <1>1
  <2> QED  BY <1>1, <2>1, <2>2, SameItems
<1> QED  BY <1>2, <1>3

\* A chunk, or the end of a stream.
LEMMA ItemFrameFlows ==
  ASSUME IInv, PInv, NEW c \in Channels, ReceiveFrame(c),
         Entry(Head(up[c]).req), Head(up[c]).type \in {"chunk", "end", "error"}
  PROVE  PInv'
<1> DEFINE m == Head(up[c])
           r == m.req
           x == CASE m.type = "chunk" -> Chunk(m.index)
                  [] m.type = "end"   -> EOF
                  [] m.type = "error" -> Failure
<1>t. CallTypes /\ up \in [Channels -> Seq(UpFrames)]
  BY CallTyped DEF IInv, TypeOK
<1>1. /\ up[c] # <<>> /\ up' = [up EXCEPT ![c] = Tail(@)]
      /\ UNCHANGED <<current, handler, call, conn, signal, reader, got, link, down, job, sent,
                     source, cut>>
      /\ queue' = [queue EXCEPT ![r] = Append(@, x)]
      /\ \/ m.type = "chunk" /\ UNCHANGED pending
         \/ m.type # "chunk" /\ pending' = [pending EXCEPT ![current] = @ \ {r}]
  BY DEF ReceiveFrame, EndStream, agent
<1>m. m \in UpFrames /\ up[c] \in Seq(UpFrames)
  BY <1>1, UpTyped
<1>c. current \in Channels /\ current # None /\ r \in pending[current] /\ r \in Requests
  BY <1>t, NoneIsFresh DEF Entry, CallTypes, Types
<1>x. /\ x \in Items
      /\ x.kind = "chunk" => m.type = "chunk" /\ x.index = m.index
      /\ x.kind = "eof" => m.type = "end"
  <2>1. m.type = "chunk" => m.index \in 1..MaxChunks
    BY <1>m, FrameFields
  <2>2. CASE m.type = "chunk"
    BY <2>1, <2>2, ItemTypes DEF Chunk
  <2>3. CASE m.type = "end"
    BY <2>3, ItemTypes DEF EOF
  <2>4. CASE m.type = "error"
    BY <2>4, ItemTypes DEF Failure
  <2> QED  BY <2>2, <2>3, <2>4
<1> HIDE DEF x
<1>2. Connected' /\ Serving' /\ Ordered' /\ Framed' /\ Answered'
  <2>1. UNCHANGED <<handler, call, conn, link, down, job, sent, source, signal, reader, got>>
    BY <1>1
  <2>2. Framed'
    BY <1>1, FrontTaken
  <2>3. Connected' /\ Serving' /\ Answered'
    BY <2>1 DEF PInv, Connected, Serving, Answered
  <2>4. Ordered'
    BY <2>1 DEF PInv, Ordered
  <2> QED  BY <2>2, <2>3, <2>4
<1>3. r \in Streams =>
         /\ c = current
         /\ m.type = "chunk" => m.index = Following(r) /\ m.index <= sent[r]
         /\ m.type = "end" => source[r] = "ended" /\ Following(r) = sent[r] + 1
  BY <1>1, Arrives
<1>4. Queued'
  BY <1>1, <1>c, <1>x, <1>3, ItemFlows
<1>5. Flowing'
  <2> SUFFICES ASSUME NEW s \in pending'[current] \cap Streams PROVE Flows(s)'
    BY <1>1 DEF Flowing
  <2>1. s \in pending[current] /\ s \in Requests /\ (m.type # "chunk" => s # r)
    BY <1>1, <1>t, <1>c DEF CallTypes, Types
  <2>2. CASE s # r
    <3>1. queue'[s] = queue[s]
      BY <1>1, <1>t, <2>1, <2>2 DEF CallTypes, Types
    <3> QED  BY <1>1, <1>c, <2>1, <2>2, <3>1, OthersFlow
  <2>3. CASE s = r
    <3>1. m.type = "chunk" /\ c = current /\ m.index <= sent[s]
      BY <1>3, <2>1, <2>3
    <3>2. Flows(s) /\ Distinct(up[current]) /\ Following(s) \in Nat /\ sent[s] \in Nat
      BY <1>c, <2>1, FollowingIsNat, SentIsNat DEF PInv, Flowing, Framed
    <3>3. up'[current] = Tail(up[current])
      BY <1>1, <1>t, <3>1
    <3>4. Following(s)' = Following(s) + 1
      <4>1. queue[s] \in Seq(Items) /\ got[s] \in Seq(1..MaxChunks)
            /\ queue'[s] = Append(queue[s], x)
        BY <1>1, <1>t, <2>1, <2>3 DEF CallTypes, Types
      <4>2. PICK l \in Nat : Len(queue[s]) = l /\ Len(queue'[s]) = l + 1
        BY <4>1, <1>x, AppendProperties, LenProperties
      <4>3. PICK g \in Nat : Len(got[s]) = g
        BY <4>1, LenProperties
      <4>4. Following(s) = g + l + 1 /\ Following(s)' = g + (l + 1) + 1
        BY <1>1, <4>2, <4>3 DEF Following
      <4> QED  BY <4>4
    <3>5. /\ Gapless(Tail(up[c]), s, Following(s) + 1)
          /\ EndLast(Tail(up[c]), s, Following(s) + 1, sent[s])
          /\ link[current] = "up" => Reaches(Tail(up[c]), s, Following(s) + 1, sent[s])
      BY <1>1, <1>m, <2>1, <2>3, <3>1, <3>2, TakeChunk DEF Flows
    <3> QED  BY <1>1, <3>1, <3>3, <3>4, <3>5 DEF Flows
  <2> QED  BY <2>2, <2>3
<1> QED  BY <1>2, <1>4, <1>5 DEF PInv

\* unregister and shutdown: the streams pending on the connection get a last item.
LEMMA PurgeFlows ==
  ASSUME IInv, PInv, current' = None, NEW S, NEW x \in Items,
         x.kind = "error" \/ (x.kind = "eof" /\ S \cap Streams \subseteq cut'),
         queue' = [s \in Requests |-> IF s \in S THEN Append(queue[s], x) ELSE queue[s]],
         UNCHANGED <<call, reader, got, sent, source>>, cut \subseteq cut'
  PROVE  Queued' /\ Flowing'
<1>s. \A s \in Requests : sent[s] \in Nat
  BY SentIsNat
<1>1. Flowing'
  BY DEF Flowing
<1>2. Queued'
  <2> SUFFICES ASSUME NEW s \in Streams, Live(s)'
               PROVE  \A i \in 1..Len(queue'[s]) :
                 /\ queue'[s][i].kind = "chunk" =>
                      queue'[s][i].index = Len(got'[s]) + i /\ Len(got'[s]) + i <= sent'[s]
                 /\ queue'[s][i].kind = "eof" =>
                      s \in cut' \/ (source'[s] = "ended" /\ Len(got'[s]) + i - 1 = sent'[s])
    BY DEF Queued
  <2>1. Live(s) /\ s \in Requests
    BY DEF Live, Requests
  <2>2. CASE s \in S
    <3>1. queue'[s] = Append(queue[s], x)
      BY <2>1, <2>2
    <3>2. /\ x.kind # "chunk"
          /\ x.kind = "eof" => s \in cut'
      BY <2>2
    <3> QED  BY <2>1, <3>1, <3>2, MoreItems
  <2>3. CASE s \notin S
    <3>1. queue'[s] = queue[s]
      BY <2>1, <2>3
    <3>2. /\ sent'[s] \in Nat /\ sent'[s] >= sent[s]
          /\ source[s] = "ended" => source'[s] = "ended" /\ sent'[s] = sent[s]
          /\ got'[s] = got[s]
      BY <1>s, <2>1
    <3> QED  BY <2>1, <3>1, <3>2, SameItems
  <2> QED  BY <2>2, <2>3
<1> QED  BY <1>1, <1>2

LEMMA DisconnectFlows ==
  ASSUME IInv, PInv, NEW c \in Channels, Disconnect(c)
  PROVE  PInv'
<1>t. CallTypes /\ handler \in [Channels -> HandlerStates]
  BY CallTyped DEF IInv, TypeOK
<1>s. \A s \in Requests : sent[s] \in Nat
  BY SentIsNat
<1>1. /\ handler' = [handler EXCEPT ![c] = "closed"]
      /\ UNCHANGED <<call, conn, reader, got, link, down, up, job, sent, source, cut>>
      /\ \/ UNCHANGED <<current, pending, signal, queue>>
         \/ /\ current # None /\ current' = None
            /\ signal' = [s \in Requests |->
                   IF s \in pending[current] \cap Plain /\ signal[s] = "none"
                   THEN "exception" ELSE signal[s]]
            /\ queue' = [s \in Requests |->
                   IF s \in pending[current] \cap Streams
                   THEN Append(queue[s], Failure) ELSE queue[s]]
  BY DEF Disconnect, Unregister, wire, agent
<1>2. Connected'
  BY <1>t, <1>1 DEF PInv, Connected, CallTypes, Types
<1>3. Serving' /\ Ordered'
  BY <1>1 DEF PInv, Serving, Ordered
<1>4. Framed'
  BY <1>1 DEF PInv, Framed, OnItsWay
<1>5. Answered'
  <2>1. \A s \in Requests : signal'[s] = "set" => signal[s] = "set"
    BY <1>1
  <2> QED  BY <1>1, <2>1 DEF PInv, Answered
<1>6. CASE UNCHANGED <<current, pending, signal, queue>>
  <2>1. Queued'
    BY <1>1, <1>6, <1>s, SameQueues DEF Requests, Live
  <2>2. Flowing'
    BY <1>1, <1>6, SameFlow DEF Following
  <2> QED  BY <1>2, <1>3, <1>4, <1>5, <2>1, <2>2 DEF PInv
<1>7. CASE current' = None /\ queue' = [s \in Requests |->
                   IF s \in pending[current] \cap Streams
                   THEN Append(queue[s], Failure) ELSE queue[s]]
  <2>1. Failure \in Items /\ Failure.kind = "error"
    BY ItemTypes DEF Failure
  <2>2. Queued' /\ Flowing'
    BY <1>1, <1>7, <2>1, PurgeFlows
  <2> QED  BY <1>2, <1>3, <1>4, <1>5, <2>2 DEF PInv
<1> QED  BY <1>1, <1>6, <1>7

LEMMA ServerFlows ==
  ASSUME IInv, PInv, NEW c \in Channels, ServerStep(c)
  PROVE  PInv'
  BY RegisterFlows, OtherFrameFlows, ItemFrameFlows, DisconnectFlows DEF ServerStep

-----------------------------------------------------------------------------
(* Deleting the agent.                                                     *)

LEMMA DeleteFlows ==
  ASSUME IInv, PInv, DeleteSignals \/ DeleteCommits
  PROVE  PInv'
<1>t. CallTypes /\ down \in [Channels -> Seq(DownFrames)]
  BY CallTyped DEF IInv, TypeOK
<1>s. \A s \in Requests : sent[s] \in Nat
  BY SentIsNat
<1>1. CASE DeleteCommits \/ (DeleteSignals /\ current = None)
  <2>1. UNCHANGED <<current, pending, handler, call, conn, signal, queue, reader, got, link, down,
                    up, job, sent, source, cut>>
    BY <1>1 DEF DeleteCommits, DeleteSignals, ShutdownConnection, manager, calls, streams, wire,
                agent
  <2>2. Queued'
    BY <2>1, <1>s, SameQueues DEF Requests, Live
  <2>3. Flowing'
    BY <2>1, SameFlow DEF Following
  <2>4. Answered'
    BY <2>1 DEF PInv, Answered
  <2> QED  BY <2>1, <2>2, <2>3, <2>4, SameWire DEF PInv
<1>2. CASE DeleteSignals /\ current # None
  <2>1. /\ current' = None /\ current \in Channels
        /\ UNCHANGED <<handler, call, conn, reader, got, link, up, job, sent, source>>
        /\ signal' = [s \in Requests |->
               IF s \in pending[current] \cap Plain /\ signal[s] = "none"
               THEN "cancelled" ELSE signal[s]]
        /\ queue' = [s \in Requests |->
               IF s \in pending[current] \cap Streams
               THEN Append(queue[s], EOF) ELSE queue[s]]
        /\ cut' = cut \cup (pending[current] \cap Streams)
        /\ \/ down' = down
           \/ down' = [down EXCEPT ![current] = Append(@, Shutdown)]
    BY <1>2, <1>t DEF DeleteSignals, ShutdownConnection, agent, CallTypes
  <2>2. EOF \in Items /\ EOF.kind = "eof"
    BY ItemTypes DEF EOF
  <2>3. Queued' /\ Flowing'
    BY <2>1, <2>2, PurgeFlows
  <2>4. Connected' /\ Serving'
    BY <2>1 DEF PInv, Connected, Serving
  <2>5. Framed'
    BY <2>1 DEF PInv, Framed, OnItsWay
  <2>6. Answered'
    <3>1. \A s \in Requests : signal'[s] = "set" => signal[s] = "set"
      BY <2>1
    <3> QED  BY <2>1, <3>1 DEF PInv, Answered
  <2>7. Ordered'
    <3> SUFFICES ASSUME NEW d \in Channels, NEW p \in 1..Len(down'[d]), down'[d][p] # Shutdown
                 PROVE  conn[down'[d][p]] = d
      BY <2>1 DEF Ordered
    <3>1. CASE down'[d] = down[d]
      BY <3>1 DEF PInv, Ordered
    <3>2. CASE down'[d] = Append(down[d], Shutdown)
      <4>1. p \in 1..Len(down[d]) /\ down'[d][p] = down[d][p]
        BY <1>t, <3>2
      <4> QED  BY <4>1 DEF PInv, Ordered
    <3> QED  BY <1>t, <2>1, <3>1, <3>2
  <2> QED  BY <2>3, <2>4, <2>5, <2>6, <2>7 DEF PInv
<1> QED  BY <1>1, <1>2

-----------------------------------------------------------------------------
(* The agent.                                                              *)

\* What a frame on its way says after a step that leaves conn alone.
OnItsWayNext(c, f) ==
    f.req # None =>
        /\ conn[f.req] = c
        /\ source'[f.req] # "none"
        /\ f.type = "chunk" => f.index <= sent'[f.req]
        /\ f.type = "end" => source'[f.req] = "ended"

\* What a frame says stays true while the agent goes on.
LEMMA StillOnItsWay ==
  ASSUME IInv, NEW c \in Channels, NEW f \in UpFrames, OnItsWay(c, f), UNCHANGED conn,
         \A s \in Requests : /\ source[s] # "none" => source'[s] # "none"
                             /\ source[s] = "ended" => source'[s] = "ended"
                             /\ sent'[s] \in Nat /\ sent'[s] >= sent[s]
  PROVE  OnItsWayNext(c, f)
<1> SUFFICES ASSUME f.req # None
             PROVE  /\ conn[f.req] = c
                    /\ source'[f.req] # "none"
                    /\ f.type = "chunk" => f.index <= sent'[f.req]
                    /\ f.type = "end" => source'[f.req] = "ended"
  BY DEF OnItsWayNext
<1>1. f.req \in Requests /\ (f.type = "chunk" => f.index \in Nat)
  BY FrameFields, MaxChunksIsNat
<1>2. sent[f.req] \in Nat
  BY <1>1, SentIsNat
<1> QED  BY <1>1, <1>2 DEF OnItsWay

\* The agent's step on a request: q is what is then on the way on its websocket.
LEMMA WorkFlows ==
  ASSUME IInv, PInv, NEW c \in Channels, NEW r \in Requests, job[c] = r,
         UNCHANGED <<current, pending, handler, call, conn, signal, queue, reader, got, link, down,
                     cut>>,
         job' = job \/ job' = [job EXCEPT ![c] = None],
         \A s \in Requests \ {r} : source'[s] = source[s] /\ sent'[s] = sent[s],
         source[r] # "ended", source'[r] # "none", sent'[r] \in Nat, sent'[r] >= sent[r],
         NEW q, up' = [up EXCEPT ![c] = q],
         Distinct(q), \A p \in 1..Len(q) : OnItsWayNext(c, q[p]),
         c = current => \A s \in pending[c] \cap Streams :
            /\ Gapless(q, s, Following(s))
            /\ EndLast(q, s, Following(s), sent'[s])
            /\ Reaches(q, s, Following(s), sent'[s])
  PROVE  PInv'
<1>t. CallTypes /\ up \in [Channels -> Seq(UpFrames)] /\ job \in [Channels -> Requests \cup {None}]
  BY CallTyped DEF IInv, TypeOK
<1>s. \A s \in Requests : sent[s] \in Nat
  BY SentIsNat
<1>1. conn[r] = c /\ link[c] = "up" /\ c # None
  BY NoneIsFresh DEF PInv, Serving
<1>2. \A s \in Requests : /\ source[s] # "none" => source'[s] # "none"
                          /\ source[s] = "ended" => source'[s] = "ended" /\ sent'[s] = sent[s]
                          /\ sent'[s] \in Nat /\ sent'[s] >= sent[s]
  BY <1>s
<1>3. Connected'
  <2> SUFFICES ASSUME NEW s \in Requests
               PROVE  /\ conn[s] = None => source'[s] = "none" /\ sent'[s] = 0
                      /\ conn[s] # None => handler[conn[s]] \in {"registered", "closed"}
                      /\ call[s] = "idle" => conn[s] = None
    BY DEF Connected
  <2>1. conn[s] = None => s # r
    BY <1>1
  <2> QED  BY <2>1 DEF PInv, Connected
<1>4. Serving'
  BY <1>t DEF PInv, Serving
<1>5. Ordered'
  BY DEF PInv, Ordered
<1>6. Framed'
  <2> SUFFICES ASSUME NEW d \in Channels
               PROVE  Distinct(up'[d]) /\ \A p \in 1..Len(up'[d]) : OnItsWayNext(d, up'[d][p])
    BY DEF Framed, OnItsWay, OnItsWayNext
  <2>1. CASE d = c
    BY <1>t, <2>1
  <2>2. CASE d # c
    <3>1. up'[d] = up[d] /\ up[d] \in Seq(UpFrames) /\ Distinct(up[d])
      BY <1>t, <2>2 DEF PInv, Framed
    <3>2. ASSUME NEW p \in 1..Len(up[d]) PROVE OnItsWayNext(d, up[d][p])
      <4>1. up[d][p] \in UpFrames /\ OnItsWay(d, up[d][p])
        BY <3>1 DEF PInv, Framed
      <4> QED  BY <1>2, <4>1, StillOnItsWay
    <3> QED  BY <3>1, <3>2
  <2> QED  BY <2>1, <2>2
<1>7. Answered'
  BY <1>2 DEF PInv, Answered
<1>8. Queued'
  BY <1>2, SameQueues DEF Live, Requests
<1>9. Flowing'
  <2> SUFFICES ASSUME current # None, NEW s \in pending[current] \cap Streams PROVE Flows(s)'
    BY DEF Flowing
  <2>1. Following(s)' = Following(s) /\ current \in Channels /\ conn[s] = current /\ s \in Requests
    BY <1>t DEF Following, CallTypes, IInv, OwnedEntries, Requests
  <2>2. CASE c = current
    <3>1. up'[current] = q
      BY <1>t, <2>2
    <3> QED  BY <2>1, <2>2, <3>1 DEF Flows
  <2>3. CASE c # current
    <3>1. up'[current] = up[current] /\ sent'[s] = sent[s]
      BY <1>t, <1>1, <2>1, <2>3
    <3>2. Flows(s)
      BY <2>1 DEF PInv, Flowing
    <3> QED  BY <2>1, <3>1, <3>2 DEF Flows
  <2> QED  BY <2>2, <2>3
<1> QED  BY <1>3, <1>4, <1>5, <1>6, <1>7, <1>8, <1>9 DEF PInv

\* What is on the way on the websocket of a request the agent works on.
LEMMA WorkBefore ==
  ASSUME IInv, PInv, NEW c \in Channels, job[c] # None
  PROVE  /\ job[c] \in Requests /\ up[c] \in Seq(UpFrames) /\ Distinct(up[c])
         /\ \A p \in 1..Len(up[c]) : OnItsWay(c, up[c][p]) /\ up[c][p] \in UpFrames
         /\ c = current => \A s \in pending[c] \cap Streams :
              /\ Following(s) \in Nat /\ sent[s] \in Nat /\ s \in Requests
              /\ Gapless(up[c], s, Following(s))
              /\ EndLast(up[c], s, Following(s), sent[s])
              /\ Reaches(up[c], s, Following(s), sent[s])
<1>1. job[c] \in Requests /\ up[c] \in Seq(UpFrames) /\ link[c] = "up"
  BY DEF PInv, Serving, IInv, TypeOK
<1>2. /\ Distinct(up[c])
      /\ \A p \in 1..Len(up[c]) : OnItsWay(c, up[c][p]) /\ up[c][p] \in UpFrames
  BY <1>1 DEF PInv, Framed
<1>3. ASSUME c = current, NEW s \in pending[c] \cap Streams
      PROVE  /\ Following(s) \in Nat /\ sent[s] \in Nat /\ s \in Requests
             /\ Gapless(up[c], s, Following(s))
             /\ EndLast(up[c], s, Following(s), sent[s])
             /\ Reaches(up[c], s, Following(s), sent[s])
  <2>1. Flows(s) /\ s \in Requests
    BY <1>3, NoneIsFresh DEF PInv, Flowing, Requests
  <2> QED  BY <1>1, <1>3, <2>1, FollowingIsNat, SentIsNat DEF Flows
<1> QED  BY <1>1, <1>2, <1>3

\* The agent sends something other than a chunk: one frame, or two.
LEMMA OneFrameFlows ==
  ASSUME IInv, PInv, NEW c \in Channels, NEW r \in Requests, job[c] = r,
         UNCHANGED <<current, pending, handler, call, conn, signal, queue, reader, got, link, down,
                     sent, cut>>,
         job' = job \/ job' = [job EXCEPT ![c] = None],
         source[r] # "ended", NEW v, v # "none", source' = [source EXCEPT ![r] = v],
         NEW f \in UpFrames, f.type # "chunk", f.req = r, f.type = "end" => v = "ended",
         Emit(c, <<f>>)
  PROVE  PInv'
<1>q. PICK q : q = Append(up[c], f)
  OBVIOUS
<1>t. source \in [Requests -> SourceStates] /\ up \in [Channels -> Seq(UpFrames)]
  BY DEF IInv, TypeOK
<1>b. job[c] # None
  BY NoneIsFresh
<1>s. \A s \in Requests : sent[s] \in Nat
  BY SentIsNat
<1>1. up' = [up EXCEPT ![c] = q]
  <2>1. up[c] \o <<f>> = Append(up[c], f)
    BY <1>t, AppendIsConcat
  <2> QED  BY <1>q, <2>1 DEF Emit
<1>2. source'[r] = v /\ \A s \in Requests \ {r} : source'[s] = source[s]
  BY <1>t
<1>3. Distinct(q)
  BY <1>b, <1>q, WorkBefore, DistinctKept
<1>4. ASSUME NEW p \in 1..Len(q) PROVE OnItsWayNext(c, q[p])
  <2>1. CASE p \in 1..Len(up[c])
    <3>1. q[p] = up[c][p] /\ OnItsWay(c, up[c][p]) /\ up[c][p] \in UpFrames
      BY <1>b, <1>q, <2>1, WorkBefore
    <3> QED  BY <1>s, <1>2, <3>1, StillOnItsWay
  <2>2. CASE p = Len(up[c]) + 1
    <3>1. q[p] = f
      BY <1>t, <1>q, <2>2
    <3>2. conn[r] = c
      BY <1>b DEF PInv, Serving
    <3> QED  BY <1>2, <3>1, <3>2 DEF OnItsWayNext
  <2>3. p \in 1..(Len(up[c]) + 1)
    BY <1>t, <1>q
  <2> QED  BY <1>t, <2>1, <2>2, <2>3
<1>5. ASSUME c = current, NEW s \in pending[c] \cap Streams
      PROVE  /\ Gapless(q, s, Following(s))
             /\ EndLast(q, s, Following(s), sent'[s])
             /\ Reaches(q, s, Following(s), sent'[s])
  BY <1>b, <1>q, <1>5, WorkBefore, PutFrame
<1>6. /\ source'[r] # "none" /\ sent'[r] \in Nat /\ sent'[r] >= sent[r]
      /\ \A s \in Requests \ {r} : source'[s] = source[s] /\ sent'[s] = sent[s]
  BY <1>2, <1>s
<1> QED  BY <1>1, <1>3, <1>4, <1>5, <1>6, WorkFlows

\* The two frames of an upstream that failed before its response.
LEMMA RefuseFlows ==
  ASSUME IInv, PInv, NEW c \in Channels, NEW r \in Requests, job[c] = r,
         UNCHANGED <<current, pending, handler, call, conn, signal, queue, reader, got, link, down,
                     sent, cut>>,
         job' = [job EXCEPT ![c] = None],
         source[r] = "none", source' = [source EXCEPT ![r] = "answered"],
         Emit(c, <<Frame("refuse", r, 0), Frame("error", r, 0)>>)
  PROVE  PInv'
<1>f. PICK f \in UpFrames, g \in UpFrames :
         /\ f = Frame("refuse", r, 0) /\ g = Frame("error", r, 0)
         /\ f.req = r /\ g.req = r /\ f.type = "refuse" /\ g.type = "error"
  BY FrameTypes DEF Frame
<1>q. PICK q : q = Append(up[c], f)
  OBVIOUS
<1>z. PICK z : z = Append(q, g)
  OBVIOUS
<1>t. source \in [Requests -> SourceStates] /\ up \in [Channels -> Seq(UpFrames)]
      /\ up[c] \in Seq(UpFrames)
  BY DEF IInv, TypeOK
<1>b. job[c] # None
  BY NoneIsFresh
<1>s. \A s \in Requests : sent[s] \in Nat
  BY SentIsNat
<1>y. q \in Seq(UpFrames) /\ z \in Seq(UpFrames)
  BY <1>t, <1>q, <1>z
<1>1. up' = [up EXCEPT ![c] = z]
  <2>1. up[c] \o <<f, g>> = z
    BY <1>t, <1>q, <1>z
  <2> QED  BY <1>f, <2>1 DEF Emit
<1>2. source'[r] = "answered" /\ \A s \in Requests \ {r} : source'[s] = source[s]
  BY <1>t
<1>3. Distinct(z)
  <2>1. Distinct(q)
    BY <1>b, <1>f, <1>q, WorkBefore, DistinctKept
  <2> QED  BY <1>f, <1>y, <1>z, <2>1, DistinctKept
<1>4. ASSUME NEW p \in 1..Len(z) PROVE OnItsWayNext(c, z[p])
  <2>1. CASE p \in 1..Len(up[c])
    <3>1. z[p] = up[c][p] /\ OnItsWay(c, up[c][p]) /\ up[c][p] \in UpFrames
      BY <1>b, <1>t, <1>q, <1>z, <2>1, WorkBefore
    <3> QED  BY <1>s, <1>2, <3>1, StillOnItsWay
  <2>2. CASE z[p] \in {f, g}
    <3>1. conn[r] = c
      BY <1>b DEF PInv, Serving
    <3> QED  BY <1>f, <1>2, <2>2, <3>1 DEF OnItsWayNext
  <2>3. p \in 1..Len(up[c]) \/ z[p] \in {f, g}
    BY <1>t, <1>q, <1>z
  <2> QED  BY <2>1, <2>2, <2>3
<1>5. ASSUME c = current, NEW s \in pending[c] \cap Streams
      PROVE  /\ Gapless(z, s, Following(s))
             /\ EndLast(z, s, Following(s), sent'[s])
             /\ Reaches(z, s, Following(s), sent'[s])
  <2>1. /\ Gapless(q, s, Following(s))
        /\ EndLast(q, s, Following(s), sent[s])
        /\ Reaches(q, s, Following(s), sent[s])
        /\ Following(s) \in Nat /\ sent[s] \in Nat /\ s \in Requests
    BY <1>b, <1>f, <1>q, <1>5, WorkBefore, PutFrame
  <2> QED  BY <1>f, <1>y, <1>z, <2>1, PutFrame
<1>6. /\ source'[r] # "none" /\ sent'[r] \in Nat /\ sent'[r] >= sent[r]
      /\ \A s \in Requests \ {r} : source'[s] = source[s] /\ sent'[s] = sent[s]
  BY <1>2, <1>s
<1> QED  BY <1>1, <1>3, <1>4, <1>5, <1>6, WorkFlows

LEMMA ChunkFlows ==
  ASSUME IInv, PInv, NEW c \in Channels, AgentSendsChunk(c)
  PROVE  PInv'
<1>r. PICK r \in Requests : r = job[c] /\ r \in Streams
  BY DEF AgentSendsChunk, Requests
<1>t. /\ sent \in [Requests -> 0..MaxChunks] /\ up \in [Channels -> Seq(UpFrames)]
      /\ up[c] \in Seq(UpFrames)
  BY DEF IInv, TypeOK
<1>b. job[c] # None
  BY <1>r, NoneIsFresh
<1>s. \A s \in Requests : sent[s] \in Nat
  BY SentIsNat
<1>m. PICK m \in Nat : m = sent[r] /\ m + 1 \in 1..MaxChunks
  BY <1>r, <1>s, MaxChunksIsNat DEF AgentSendsChunk
<1>f. PICK f \in UpFrames : /\ f = Frame("chunk", r, m + 1) /\ f = ChunkOf(r, m + 1)
                           /\ f.type = "chunk" /\ f.req = r /\ f.index = m + 1
  BY <1>m, FrameTypes, ChunkFields DEF ChunkOf
<1>q. PICK q : q = Append(up[c], f)
  OBVIOUS
<1>1. up' = [up EXCEPT ![c] = q]
  <2>1. up[c] \o <<f>> = Append(up[c], f)
    BY <1>t, AppendIsConcat
  <2> QED  BY <1>r, <1>m, <1>f, <1>q, <2>1 DEF AgentSendsChunk, Emit
<1>2. /\ source[r] = "open"
      /\ sent' = [sent EXCEPT ![r] = m + 1]
      /\ UNCHANGED <<current, pending, handler, call, conn, signal, queue, reader, got, link, down,
                     job, source, cut>>
  BY <1>r, <1>m DEF AgentSendsChunk, manager, calls, streams
<1>6. /\ source'[r] # "none" /\ sent'[r] = m + 1 /\ sent'[r] \in Nat /\ sent'[r] >= sent[r]
      /\ \A s \in Requests \ {r} : source'[s] = source[s] /\ sent'[s] = sent[s]
  BY <1>2, <1>t, <1>m
<1>3. Distinct(q)
  <2>1. ASSUME NEW p \in 1..Len(up[c]) PROVE up[c][p] # f
    <3>1. OnItsWay(c, up[c][p])
      BY <1>b, WorkBefore
    <3> QED  BY <1>f, <1>m, <3>1, NoneIsFresh DEF OnItsWay
  <2> QED  BY <1>b, <1>q, <2>1, WorkBefore, DistinctKept
<1>4. ASSUME NEW p \in 1..Len(q) PROVE OnItsWayNext(c, q[p])
  <2>1. CASE p \in 1..Len(up[c])
    <3>1. q[p] = up[c][p] /\ OnItsWay(c, up[c][p]) /\ up[c][p] \in UpFrames
      BY <1>b, <1>q, <2>1, WorkBefore
    <3>2. \A s \in Requests : sent'[s] \in Nat /\ sent'[s] >= sent[s]
      BY <1>s, <1>6
    <3> QED  BY <1>2, <3>1, <3>2, StillOnItsWay
  <2>2. CASE p = Len(up[c]) + 1
    <3>1. q[p] = f
      BY <1>t, <1>q, <2>2
    <3>2. conn[r] = c
      BY <1>b, <1>r DEF PInv, Serving
    <3> QED  BY <1>6, <1>f, <3>1, <3>2 DEF OnItsWayNext
  <2>3. p \in 1..(Len(up[c]) + 1)
    BY <1>t, <1>q
  <2> QED  BY <1>t, <2>1, <2>2, <2>3
<1>5. ASSUME c = current, NEW s \in pending[c] \cap Streams
      PROVE  /\ Gapless(q, s, Following(s))
             /\ EndLast(q, s, Following(s), sent'[s])
             /\ Reaches(q, s, Following(s), sent'[s])
  <2>1. /\ Following(s) \in Nat /\ sent[s] \in Nat /\ s \in Requests
        /\ Gapless(up[c], s, Following(s))
        /\ EndLast(up[c], s, Following(s), sent[s])
        /\ Reaches(up[c], s, Following(s), sent[s])
    BY <1>b, <1>5, WorkBefore
  <2>2. CASE s # r
    BY <1>6, <1>f, <1>q, <1>t, <2>1, <2>2, PutFrame
  <2>3. CASE s = r
    <3>1. \A p \in 1..Len(up[c]) : ~(up[c][p].type = "end" /\ up[c][p].req = r)
      BY <1>b, <1>2, WorkBefore, NoneIsFresh DEF OnItsWay
    <3> QED  BY <1>6, <1>f, <1>m, <1>q, <1>t, <2>1, <2>3, <3>1, PutChunk
  <2> QED  BY <2>2, <2>3
<1> QED  BY <1>1, <1>2, <1>3, <1>4, <1>5, <1>6, <1>r, WorkFlows

LEMMA AgentWorkFlows ==
  ASSUME IInv, PInv, NEW c \in Channels, AgentAnswers(c) \/ AgentStarts(c) \/ AgentEnds(c)
  PROVE  PInv'
<1>r. PICK r \in Requests : r = job[c]
  BY DEF AgentAnswers, AgentStarts, AgentEnds, IInv, TypeOK, Requests
<1>1. /\ UNCHANGED <<current, pending, handler, call, conn, signal, queue, reader, got, link, down,
                     sent, cut>>
      /\ job' = job \/ job' = [job EXCEPT ![c] = None]
  BY DEF AgentAnswers, AgentStarts, AgentEnds, manager, calls, streams
<1>2. CASE AgentAnswers(c) \/ AgentStarts(c)
  <2>1. PICK t \in {"start", "refuse"} : Emit(c, <<Frame(t, r, 0)>>)
    BY <1>2, <1>r DEF AgentAnswers, AgentStarts
  <2>2. PICK v \in {"answered", "open"} : source' = [source EXCEPT ![r] = v]
    BY <1>2, <1>r DEF AgentAnswers, AgentStarts
  <2>3. source[r] = "none"
    BY <1>2, <1>r DEF AgentAnswers, AgentStarts
  <2>4. PICK f \in UpFrames : f = Frame(t, r, 0) /\ f.type = t /\ f.req = r
    BY FrameTypes DEF Frame
  <2> QED  BY <1>1, <1>r, <2>1, <2>2, <2>3, <2>4, OneFrameFlows
<1>3. CASE AgentEnds(c) /\ source[r] = "open"
  <2>1. PICK t \in {"end", "error"} :
           /\ Emit(c, <<Frame(t, r, 0)>>)
           /\ source' = [source EXCEPT ![r] = IF t = "end" THEN "ended" ELSE "failed"]
    BY <1>3, <1>r DEF AgentEnds
  <2>2. PICK v \in {"ended", "failed"} :
           source' = [source EXCEPT ![r] = v] /\ (t = "end" => v = "ended")
    BY <2>1
  <2>3. PICK f \in UpFrames : f = Frame(t, r, 0) /\ f.type = t /\ f.req = r
    BY FrameTypes DEF Frame
  <2> QED  BY <1>1, <1>r, <1>3, <2>1, <2>2, <2>3, OneFrameFlows
<1>4. CASE AgentEnds(c) /\ source[r] = "none"
  <2>1. /\ Emit(c, <<Frame("refuse", r, 0), Frame("error", r, 0)>>)
        /\ source' = [source EXCEPT ![r] = "answered"]
        /\ job' = [job EXCEPT ![c] = None]
    BY <1>4, <1>r DEF AgentEnds
  <2> QED  BY <1>1, <1>r, <1>4, <2>1, RefuseFlows
<1>5. AgentEnds(c) => source[r] \in {"open", "none"}
  BY <1>r DEF AgentEnds
<1> QED  BY <1>2, <1>3, <1>4, <1>5

LEMMA AgentFlows ==
  ASSUME IInv, PInv, NEW c \in Channels, AgentConnects(c) \/ AgentTakes(c) \/ LinkLost(c)
  PROVE  PInv'
<1>t. /\ CallTypes /\ handler \in [Channels -> HandlerStates]
      /\ link \in [Channels -> LinkStates] /\ up \in [Channels -> Seq(UpFrames)]
      /\ down \in [Channels -> Seq(DownFrames)] /\ job \in [Channels -> Requests \cup {None}]
  BY CallTyped DEF IInv, TypeOK
<1>s. \A s \in Requests : sent[s] \in Nat
  BY SentIsNat
<1>1. UNCHANGED <<current, pending, call, conn, signal, queue, reader, got, sent, source, cut>>
  BY DEF AgentConnects, AgentTakes, LinkLost, manager, calls, streams, agent
<1>2. Answered' /\ Queued'
  BY <1>1, <1>s, SameQueues DEF PInv, Answered, Live, Requests
<1>3. CASE AgentConnects(c)
  <2>1. /\ handler' = [handler EXCEPT ![c] = "accepted"] /\ handler[c] = "unused"
        /\ link' = [link EXCEPT ![c] = "up"]
        /\ up' = [up EXCEPT ![c] = <<Register>>]
        /\ UNCHANGED <<down, job>>
    BY <1>3 DEF AgentConnects, agent, IInv, UnusedChannels
  <2>2. \A s \in Requests : conn[s] # c
    BY <2>1, NoneIsFresh DEF PInv, Connected
  <2>3. Connected'
    <3> SUFFICES ASSUME NEW s \in Requests
                 PROVE  /\ conn[s] = None => source[s] = "none" /\ sent[s] = 0
                        /\ conn[s] # None => handler'[conn[s]] \in {"registered", "closed"}
                        /\ call[s] = "idle" => conn[s] = None
      BY <1>1 DEF Connected
    <3>1. conn[s] # None => conn[s] \in Channels \ {c}
      BY <1>t, <2>2 DEF CallTypes, Types
    <3>2. conn[s] # None => handler'[conn[s]] = handler[conn[s]]
      BY <1>t, <2>1, <3>1
    <3> QED  BY <3>2 DEF PInv, Connected
  <2>4. Serving' /\ Ordered'
    BY <1>t, <1>1, <2>1 DEF PInv, Serving, Ordered
  <2>5. Framed'
    <3> SUFFICES ASSUME NEW d \in Channels
                 PROVE  /\ Distinct(up'[d])
                        /\ \A p \in 1..Len(up'[d]) : OnItsWay(d, up'[d][p])
      BY <1>1 DEF Framed, OnItsWay
    <3>1. CASE d # c
      BY <1>t, <2>1, <3>1 DEF PInv, Framed
    <3>2. CASE d = c
      <4>1. up'[d] = <<Register>> /\ Register.req = None /\ Register.type # "chunk"
        BY <1>t, <2>1, <3>2 DEF Register, Frame
      <4> QED  BY <4>1 DEF Distinct, OnItsWay
    <3> QED  BY <3>1, <3>2
  <2>6. Flowing'
    <3> SUFFICES ASSUME current # None, NEW s \in pending[current] \cap Streams PROVE Flows(s)'
      BY <1>1 DEF Flowing
    <3>1. current # c /\ current \in Channels
      BY <1>t, <2>1 DEF IInv, BoundMeansServed, CallTypes
    <3>2. up'[current] = up[current] /\ link'[current] = link[current]
      BY <1>t, <2>1, <3>1
    <3>3. Flows(s) /\ Following(s)' = Following(s)
      BY <1>1 DEF PInv, Flowing, Following
    <3> QED  BY <1>1, <3>2, <3>3 DEF Flows
  <2> QED  BY <1>2, <2>3, <2>4, <2>5, <2>6 DEF PInv
<1>4. CASE AgentTakes(c)
  <2>1. /\ link[c] = "up" /\ job[c] = None /\ down[c] # <<>>
        /\ down' = [down EXCEPT ![c] = Tail(@)]
        /\ UNCHANGED <<handler, up>>
        /\ \/ link' = [link EXCEPT ![c] = "lost"] /\ UNCHANGED job
           \/ /\ job' = [job EXCEPT ![c] = Head(down[c])]
              /\ Head(down[c]) # Shutdown
              /\ UNCHANGED link
    BY <1>4 DEF AgentTakes
  <2>2. /\ Head(down[c]) = down[c][1] /\ 1 \in 1..Len(down[c])
        /\ \A p \in 1..Len(Tail(down[c])) :
              Tail(down[c])[p] = down[c][p + 1] /\ p + 1 \in 1..Len(down[c])
    BY <1>t, <2>1
  <2>3. Connected' /\ Framed'
    BY <1>1, <2>1 DEF PInv, Connected, Framed, OnItsWay
  <2>4. Serving'
    <3>1. Head(down[c]) # Shutdown => conn[Head(down[c])] = c
      BY <2>2 DEF PInv, Ordered
    <3> QED  BY <1>1, <1>t, <2>1, <3>1 DEF PInv, Serving
  <2>5. Ordered'
    <3> SUFFICES ASSUME NEW d \in Channels, NEW p \in 1..Len(down'[d]), down'[d][p] # Shutdown
                 PROVE  conn[down'[d][p]] = d
      BY <1>1 DEF Ordered
    <3>1. CASE d # c
      BY <1>t, <2>1, <3>1 DEF PInv, Ordered
    <3>2. CASE d = c
      <4>1. down'[d] = Tail(down[c])
        BY <1>t, <2>1, <3>2
      <4> QED  BY <2>2, <3>2, <4>1 DEF PInv, Ordered
    <3> QED  BY <3>1, <3>2
  <2>6. Flowing'
    <3> SUFFICES ASSUME current # None, NEW s \in pending[current] \cap Streams PROVE Flows(s)'
      BY <1>1 DEF Flowing
    <3>1. Flows(s) /\ Following(s)' = Following(s) /\ current \in Channels
      BY <1>1, <1>t DEF PInv, Flowing, Following, CallTypes
    <3>2. link'[current] = "up" => link[current] = "up"
      BY <1>t, <2>1, <3>1
    <3> QED  BY <1>1, <2>1, <3>1, <3>2 DEF Flows
  <2> QED  BY <1>2, <2>3, <2>4, <2>5, <2>6 DEF PInv
<1>5. CASE LinkLost(c)
  <2>1. PICK n \in 0..Len(up[c]) : up' = [up EXCEPT ![c] = SubSeq(@, 1, n)]
    BY <1>5 DEF LinkLost
  <2>2. /\ link' = [link EXCEPT ![c] = "lost"]
        /\ down' = [down EXCEPT ![c] = <<>>]
        /\ job' = [job EXCEPT ![c] = None]
        /\ UNCHANGED handler
    BY <1>5 DEF LinkLost
  <2>3. Connected' /\ Serving' /\ Ordered'
    BY <1>1, <1>t, <2>2 DEF PInv, Connected, Serving, Ordered
  <2>4. up'[c] = SubSeq(up[c], 1, n) /\ \A d \in Channels \ {c} : up'[d] = up[d]
    BY <1>t, <2>1
  <2>5. Framed'
    <3> SUFFICES ASSUME NEW d \in Channels
                 PROVE  /\ Distinct(up'[d])
                        /\ \A p \in 1..Len(up'[d]) : OnItsWay(d, up'[d][p])
      BY <1>1 DEF Framed, OnItsWay
    <3>1. CASE d # c
      BY <2>4, <3>1 DEF PInv, Framed
    <3>2. CASE d = c
      <4>1. Distinct(SubSeq(up[c], 1, n))
        BY <1>t, DistinctKept DEF PInv, Framed
      <4>2. /\ Len(SubSeq(up[c], 1, n)) = n
            /\ \A p \in 1..n : SubSeq(up[c], 1, n)[p] = up[c][p] /\ p \in 1..Len(up[c])
        BY <1>t, SubSeqProperties
      <4> QED  BY <2>4, <3>2, <4>1, <4>2 DEF PInv, Framed
    <3> QED  BY <3>1, <3>2
  <2>6. Flowing'
    <3> SUFFICES ASSUME current # None, NEW s \in pending[current] \cap Streams PROVE Flows(s)'
      BY <1>1 DEF Flowing
    <3>1. Flows(s) /\ Following(s)' = Following(s) /\ current \in Channels
      BY <1>1, <1>t DEF PInv, Flowing, Following, CallTypes
    <3>2. CASE current = c
      <4>1. up'[current] = SubSeq(up[current], 1, n) /\ link'[current] # "up"
            /\ up[current] \in Seq(UpFrames) /\ n \in 0..Len(up[current])
        BY <1>t, <2>2, <2>4, <3>1, <3>2
      <4> QED  BY <1>1, <3>1, <4>1, LoseFrames DEF Flows
    <3>3. CASE current # c
      <4>1. up'[current] = up[current] /\ link'[current] = link[current]
        BY <1>t, <2>2, <2>4, <3>1, <3>3
      <4> QED  BY <1>1, <3>1, <4>1 DEF Flows
    <3> QED  BY <3>2, <3>3
  <2> QED  BY <1>2, <2>3, <2>5, <2>6 DEF PInv
<1> QED  BY <1>3, <1>4, <1>5

LEMMA StutterFlows == ASSUME IInv, PInv, UNCHANGED vars PROVE PInv'
<1>1. UNCHANGED <<current, pending, handler, call, conn, signal, queue, reader, got, link, down, up,
                  job, sent, source, cut>>
  BY DEF vars
<1>2. Connected' /\ Serving' /\ Ordered' /\ Framed'
  BY <1>1, SameWire
<1>3. Flowing'
  BY <1>1, SameFlow DEF Following
<1>4. Answered' /\ Queued'
  BY <1>1 DEF PInv, Answered, Queued, Live
<1> QED  BY <1>2, <1>3, <1>4 DEF PInv

LEMMA NextFlows == ASSUME IInv, PInv, [Next]_vars PROVE PInv'
  BY CallStepFlows, ReaderFlows, ServerFlows, DeleteFlows, AgentWorkFlows, ChunkFlows, AgentFlows,
     StutterFlows DEF Next, AgentStep, AgentWorks

\* What a reader is given, what its queue holds and what is on the way make up
\* the stream, in every reachable state.
THEOREM NothingIsMissing == Spec => [](IInv /\ PInv)
<1>1. Init => IInv /\ PInv
  BY InitIInv, InitPInv
<1>2. IInv /\ PInv /\ [Next]_vars => (IInv /\ PInv)'
  BY Inductive, NextFlows
<1> QED  BY <1>1, <1>2, PTL DEF Spec

-----------------------------------------------------------------------------
(* The refinement: every step is one of the contract's, or changes nothing  *)
(* the caller can see.                                                      *)

Seen == <<CallerState, ReaderGiven, sent, source, cut>>

LEMMA StateIs ==
  ASSUME NEW r \in Requests
  PROVE  /\ call[r] = "idle" => CallerState[r] = "idle"
         /\ call[r] \in {"sending", "waiting"} => CallerState[r] = "open"
         /\ call[r] \in {"unavailable", "cancelled", "raised"} => CallerState[r] = "failed"
         /\ call[r] = "returned" /\ r \in Plain => CallerState[r] = "answered"
         /\ call[r] = "returned" /\ r \in Streams =>
              /\ reader[r] = "reading" => CallerState[r] = "streaming"
              /\ reader[r] = "complete" => CallerState[r] = "complete"
              /\ reader[r] \in {"failed", "abandoned"} => CallerState[r] = "failed"
  BY DistinctKinds DEF CallerState, StateOf

LEMMA StateNext ==
  ASSUME NEW r \in Requests
  PROVE  /\ call'[r] = "idle" => CallerState'[r] = "idle"
         /\ call'[r] \in {"sending", "waiting"} => CallerState'[r] = "open"
         /\ call'[r] \in {"unavailable", "cancelled", "raised"} => CallerState'[r] = "failed"
         /\ call'[r] = "returned" /\ r \in Plain => CallerState'[r] = "answered"
         /\ call'[r] = "returned" /\ r \in Streams =>
              /\ reader'[r] = "reading" => CallerState'[r] = "streaming"
              /\ reader'[r] = "complete" => CallerState'[r] = "complete"
              /\ reader'[r] \in {"failed", "abandoned"} => CallerState'[r] = "failed"
  BY DistinctKinds DEF CallerState, StateOf

LEMMA StateOfOthers ==
  ASSUME NEW s \in Requests, call'[s] = call[s], reader'[s] = reader[s]
  PROVE  CallerState'[s] = CallerState[s]
  BY DEF CallerState, StateOf

LEMMA StateIsFunction ==
  /\ CallerState = [s \in Requests |-> CallerState[s]]
  /\ CallerState' = [s \in Requests |-> CallerState'[s]]
  BY DEF CallerState

\* A step of one call or reader: the callers of the others see nothing.
LEMMA OneState ==
  ASSUME NEW r \in Requests,
         \A s \in Requests \ {r} : call'[s] = call[s] /\ reader'[s] = reader[s]
  PROVE  CallerState' = [CallerState EXCEPT ![r] = CallerState'[r]]
<1>1. \A s \in Requests \ {r} : CallerState'[s] = CallerState[s]
  BY StateOfOthers
<1> QED  BY <1>1, StateIsFunction

LEMMA SameState ==
  ASSUME \A s \in Requests : call'[s] = call[s] /\ reader'[s] = reader[s]
  PROVE  CallerState' = CallerState
<1>1. \A s \in Requests : CallerState'[s] = CallerState[s]
  BY StateOfOthers
<1> QED  BY <1>1, StateIsFunction

LEMMA SameGiven == ASSUME UNCHANGED got PROVE ReaderGiven' = ReaderGiven
  BY DEF ReaderGiven

\* A step that changes what the caller knows of one request, and nothing else.
LEMMA CallerStep ==
  ASSUME NEW r \in Requests, NEW from, NEW to,
         CallerState[r] \in from, CallerState'[r] = to,
         \A s \in Requests \ {r} : call'[s] = call[s] /\ reader'[s] = reader[s],
         UNCHANGED <<got, sent, source, cut>>
  PROVE  Contract!Caller(r, from, to)
  BY OneState, SameGiven DEF Contract!Caller

LEMMA ContractInit == Init => Contract!Init
  BY DEF Init, Contract!Init, CallerState, StateOf, ReaderGiven, Contract!Requests, Requests

LEMMA CallContract ==
  ASSUME IInv, PInv, NEW r \in Requests, CallStep(r)
  PROVE  Contract!Next \/ UNCHANGED Seen
<1>t. CallTypes
  BY CallTyped
<1>r. r \in Contract!Requests
  BY DEF Requests, Contract!Requests
<1>1. UNCHANGED <<got, sent, source, cut>>
  BY DEF CallStep, Call, SendReturns, SendRaises, Wake, Timeout, GiveUp, streams, agent
<1>2. CASE Call(r)
  <2>1. /\ call[r] = "idle"
        /\ \/ call' = [call EXCEPT ![r] = "sending"]
           \/ call' = [call EXCEPT ![r] = "unavailable"]
        /\ UNCHANGED reader
    BY <1>2 DEF Call, streams
  <2>2. /\ call'[r] \in {"sending", "unavailable"}
        /\ \A s \in Requests \ {r} : call'[s] = call[s] /\ reader'[s] = reader[s]
    BY <1>t, <2>1 DEF CallTypes, Types
  <2>3. CallerState[r] = "idle" /\ CallerState'[r] \in {"open", "failed"}
    BY <2>1, <2>2, StateIs, StateNext
  <2>4. CASE CallerState'[r] = "open"
    <3>1. Contract!Begin(r)
      BY <1>1, <2>2, <2>3, <2>4, CallerStep DEF Contract!Begin
    <3> QED  BY <1>r, <3>1 DEF Contract!Next
  <2>5. CASE CallerState'[r] = "failed"
    <3>1. Contract!Fail(r)
      BY <1>1, <2>2, <2>3, <2>5, CallerStep DEF Contract!Fail
    <3> QED  BY <1>r, <3>1 DEF Contract!Next
  <2> QED  BY <2>3, <2>4, <2>5
<1>3. CASE SendReturns(r)
  <2>1. call[r] = "sending" /\ call' = [call EXCEPT ![r] = "waiting"] /\ UNCHANGED reader
    BY <1>3 DEF SendReturns, streams
  <2>2. /\ call'[r] = "waiting"
        /\ \A s \in Requests \ {r} : call'[s] = call[s] /\ reader'[s] = reader[s]
    BY <1>t, <2>1 DEF CallTypes, Types
  <2>3. CallerState'[r] = CallerState[r]
    BY <2>1, <2>2, StateIs, StateNext
  <2>4. CallerState' = CallerState
    BY <2>2, <2>3, OneState, StateIsFunction
  <2> QED  BY <1>1, <2>4, SameGiven DEF Seen
<1>4. CASE SendRaises(r) \/ Timeout(r)
  <2>1. /\ call[r] \in {"sending", "waiting"}
        /\ \/ call' = [call EXCEPT ![r] = "raised"]
           \/ call' = [call EXCEPT ![r] = "unavailable"]
        /\ UNCHANGED reader
    BY <1>4 DEF SendRaises, Timeout, GiveUp
  <2>2. /\ call'[r] \in {"raised", "unavailable"}
        /\ \A s \in Requests \ {r} : call'[s] = call[s] /\ reader'[s] = reader[s]
    BY <1>t, <2>1 DEF CallTypes, Types
  <2>3. CallerState[r] = "open" /\ CallerState'[r] = "failed"
    BY <2>1, <2>2, StateIs, StateNext
  <2>4. Contract!Fail(r)
    BY <1>1, <2>2, <2>3, CallerStep DEF Contract!Fail
  <2> QED  BY <1>r, <2>4 DEF Contract!Next
<1>5. CASE Wake(r)
  <2>1. /\ call[r] = "waiting" /\ signal[r] # "none"
        /\ call' = [call EXCEPT ![r] =
               CASE signal[r] = "set"       -> "returned"
                 [] signal[r] = "exception" -> "unavailable"
                 [] signal[r] = "cancelled" -> "cancelled"]
        /\ reader' = IF r \in Streams THEN [reader EXCEPT ![r] = "reading"] ELSE reader
    BY <1>5 DEF Wake
  <2>2. /\ \A s \in Requests \ {r} : call'[s] = call[s] /\ reader'[s] = reader[s]
        /\ r \in Streams => reader'[r] = "reading"
    BY <1>t, <2>1 DEF CallTypes, Types
  <2>3. CallerState[r] = "open"
    BY <2>1, StateIs
  <2>4. CASE signal[r] = "set"
    <3>1. call'[r] = "returned"
      BY <1>t, <2>1, <2>4 DEF CallTypes, Types
    <3>2. CallerState'[r] = IF r \in Streams THEN "streaming" ELSE "answered"
      BY <2>2, <3>1, StateNext DEF Requests
    <3>3. source[r] # "none"
      BY <2>4 DEF PInv, Answered
    <3>4. Contract!Answer(r)
      BY <1>1, <2>2, <2>3, <3>2, <3>3, CallerStep DEF Contract!Answer
    <3> QED  BY <1>r, <3>4 DEF Contract!Next
  <2>5. CASE signal[r] \in {"exception", "cancelled"}
    <3>1. call'[r] \in {"unavailable", "cancelled"}
      BY <1>t, <2>1, <2>5 DEF CallTypes, Types
    <3>2. CallerState'[r] = "failed"
      BY <3>1, StateNext
    <3>3. Contract!Fail(r)
      BY <1>1, <2>2, <2>3, <3>2, CallerStep DEF Contract!Fail
    <3> QED  BY <1>r, <3>3 DEF Contract!Next
  <2>6. signal[r] \in {"set", "exception", "cancelled"}
    BY <1>t, <2>1 DEF CallTypes, Types, SignalStates
  <2> QED  BY <2>4, <2>5, <2>6
<1> QED  BY <1>2, <1>3, <1>4, <1>5 DEF CallStep

LEMMA ReaderContract ==
  ASSUME IInv, PInv, NEW r \in Streams, ReaderStep(r)
  PROVE  Contract!Next \/ UNCHANGED Seen
<1>t. CallTypes /\ r \in Requests /\ r \in Contract!Requests
  BY CallTyped DEF Requests, Contract!Requests
<1>1. /\ reader[r] = "reading" /\ UNCHANGED <<call, sent, source, cut>>
  BY DEF ReaderStep, ReadItem, IdleTimeout, Abandon, calls, agent
<1>2. call[r] = "returned" /\ CallerState[r] = "streaming"
  BY <1>t, <1>1, StateIs DEF IInv, Readers
<1>3. CASE ReadItem(r) /\ Head(queue[r]).kind = "chunk"
  <2>1. /\ queue[r] # <<>> /\ UNCHANGED reader
        /\ got' = [got EXCEPT ![r] = Append(@, Head(queue[r]).index)]
    BY <1>3 DEF ReadItem
  <2>2. Head(queue[r]).index = Len(got[r]) + 1 /\ Len(got[r]) < sent[r]
    BY <1>1, <1>3, <2>1, NextItem
  <2>3. ReaderGiven' = [ReaderGiven EXCEPT ![r] = Append(@, Len(@) + 1)]
    BY <1>t, <2>1, <2>2 DEF ReaderGiven, CallTypes, Requests
  <2>4. CallerState' = CallerState
    BY <1>1, <2>1, SameState
  <2>5. Len(ReaderGiven[r]) < sent[r]
    BY <2>2 DEF ReaderGiven
  <2>6. Contract!Deliver(r)
    BY <1>1, <1>2, <2>3, <2>4, <2>5 DEF Contract!Deliver
  <2> QED  BY <2>6 DEF Contract!Next
<1>4. CASE ReadItem(r) /\ Head(queue[r]).kind # "chunk"
  <2>1. queue[r] # <<>> /\ UNCHANGED got
    BY <1>4 DEF ReadItem
  <2>2. /\ Head(queue[r]).kind \in {"eof", "error"}
        /\ Head(queue[r]).kind = "eof" =>
              r \in cut \/ (source[r] = "ended" /\ Len(got[r]) = sent[r])
    BY <1>1, <1>4, <2>1, NextItem
  <2>3. CASE Head(queue[r]).kind = "eof"
    <3>1. reader' = [reader EXCEPT ![r] = "complete"]
      BY <1>4, <2>3 DEF ReadItem
    <3>2. /\ reader'[r] = "complete"
          /\ \A s \in Requests \ {r} : call'[s] = call[s] /\ reader'[s] = reader[s]
      BY <1>t, <1>1, <3>1 DEF CallTypes, Types
    <3>3. CallerState'[r] = "complete"
      BY <1>t, <1>1, <1>2, <3>2, StateNext
    <3>4. (source[r] = "ended" /\ Len(ReaderGiven[r]) = sent[r]) \/ r \in cut
      BY <2>2, <2>3 DEF ReaderGiven
    <3>5. Contract!Complete(r)
      BY <1>t, <1>1, <1>2, <2>1, <3>2, <3>3, <3>4, CallerStep DEF Contract!Complete
    <3> QED  BY <3>5 DEF Contract!Next
  <2>4. CASE Head(queue[r]).kind = "error"
    <3>1. reader' = [reader EXCEPT ![r] = "failed"]
      BY <1>4, <2>4 DEF ReadItem
    <3>2. /\ reader'[r] = "failed"
          /\ \A s \in Requests \ {r} : call'[s] = call[s] /\ reader'[s] = reader[s]
      BY <1>t, <1>1, <3>1 DEF CallTypes, Types
    <3>3. CallerState'[r] = "failed"
      BY <1>t, <1>1, <1>2, <3>2, StateNext
    <3>4. Contract!Fail(r)
      BY <1>t, <1>1, <1>2, <2>1, <3>2, <3>3, CallerStep DEF Contract!Fail
    <3> QED  BY <1>t, <3>4 DEF Contract!Next
  <2> QED  BY <2>2, <2>3, <2>4
<1>5. CASE IdleTimeout(r) \/ Abandon(r)
  <2>1. /\ \/ reader' = [reader EXCEPT ![r] = "failed"]
           \/ reader' = [reader EXCEPT ![r] = "abandoned"]
        /\ UNCHANGED got
    BY <1>5 DEF IdleTimeout, Abandon
  <2>2. /\ reader'[r] \in {"failed", "abandoned"}
        /\ \A s \in Requests \ {r} : call'[s] = call[s] /\ reader'[s] = reader[s]
    BY <1>t, <1>1, <2>1 DEF CallTypes, Types
  <2>3. CallerState'[r] = "failed"
    BY <1>t, <1>1, <1>2, <2>2, StateNext
  <2>4. Contract!Fail(r)
    BY <1>t, <1>1, <1>2, <2>1, <2>2, <2>3, CallerStep DEF Contract!Fail
  <2> QED  BY <1>t, <2>4 DEF Contract!Next
<1> QED  BY <1>3, <1>4, <1>5 DEF ReaderStep

LEMMA ServerContract ==
  ASSUME NEW c \in Channels, ServerStep(c)
  PROVE  UNCHANGED Seen
<1>1. UNCHANGED <<call, reader, got, sent, source, cut>>
  BY DEF ServerStep, ReceiveRegister, ReceiveFrame, EndStream, Disconnect, calls, streams, agent
<1>2. CallerState' = CallerState
  BY <1>1, SameState
<1> QED  BY <1>1, <1>2, SameGiven DEF Seen

LEMMA DeleteContract ==
  ASSUME IInv, DeleteSignals \/ DeleteCommits
  PROVE  Contract!Next \/ UNCHANGED Seen
<1>1. /\ UNCHANGED <<call, reader, got, sent, source>>
      /\ \/ cut' = cut
         \/ cut' = cut \cup (pending[current] \cap Streams)
  BY DEF DeleteSignals, DeleteCommits, ShutdownConnection, calls, streams, agent
<1>2. CallerState' = CallerState /\ ReaderGiven' = ReaderGiven
  BY <1>1, SameState, SameGiven
<1>3. CASE cut' = cut
  BY <1>1, <1>2, <1>3 DEF Seen
<1>4. CASE cut' = cut \cup (pending[current] \cap Streams)
  <2>1. pending[current] \cap Streams \in SUBSET Streams
    OBVIOUS
  <2>2. Contract!Delete
    BY <1>1, <1>2, <1>4, <2>1 DEF Contract!Delete
  <2> QED  BY <2>2 DEF Contract!Next
<1> QED  BY <1>1, <1>3, <1>4

LEMMA AgentContract ==
  ASSUME IInv, NEW c \in Channels, AgentStep(c)
  PROVE  Contract!Next \/ UNCHANGED Seen
<1>1. UNCHANGED <<call, reader, got, cut>>
  BY DEF AgentStep, AgentConnects, AgentWorks, AgentTakes, AgentAnswers, AgentStarts,
         AgentSendsChunk, AgentEnds, LinkLost, calls, streams
<1>2. CallerState' = CallerState /\ ReaderGiven' = ReaderGiven
  BY <1>1, SameState, SameGiven
<1>r. job[c] \in Requests => job[c] \in Contract!Requests
  BY DEF Requests, Contract!Requests
<1>3. CASE AgentConnects(c) \/ AgentTakes(c) \/ LinkLost(c)
  <2>1. UNCHANGED <<sent, source>>
    BY <1>3 DEF AgentConnects, AgentTakes, LinkLost, agent
  <2> QED  BY <1>1, <1>2, <2>1 DEF Seen
<1>4. CASE AgentAnswers(c) \/ AgentStarts(c) \/ AgentEnds(c)
  <2>1. /\ UNCHANGED sent
        /\ job[c] \in Requests
    BY <1>4 DEF AgentAnswers, AgentStarts, AgentEnds, IInv, TypeOK, Requests
  <2>2. \/ /\ source[job[c]] = "none"
           /\ source' = [source EXCEPT ![job[c]] = "answered"]
        \/ /\ job[c] \in Streams /\ source[job[c]] = "none"
           /\ source' = [source EXCEPT ![job[c]] = "open"]
        \/ /\ source[job[c]] = "open"
           /\ \E s \in {"ended", "failed"} : source' = [source EXCEPT ![job[c]] = s]
    BY <1>4 DEF AgentAnswers, AgentStarts, AgentEnds
  <2>3. Contract!Source(job[c])
    BY <1>1, <1>2, <2>1, <2>2 DEF Contract!Source
  <2> QED  BY <1>r, <2>1, <2>3 DEF Contract!Next
<1>5. CASE AgentSendsChunk(c)
  <2>1. /\ job[c] \in Requests /\ source[job[c]] = "open" /\ sent[job[c]] < MaxChunks
        /\ sent' = [sent EXCEPT ![job[c]] = @ + 1]
        /\ UNCHANGED source
    BY <1>5 DEF AgentSendsChunk, Requests
  <2>2. Contract!Produce(job[c])
    BY <1>1, <1>2, <2>1 DEF Contract!Produce
  <2> QED  BY <1>r, <2>1, <2>2 DEF Contract!Next
<1> QED  BY <1>3, <1>4, <1>5 DEF AgentStep, AgentWorks

LEMMA ContractStep == ASSUME IInv, PInv, [Next]_vars PROVE [Contract!Next]_Contract!vars
<1>1. Contract!vars = Seen
  BY DEF Contract!vars, Seen
<1>2. ASSUME UNCHANGED vars PROVE UNCHANGED Seen
  <2>1. UNCHANGED <<call, reader, got, sent, source, cut>>
    BY <1>2 DEF vars
  <2>2. CallerState' = CallerState
    BY <2>1, SameState
  <2> QED  BY <2>1, <2>2, SameGiven DEF Seen
<1>3. ASSUME Next PROVE Contract!Next \/ UNCHANGED Seen
  BY <1>3, CallContract, ReaderContract, ServerContract, DeleteContract, AgentContract DEF Next
<1>4. UNCHANGED Seen => UNCHANGED Contract!vars
  BY DEF Contract!vars, Seen
<1> QED  BY <1>2, <1>3, <1>4

\* send_request and AgentStream keep the contract: calls settle once, answers are
\* the agent's, streams are yielded in order and complete only when whole.
THEOREM ContractHolds == Spec => ImplementsContract
<1>1. Init => Contract!Init
  BY ContractInit
<1>2. IInv /\ PInv /\ [Next]_vars => [Contract!Next]_Contract!vars
  BY ContractStep
<1> QED  BY <1>1, <1>2, NothingIsMissing, PTL DEF Spec, ImplementsContract, Contract!Spec
=============================================================================
