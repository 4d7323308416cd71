------------------------- MODULE AgentCallContract -------------------------
(***************************************************************************)
(* What send_request and AgentStream promise to the proxy, without any     *)
(* connection, frame or timer: a call is settled once and for good; an     *)
(* answer is one the agent has given; a stream yields the agent's chunks   *)
(* in order and without a gap; and it is reported complete only when it is *)
(* whole, unless the agent was deleted while it was being read.            *)
(***************************************************************************)
EXTENDS Naturals, Sequences

CONSTANTS Plain, Streams, MaxChunks

VARIABLES
    state,      \* what the caller knows of a request
    given,      \* indices of the chunks the caller has been given, in order
    produced,   \* chunks of a stream the agent has produced
    source,     \* the agent's side: "none", "open", "ended", "failed", "answered"
    cut         \* streams whose agent was deleted

vars == <<state, given, produced, source, cut>>

Requests == Plain \cup Streams

Init ==
    /\ state = [r \in Requests |-> "idle"]
    /\ given = [r \in Streams |-> <<>>]
    /\ produced = [r \in Requests |-> 0]
    /\ source = [r \in Requests |-> "none"]
    /\ cut = {}

Caller(r, from, to) ==
    /\ state[r] \in from
    /\ state' = [state EXCEPT ![r] = to]
    /\ UNCHANGED <<given, produced, source, cut>>

Begin(r) == Caller(r, {"idle"}, "open")

\* No connection, an error, a timeout, a hang-up: always allowed, never undone.
Fail(r) == Caller(r, {"idle", "open", "streaming"}, "failed")

Answer(r) ==
    /\ source[r] # "none"
    /\ Caller(r, {"open"}, IF r \in Streams THEN "streaming" ELSE "answered")

Complete(r) ==
    /\ \/ source[r] = "ended" /\ Len(given[r]) = produced[r]
       \/ r \in cut
    /\ Caller(r, {"streaming"}, "complete")

Deliver(r) ==
    /\ state[r] = "streaming"
    /\ Len(given[r]) < produced[r]
    /\ given' = [given EXCEPT ![r] = Append(@, Len(@) + 1)]
    /\ UNCHANGED <<state, produced, source, cut>>

Produce(r) ==
    /\ source[r] = "open"
    /\ produced[r] < MaxChunks
    /\ produced' = [produced EXCEPT ![r] = @ + 1]
    /\ UNCHANGED <<state, given, source, cut>>

Source(r) ==
    /\ \/ source[r] = "none" /\ source' = [source EXCEPT ![r] = "answered"]
       \/ /\ r \in Streams /\ source[r] = "none"
          /\ source' = [source EXCEPT ![r] = "open"]
       \/ /\ source[r] = "open"
          /\ \E s \in {"ended", "failed"} : source' = [source EXCEPT ![r] = s]
    /\ UNCHANGED <<state, given, produced, cut>>

Delete ==
    /\ \E rs \in SUBSET Streams : cut' = cut \cup rs
    /\ UNCHANGED <<state, given, produced, source>>

Next ==
    \/ \E r \in Requests : Begin(r) \/ Fail(r) \/ Answer(r) \/ Produce(r) \/ Source(r)
    \/ \E r \in Streams : Complete(r) \/ Deliver(r)
    \/ Delete

Spec == Init /\ [][Next]_vars
=============================================================================
