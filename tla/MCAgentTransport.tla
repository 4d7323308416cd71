-------------------------- MODULE MCAgentTransport --------------------------
(***************************************************************************)
(* AgentTransport on a budget.  Websockets, calls and chunks all draw on   *)
(* it, so that one instance has both a reconnect under one call, with a    *)
(* stream of two chunks, and two calls at a time on one websocket, but not *)
(* everything at once.  The budget holds back what the environment may do, *)
(* and a chunk only where the agent may end the stream instead: no step    *)
(* that fairness asks for is lost.                                         *)
(***************************************************************************)
EXTENDS AgentTransport, FiniteSetsExt

CONSTANTS
    Order,          \* the websockets in the order in which they are opened
    Budget          \* bound: what may be spent

MCOrder    == <<1, 2>>
MCChannels == {1, 2}

Opened == {c \in Channels : link[c] # "unused"}
Called == {r \in Requests : call[r] # "idle"}

Spent == 2 * Cardinality(Opened) + 3 * Cardinality(Called)
            + SumFunction([r \in Requests |-> sent[r]])

\* The websockets are alike, so they may as well be opened in order.
WithinBudget ==
    /\ Spent' <= Budget
    /\ \A i \in 2 .. Len(Order) : Order[i] \in Opened' => Order[i - 1] \in Opened'
=============================================================================
