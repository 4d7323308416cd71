\* A reconnect under one call (a stream of two chunks), or two calls on one websocket.
CONSTANTS
    Channels <- MCChannels
    Order <- MCOrder
    Plain = {p1}
    Streams = {s1}
    None = None
    MaxChunks = 2
    Budget = 9
SPECIFICATION FairSpec
ACTION_CONSTRAINT WithinBudget
INVARIANTS
    BoundMeansServed
    SettledIsForgotten
PROPERTIES
    LateAnswerIsDropped
    ImplementsContract
    EveryCallSettles
    EveryStreamEnds
    AbandonedStreamsDrain
\* The bounded agent runs out of websockets and requests.
CHECK_DEADLOCK FALSE
