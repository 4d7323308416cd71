\* One websocket, one stream, the agent may be deleted.
CONSTANTS
    Channels = {1}
    Order <- MCOrder
    Budget = 9
    Plain = {}
    Streams = {s1}
    None = None
    MaxChunks = 1
SPECIFICATION Spec
INVARIANTS
    CompleteMeansWhole
\* The bounded agent runs out of websockets and requests.
CHECK_DEADLOCK FALSE
