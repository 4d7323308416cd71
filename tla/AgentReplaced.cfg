\* Two websockets: the second registers before the first is found dead.
CONSTANTS
    Channels <- MCChannels
    Order <- MCOrder
    Budget = 9
    Plain = {}
    Streams = {s1}
    None = None
    MaxChunks = 1
SPECIFICATION Spec
INVARIANTS
    DisconnectFailsItsPending
\* The bounded agent runs out of websockets and requests.
CHECK_DEADLOCK FALSE
