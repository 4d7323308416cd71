SPECIFICATION Spec
CONSTANTS
    Default = Default
    AnyFormat = AnyFormat
    A = A
    B = B
    Chat = Chat
    Message = Message
    M1 = M1
    M2 = M2
    Admins = {a1, a2}
    Groups <- MCGroups
    Formats <- MCFormats
    Models <- MCModels
    Discoveries <- MCDiscoveries
    MemberLists <- MCMemberLists
    TargetIds <- MCTargetIds
    Populations <- MCPopulations
    ReusesIds = TRUE
    MaxCalls = 2
    FormatLists <- MCFormatLists
SYMMETRY HandlerSymmetry
INVARIANTS TypeOK MembershipAgrees NoOverlap GroupIsolation RevokedStaysRevoked ExplanationAgrees
PROPERTIES DefaultServesAll ProbeKeepsManual
CHECK_DEADLOCK FALSE
