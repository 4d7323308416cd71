SPECIFICATION Spec
CONSTANTS
    Default = Default
    AnyFormat = AnyFormat
    A = A
    B = B
    Chat = Chat
    Message = Message
    M1 = M1
    M2 = M2
    Admins = {a1}
    Groups <- MCGroups
    Formats <- MCFormats
    Models <- MCModels
    Discoveries <- MCDiscoveries
    MemberLists <- MCMemberLists
    TargetIds = {}
    Populations <- MCInService
    ReusesIds = TRUE
    MaxCalls = 2
    FormatLists <- MCFormatLists
INVARIANT TargetsAreMembers
CHECK_DEADLOCK FALSE
