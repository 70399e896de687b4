SPECIFICATION Spec
CONSTANTS
    Workers = {w1, w2}
    MaxCalls = 3
    MaxNow = 2
    Faults = FALSE
    None = None
    MaxFailed = 2
    LockedFor = 1
    SessionLasts = 1
    AccessLasts = 2
    Emails = {"carla", "dario"}
    MemberRoles = {"admin", "commercialista"}
    Plans <- MCPlans
    SeatLimits = {7}
    OwnCaps = {0, 2}
    VatNumbers = {"t3"}
    Caps <- MCCaps
    Usages = {1, 2}
    Scenes <- MCScenes
SYMMETRY Perms
INVARIANTS SpentTokensStaySpent LockedAfterMisses ConsentBeforeAccess CapHolds
