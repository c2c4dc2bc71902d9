SPECIFICATION Spec
CONSTANTS
    drafter = drafter
    lead = lead
    roleLead = roleLead
    roleCeo = roleCeo
    salesTeam = salesTeam
    s1 = s1
    s2 = s2
    Null = Null
    People <- MCPeople
    Roles <- MCRoles
    CeoRole = roleCeo
    Teams <- MCTeams
    OrgUnits <- MCOrgUnits
    Sessions <- MCSessions
    Drafter = drafter
    ResubmitFrom <- MCResubmitFrom
    RouteConfigs <- BothConfigs
    Snapshots <- Handover
    DocTeam = salesTeam
    MaxVersion = 3
SYMMETRY Symmetric
CHECK_DEADLOCK FALSE
INVARIANTS
    WinnerReadCurrentRows
    OneDecisionPerPerson
    StatusMatchesDecisions
    SelfApprovalIsSanctioned
    FallbackEndsTheRound
    OfferIsWhatIsAccepted
PROPERTIES
    KeepsTheLedger
