\* Everything may come to rest: nobody has to change a quote.
CONSTANTS
    l1 = l1
    l2 = l2
    l3 = l3
    Lines = {l1, l2, l3}
    NoLine = NoLine
    Amounts = {0, 1}
    Taxes = {0, 1}
    GateSettings = {TRUE, FALSE}
    Reads = {"summary"}
    LineCap = 3
    MaxRevision = 2
    MaxVersion = 2
    MaxSynced = 3

SPECIFICATION Spec

SYMMETRY Symmetry

INVARIANTS
    OneLiveLine
    RuleLineFollowsPayment
    VersionsTellHands
    ApprovedTotalStands
    LinkedDocumentStands

PROPERTIES
    ApprovedWhatWasCounted
    RuleLeavesHandsAlone

CHECK_DEADLOCK FALSE
