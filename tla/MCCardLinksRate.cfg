\* The room of a line at every rate, whatever the writing request has read.
SPECIFICATION Spec
CONSTANTS
    l1 = l1
    l2 = l2
    u1 = u1
    u2 = u2
    r1 = r1
    e1 = e1
    s1 = s1
    s2 = s2
    Team = Team
    None = None
    Lines <- MCLines
    First = {l1}
    Usages <- MCUsages
    Requests <- MCRequests
    Expenses <- MCExpenses
    Sessions <- MCSessions
    Amounts = {1, 2}
    Executions = {3}
    Rates = {0, 100}
    MaxSeq = 2
    MaxTurns = 4
SYMMETRY Symmetric
CHECK_DEADLOCK FALSE
PROPERTIES
    RoomIsKeptAtEveryRate
