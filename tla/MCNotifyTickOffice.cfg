SPECIFICATION FairSpec
CONSTANTS
    t1 = t1
    t2 = t2
    approver = approver
    clerk = clerk
    stepTurn = stepTurn
    payment = payment
    applied = applied
    Nobody = Nobody
    Ticks <- MCTicks
    Recipients <- ApproverAndClerk
    Notices <- OfficeNotices
    To <- ToOffice
    Age <- OfficeAge
    StepNotices <- Empty
    EventNotices <- OfficeNotices
    QuietNotices <- Empty
    BatchMax = 1
    BusinessDays <- OneDay
    MaxDay = 1
    MaxRuns = 2
CHECK_DEADLOCK FALSE
INVARIANTS
    CountersAddUp
PROPERTIES
    TicksEnd
