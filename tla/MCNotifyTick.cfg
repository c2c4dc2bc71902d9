SPECIFICATION Spec
CONSTANTS
    t1 = t1
    t2 = t2
    approver = approver
    clerk = clerk
    stepTurn = stepTurn
    payment = payment
    applied = applied
    Nobody = Nobody
    Ticks <- MCTicks
    Recipients <- ApproverAlone
    Notices <- ApproverNotices
    To <- ToApprover
    Age <- ApproverAge
    StepNotices <- Steps
    EventNotices <- Empty
    QuietNotices <- Empty
    BatchMax = 1
    BusinessDays <- AfterHoliday
    MaxDay = 2
    MaxRuns = 2
SYMMETRY Symmetric
CHECK_DEADLOCK FALSE
INVARIANTS
    OneMailADay
    OutcomeIsHonest
PROPERTIES
    MailsAreWhole
    HandledStepsAreNotAnnounced
