SPECIFICATION Spec
CONSTANTS
    None = None
    s1 = s1
    s2 = s2
    e1 = e1
    Sessions <- TwoSessions
    Expenses <- OneExpense
    Periods <- ThreePeriods
    AllowOpen = FALSE
    MaxDay = 3
    MaxVersion = 3
SYMMETRY SymmetryOfTwo
INVARIANTS
    CompletionFollowsApproval
    CheckedCompletionIsClean
    SettledProjectsHaveEnded
    ClosedExpensesAreOver
PROPERTIES
    CompletedProjectsAreFrozen
