SPECIFICATION Spec
CONSTANTS
    None = None
    s1 = s1
    s2 = s2
    e1 = e1
    Sessions <- TwoSessions
    Expenses <- OneExpense
    Periods <- TwoPeriods
    AllowOpen = TRUE
    MaxDay = 3
    MaxVersion = 2
SYMMETRY SymmetryOfTwo
INVARIANTS
    CompletionIsClean
