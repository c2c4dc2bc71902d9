\* Everything may come to rest: nobody has to ask for anything.
CONSTANTS
    c1 = c1
    c2 = c2
    l1 = l1
    l2 = l2
    Calls = {c1, c2}
    Yearly = {"leave"}
    ByProject = {"expense"}
    Projects = {p1}
    Starts = {1, 2}
    MaxYear = 2
    MaxIssued = 2
    Drafters = {drafter}
    Leaves = {l1, l2}
    Days = {1, 2}
    HalfDays = {1}
    Nothing = nothing
    LeaveKind = "leave"
    ExpenseKind = "expense"
    MaxVersion = 3
    MaxTables = 1

SPECIFICATION Spec

SYMMETRY Symmetry

INVARIANTS
    NoDayTakenTwice
    NumbersAreNew

CHECK_DEADLOCK FALSE
