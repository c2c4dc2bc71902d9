\* The lines of the page against the quote that is approved from it.
CONSTANTS
    l1 = l1
    l2 = l2
    Lines = {l1, l2}
    NoLine = NoLine
    Amounts = {0, 1}
    Taxes = {0}
    GateSettings = {FALSE}
    Reads = {"lines", "summary"}
    LineCap = 2
    MaxRevision = 1
    MaxVersion = 2
    MaxSynced = 1

SPECIFICATION Spec

SYMMETRY Symmetry

PROPERTIES
    ApprovedLinesWereShown

CHECK_DEADLOCK FALSE
