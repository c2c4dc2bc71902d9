\* What a restore by hand brings back, when the payment was cancelled and made
\* again with another tax.
CONSTANTS
    l1 = l1
    l2 = l2
    l3 = l3
    Lines = {l1, l2, l3}
    NoLine = NoLine
    Amounts = {0, 1}
    Taxes = {1, 2}
    GateSettings = {FALSE}
    Reads = {"summary"}
    LineCap = 3
    MaxRevision = 1
    MaxVersion = 1
    MaxSynced = 3

SPECIFICATION Spec

SYMMETRY Symmetry

INVARIANTS
    NoCancelledTax

CHECK_DEADLOCK FALSE
